SPECIFICATION Spec
CONSTANTS
    Thread = {th1, th2}
    Token = {k1, k2, k3}
    Handle = {h1, h2, h3}
    first = first
    edge = edge
    small = small
    near = near
    far = far
    Target = {first, edge, small}
    Detour = {near, far}
    Original = Original
    Int3 = Int3
    NoHandle = NoHandle
    Free = Free
    NoRequest = NoRequest
    PageSize = 64
    Addr <- MCAddr
    FuncSize <- MCFuncSize
    RedirectSize <- MCRedirectSize
    InjectFaults = {"prepare", "unprotect"}
    UninjectFaults = {}
    Serial = "page"
    Lifo = TRUE
SYMMETRY Symmetry
INVARIANTS
    TypeOK
    CallbackWritable
    StackIntact
    Restored
    WriteProtectedAtRest
PROPERTIES
    IsAHookStack
