SPECIFICATION Spec
CONSTANTS
    Thread = {th1, th2}
    Token = {k1, k2}
    Handle = {h1, h2}
    first = first
    edge = edge
    small = small
    near = near
    far = far
    Target = {first, edge, small}
    Detour = {near, far}
    Original = Original
    Int3 = Int3
    NoHandle = NoHandle
    Free = Free
    NoRequest = NoRequest
    PageSize = 64
    Addr <- MCAddr
    FuncSize <- MCFuncSize
    RedirectSize <- MCRedirectSize
    InjectFaults = {}
    UninjectFaults = {"unprotect"}
    Serial = "page"
    Lifo = TRUE
INVARIANTS
    Restored
