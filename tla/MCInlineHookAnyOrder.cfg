SPECIFICATION Spec
CONSTANTS
    Thread = {th1, th2}
    Token = {k1, k2}
    Handle = {h1, h2}
    first = first
    edge = edge
    small = small
    near = near
    far = far
    Target = {first, small}
    Detour = {near}
    Original = Original
    Int3 = Int3
    NoHandle = NoHandle
    Free = Free
    NoRequest = NoRequest
    PageSize = 64
    Addr <- MCAddr
    FuncSize <- MCFuncSize
    RedirectSize <- MCRedirectSize
    InjectFaults = {"prepare", "unprotect", "reprotect"}
    UninjectFaults = {"unprotect", "reprotect"}
    Serial = "page"
    Lifo = FALSE
INVARIANTS
    HandlesOwned
PROPERTIES
    CallsReturn
