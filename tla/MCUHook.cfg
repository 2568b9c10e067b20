SPECIFICATION Spec
CONSTANTS
    exe = exe
    lib = lib
    below = below
    above = above
    vdso = vdso
    near = near
    far = far
    File <- MCFile
    Content <- MCContent
    HostData = 1
    IntMax = 3
    Object <- MCObject
    Path <- MCObject
    Base <- MCBase
    Segments <- MCSegments
    Areas <- MCAreas
    PathOf <- MCPathOf
    Anonymous <- MCAnonymous
    Start <- MCStart
    Plugin = {below, above}
    Disks <- MCDisks
    Target = {9, 50, 60, 62, 83}
    NoFile = NoFile
    NoPath = NoPath
    Null = Null
    Uninit = Uninit
    Unknown = Unknown
    Symbol = {s}
    Detour = {near, far}
    Token = {k1, k2}
    Handle = {h1, h2}
    Need <- MCNeed
    NoHandle = NoHandle
    NoRequest = NoRequest
    Free = Free
SYMMETRY Symmetry
INVARIANTS
    TypeOK
    ParsedFaithfully
    SizeOfSymbol
    RightObject
    ReleasedOnce
    TokenOwnsHook
CHECK_DEADLOCK FALSE
