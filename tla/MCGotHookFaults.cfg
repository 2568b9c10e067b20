SPECIFICATION Spec
CONSTANTS
    Thread = {th1, th2}
    Token = {k1, k2}
    Helper = {h1, h2}
    Detour = {d1, d2}
    full = full
    mixed = mixed
    fixed = fixed
    single = single
    absent = absent
    relro = relro
    data = data
    Symbol = {fixed, single}
    Page = {relro, data}
    NoHelper = NoHelper
    Free = Free
    NoRequest = NoRequest
    NoOrigin = NoOrigin
    Slots <- MCSlots
    SlotPage <- MCSlotPage
    InitProt <- MCInitProt
    Lazy = {}
    Faults = {"setprot", "restore", "uninject"}
    Serial = "page"
    Lifo = TRUE
    FreshDetour = TRUE
INVARIANTS
    SlotWritable
    
    HelpersOwned
PROPERTIES
    CallsReturn
