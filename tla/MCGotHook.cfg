SPECIFICATION Spec
CONSTANTS
    Thread = {th1, th2}
    Token = {k1, k2, k3}
    Helper = {h1, h2, h3}
    Detour = {d1, d2}
    full = full
    mixed = mixed
    fixed = fixed
    single = single
    absent = absent
    relro = relro
    data = data
    Symbol = {full, mixed, single, absent}
    Page = {relro, data}
    NoHelper = NoHelper
    Free = Free
    NoRequest = NoRequest
    NoOrigin = NoOrigin
    Slots <- MCSlots
    SlotPage <- MCSlotPage
    InitProt <- MCInitProt
    Lazy = {mixed, single}
    Faults = {"calloc", "lookup"}
    Serial = "page"
    Lifo = TRUE
    FreshDetour = TRUE
SYMMETRY Symmetry
CHECK_DEADLOCK FALSE
INVARIANTS
    TypeOK
    Restored
    ProtRestored
    SlotsAgree
    OriginIsDisplaced
PROPERTIES
    IsAHookStack
