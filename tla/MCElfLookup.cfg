SPECIFICATION Spec
CONSTANTS
    f = f
    g = g
    absent = absent
    LinkMaps <- RegularMaps
    Requests = {f, g, absent}
INVARIANTS
    TypeOK
    FirstOwner
    SlotsOfSymbol
CHECK_DEADLOCK FALSE
