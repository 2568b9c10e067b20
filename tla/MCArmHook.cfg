SPECIFICATION Spec
CONSTANTS
    Half24 = 8
    Functions <- MCFunctions
    Layouts <- MCLayouts
INVARIANTS
    TypeOK
    NearHookReaches
    WrapGoesOn
    ForwardBranchKept
CHECK_DEADLOCK FALSE
