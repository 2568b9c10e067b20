SPECIFICATION Spec
CONSTANTS
    Half8 = 16
    Half16 = 48
    Half32 = 128
    PageSize = 16
    HandleSize = 8
    Funcs <- MCFuncs
    Layouts <- MCLayouts
INVARIANT
    CallableAsOriginal
CHECK_DEADLOCK FALSE
