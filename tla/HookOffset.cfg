SPECIFICATION SpecNonCached
CONSTANTS
    Ios = {i1}
    UserFiles = {"u"}
    SystemFiles = {"d"}
    Lbo <- Layout
    MayFail = FALSE
    GridSize = 3
INVARIANT EveryWriteInsideFile
CHECK_DEADLOCK FALSE
