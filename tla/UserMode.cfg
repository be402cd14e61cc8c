SPECIFICATION UserMode
CONSTANTS
    Actors = {ui}
    Files = {f1}
    Names = {n1, n2}
    NoFile = NoFile
    NoName = NoName
    N = 2
    NamedStreams = FALSE
    LeftOver = {}
    Faults <- ReportedFaults
    MaxFaults = 2
    MaxEdits = 1
    Gpus = {g0, g1}
    MycelGpu = g0
    SlotThreads = {t1, t2}
    ClContexts = {o1, o2, o3}
    NoClContext = NoClContext
    InitFirst = TRUE
    FsGrid <- Square
    DefaultGrid <- Strip
    CellCounts = {1, 3}
    SdkContexts = {"c"}
    SdkSeeds = {"s"}
    SdkBlocks = {"b"}
    MaxFailures = 2
INVARIANTS ReleasedOnce FailClosed FieldFits OneContextRestores
PROPERTIES SuccessIsComplete OperationEnds
CHECK_DEADLOCK FALSE
