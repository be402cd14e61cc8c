SPECIFICATION SpecCore
CONSTANTS
    Gpus = {g0}
    MycelGpu = g0
    SlotThreads = {}
    ClContexts = {o1}
    NoClContext = NoClContext
    InitFirst = TRUE
    FsGrid <- Square
    DefaultGrid <- Strip
    CellCounts = {1}
    SdkContexts = {"c1", "c2"}
    SdkSeeds = {"s"}
    SdkBlocks = {"b"}
    MaxFailures = 0
INVARIANT SameSeedRestores
CHECK_DEADLOCK FALSE
