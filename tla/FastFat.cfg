SPECIFICATION FastFat
CONSTANTS
    c1 = c1
    c2 = c2
    c3 = c3
    c4 = c4
    v1 = v1
    v2 = v2
    Vcbs = {v1, v2}
    Closes = {c1, c2, c3, c4}
    VcbOf <- VolumesOfCloses
    MetadataCloses = {c4}
    StaysOpen <- OpensLeft
    Workers = {w1}
    MaxDelayedClose = 1
    NoVcb = NoVcb
    NoContext = NoContext
    Files = {f1}
    Handles = {h}
    NoHandle = NoHandle
    Requests = {r1, r2, r3, m}
    Unbound = {m}
    ExThreads = 3
    Threshold = 1
    Ios = {i1}
    UserFiles = {"u"}
    SystemFiles = {"d"}
    Lbo <- Layout
    MayFail = TRUE
    GridSize = 3
    Setters = {s1, s2}
    MaxChanges = 2
    MaxFlushes = 1
    MaxFailures = 1
INVARIANTS
    ListsAgree NoneStranded OneWorker
    CountsMeanOpens DeletedUnused LockExcludes
    CountIsWorkers NobodyStranded
    CompletedIsSettled SuccessMeansAllRuns
    CleanIsUnderWay
PROPERTIES
    AsyncDone VolumeGoes PostedIsHandled TransferEnds VolumeMarkedClean
CHECK_DEADLOCK FALSE
