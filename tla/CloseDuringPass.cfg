SPECIFICATION SpecExplorer
CONSTANTS
    Actors = {ui, worker}
    UI = ui
    Worker = worker
    Files = {f1}
    Names = {n1}
    NoFile = NoFile
    NoName = NoName
    N = 1
    NamedStreams = TRUE
    LeftOver = {}
    Faults = {}
    MaxFaults = 0
    MaxEdits = 1
    Folder = {n1}
    QueueLimit = 3
    ThreadMayFail = FALSE
INVARIANT UntaggedIsPlain
CHECK_DEADLOCK FALSE
