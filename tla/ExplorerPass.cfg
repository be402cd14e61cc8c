SPECIFICATION FairExplorer
CONSTANTS
    Actors = {ui, worker}
    UI = ui
    Worker = worker
    Files = {f1, f2}
    Names = {n1, n2}
    NoFile = NoFile
    NoName = NoName
    N = 1
    NamedStreams = TRUE
    LeftOver = {}
    Faults = {"read"}
    MaxFaults = 1
    MaxEdits = 1
    Folder = {n1}
    QueueLimit = 3
    ThreadMayFail = FALSE
INVARIANT BusyIsTrue
PROPERTIES NoRenameDuringPass BusyEnds
CHECK_DEADLOCK FALSE
