SPECIFICATION Spec
CONSTANTS
    Actors = {ui}
    Files = {f1}
    Names = {n1}
    NoFile = NoFile
    NoName = NoName
    N = 2
    NamedStreams = TRUE
    LeftOver = {}
    Faults = {"mac"}
    MaxFaults = 2
    MaxEdits = 1
INVARIANT TamperDetected
CHECK_DEADLOCK FALSE
