SPECIFICATION Spec
CONSTANTS
    Actors = {ui, worker}
    Files = {f1, f2}
    Names = {n1, n2}
    NoFile = NoFile
    NoName = NoName
    N = 2
    NamedStreams = TRUE
    LeftOver = {}
    Faults = {}
    MaxFaults = 0
    MaxEdits = 2
SYMMETRY Symmetry
INVARIANTS TypeOK UntaggedIsPlain
CHECK_DEADLOCK FALSE
