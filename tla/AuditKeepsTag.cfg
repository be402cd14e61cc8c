SPECIFICATION Spec
CONSTANTS
    Actors = {ui, worker}
    Files = {f1}
    Names = {n1}
    NoFile = NoFile
    NoName = NoName
    N = 2
    NamedStreams = TRUE
    LeftOver = {}
    Faults = {}
    MaxFaults = 0
    MaxEdits = 0
INVARIANT TaggedIsCipher
CHECK_DEADLOCK FALSE
