SPECIFICATION Spec
CONSTANTS
    Actors = {ui, worker}
    Files = {f1, f2}
    Names = {n1, n2}
    NoFile = NoFile
    NoName = NoName
    N = 2
    NamedStreams = FALSE
    LeftOver = {n1}
    Faults <- HashingFaultless
    MaxFaults = 1
    MaxEdits = 1
SYMMETRY ThreadSymmetry
INVARIANTS RoundTrip TamperDetected IInv
PROPERTY Atomic
CHECK_DEADLOCK FALSE
