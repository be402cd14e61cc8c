SPECIFICATION FairSpec
CONSTANTS
    Requests = {r1, r2}
    Shapes <- TwoRuns
    ReserveSize = 1
PROPERTY AlwaysGoesForward
CHECK_DEADLOCK FALSE
