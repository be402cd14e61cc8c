SPECIFICATION PagingAndDisk
CONSTANTS
    Requests = {r1, r2}
    Shapes <- ManyShapes
    ReserveSize = 1
    Chained = {a, b}
    NumberOfClusters = 3
    MaxSize = 3
    MaxRaises = 1
INVARIANTS TypeOK CompletedIsOver CountIsPieces OneReserve
    PromisesKept OwnedOnce ChainIsMcb
PROPERTIES Promise EachCompletes
CHECK_DEADLOCK FALSE
