CONSTANTS
    Rows = {r1, r2}
    Window = 4
    threshold = 5
    BlackListThreshold = 2
    WordSize = 65536
    MaxLatency = 1
SPECIFICATION Spec
INVARIANTS
    TypeOK
    DividesOnlyUnheld
    HeldBelowActualThreshold
CHECK_DEADLOCK FALSE
