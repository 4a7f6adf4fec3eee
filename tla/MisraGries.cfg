CONSTANTS
    Banks = {b1, b2}
    numRows = 4
    ActsPerWindow = 5
    threshold = 2
    ColdStart = FALSE
    InitialSpill = {0, 1}
SPECIFICATION Spec
INVARIANTS
    TypeOK
    NoAssertFails
    NoMissedAggressor
    MitigationBudget
    DetectorInv
