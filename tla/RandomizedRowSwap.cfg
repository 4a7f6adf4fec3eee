CONSTANTS
    Rows = {r1, r2, r3, r4, r5, r6, r7}
    NoRow = NoRow
    maxValidTuples = 2
    numTuples = 3
SPECIFICATION Spec
INVARIANTS
    TypeOK
    NoAssertFails
    SwapsAreInvolution
    SwapLasts
PROPERTIES
    SwapsCharged
