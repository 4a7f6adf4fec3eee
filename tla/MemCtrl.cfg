CONSTANTS
    Packets <- MCPackets
    Reads <- MCReads
    Pieces <- MCPieces
    Ranks = {1}
    RankOf <- OneRankOf
    readBufferSize = 2
    writeBufferSize = 5
    writeLowThreshold = 3
    writeHighThreshold = 4
    minWritesPerSwitch = 1
    memSchedPolicy = "frfcfs"
    None = None
SPECIFICATION Spec
INVARIANTS
    TypeOK
    AssertsHold
    BurstsAccounted
    WriteTurnHasWork
PROPERTY
    DrainedOwesNothing
