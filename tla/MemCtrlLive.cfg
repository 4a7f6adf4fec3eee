CONSTANTS
    Packets <- FewPackets
    Reads <- MCReads
    Pieces <- MCPieces
    Ranks <- TwoRanks
    RankOf <- TwoRankOf
    readBufferSize = 2
    writeBufferSize = 3
    writeLowThreshold = 1
    writeHighThreshold = 2
    minWritesPerSwitch = 1
    memSchedPolicy = "fcfs"
    None = None
SPECIFICATION FairSpec
INVARIANTS
    NoLostWakeup
PROPERTIES
    ServiceSpec
    RefusedIsAccepted
    DrainEnds
