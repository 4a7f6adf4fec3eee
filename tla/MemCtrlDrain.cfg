CONSTANTS
    Packets <- DrainPackets
    Reads <- MCReads
    Pieces <- MCPieces
    Ranks <- TwoRanks
    RankOf <- TwoRankOf
    readBufferSize = 2
    writeBufferSize = 3
    writeLowThreshold = 1
    writeHighThreshold = 2
    minWritesPerSwitch = 1
    memSchedPolicy = "frfcfs"
    None = None
SPECIFICATION Spec
INVARIANT
    DrainKicksWrites
