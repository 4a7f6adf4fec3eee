CONSTANTS
    m_sets = 1
    m_ways = 1
    RowsPerLine = 2
    partial_lookup_factor = 2
    numRows = 4
    numQREntries = 3
    drain_cache_miss_threshold = 1
    virtualize_RIT = TRUE
    QREntriesPerLine = 1
    detectorBanks = 2
    ActsPerWindow = 3
    threshold = 2
SPECIFICATION AquaSpec
INVARIANTS
    AggressorMoves
    DelayBounded
PROPERTIES
    IsolationSpec
