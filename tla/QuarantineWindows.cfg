CONSTANTS
    m_sets = 1
    m_ways = 2
    RowsPerLine = 3
    partial_lookup_factor = 3
    numRows = 3
    numQREntries = 3
    drain_cache_miss_threshold = 1
    virtualize_RIT = TRUE
    QREntriesPerLine = 1
SPECIFICATION WSpec
INVARIANTS
    TypeOK
    NoAssertFails
    TablesInverse
    GroupCounts
    CacheCoherent
    VerdictsCorrect
    QuarantineLasts
