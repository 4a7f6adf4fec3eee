CONSTANTS
    m_sets = 2
    m_ways = 1
    RowsPerLine = 2
    partial_lookup_factor = 2
    numRows = 6
    numQREntries = 2
    drain_cache_miss_threshold = 2
    virtualize_RIT = FALSE
    QREntriesPerLine = 2
SPECIFICATION Spec
INVARIANTS
    MitigatedIsQuarantined
