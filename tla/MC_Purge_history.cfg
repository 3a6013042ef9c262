SPECIFICATION PurgeSpec
CONSTANTS
    PurgeFile <- MCFile
    Canonical <- MCCanonical
    Covers <- MCCovers
    RefName <- MCRefName
    Repository <- MCLines
    MaxPurges = 1
INVARIANT HistoryPurged
CHECK_DEADLOCK FALSE
