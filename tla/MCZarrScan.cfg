CONSTANTS
    BatchSize = 2
    Ceiling = 9
    DefaultCeiling = 4
    Queries <- AllQueries
SPECIFICATION ScanSafety
INVARIANT ScanTypeOK
INVARIANT ResultExact
INVARIANT NothingButTheResult
INVARIANT WindowsWithinCeiling
INVARIANT ChunksReadOnce
