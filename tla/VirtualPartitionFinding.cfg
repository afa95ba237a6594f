CONSTANTS
    BatchSize = 2
    Ceiling = 9
    DefaultCeiling = 4
    Queries <- AdapterQueries
SPECIFICATION ScanSafety
INVARIANT VirtualRowsOnce
