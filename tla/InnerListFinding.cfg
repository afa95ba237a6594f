CONSTANTS
    BatchSize = 2
    Ceiling = 12
    DefaultCeiling = 3
    Queries <- InnerListQueries
SPECIFICATION ScanSafety
INVARIANT RowIsOneGridCell
