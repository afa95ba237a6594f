CONSTANTS
    BatchSize = 1
    Ceiling = 2
    DefaultCeiling = 3
    Queries <- SmallQueries
SPECIFICATION ScanSpec
PROPERTY ImplementsTableScan
PROPERTY ScanEnds
