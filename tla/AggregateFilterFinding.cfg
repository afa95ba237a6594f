CONSTANTS
    BatchRows = 2
    Value <- CellValue
    Queries <- ValueQueries
SPECIFICATION Spec
INVARIANT FiltersStillApplied
CHECK_DEADLOCK FALSE
