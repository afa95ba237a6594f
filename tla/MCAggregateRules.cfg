CONSTANTS
    BatchRows = 2
    Value <- CellValue
    Queries <- MCQueries
SPECIFICATION Spec
INVARIANT TypeOK
INVARIANT PushedExact
INVARIANT StatisticsExact
INVARIANT GroupsWithinBudget
CHECK_DEADLOCK FALSE
