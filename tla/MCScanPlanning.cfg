CONSTANTS
    MaxOuter = 5
    MaxChunk = 3
    MaxTarget = 4
    MaxTasks = 3
    Queries <- MCQueries
SPECIFICATION PlanSpec
CHECK_DEADLOCK FALSE
INVARIANT EachCellInOneSpec
INVARIANT NoChunkReadTwice
INVARIANT WithinTarget
