CONSTANTS
    Copies <- MCCopies
    Fill = Fill
    Old = Old
    Absent = Absent
SPECIFICATION Spec
INVARIANT TypeOK
INVARIANT CopyExact
INVARIANT CellsHaveOneRow
INVARIANT ChunksOldOrNew
INVARIANT InvalidLeavesTarget
PROPERTY CopyEnds
CHECK_DEADLOCK FALSE
