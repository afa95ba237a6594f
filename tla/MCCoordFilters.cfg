CONSTANTS
    Cases <- MCCases
SPECIFICATION Spec
INVARIANT PositionsAscend
INVARIANT NothingLost
INVARIANT SelectionExact
INVARIANT DatePartsStick
CHECK_DEADLOCK FALSE
