CONSTANTS
    NRows = 4
    Plans <- MCPlans
SPECIFICATION Spec
INVARIANT EquivalentWhenLimitsReach
INVARIANT NothingInvented
CHECK_DEADLOCK FALSE
