CONSTANTS
    Plans = {}
    Formed <- OnlyCareful
SPECIFICATION mcSafe
INVARIANTS AlwaysSettledWhenIdle
CHECK_DEADLOCK FALSE
