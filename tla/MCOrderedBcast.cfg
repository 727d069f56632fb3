CONSTANTS
    Plans <- OnlyStartUp
    Formed <- OnlyThree
SPECIFICATION mcSpec
INVARIANTS ReleasedInOrder SameOrderEverywhere AssertionsHold SettledWhenIdle
PROPERTIES ReliableWhenStable
CHECK_DEADLOCK FALSE
