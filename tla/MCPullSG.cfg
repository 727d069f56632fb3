SPECIFICATION Spec
CONSTANTS
    N = 2
    Layouts <- mcLayouts
INVARIANTS
    AssertionsHold
    CommonIsAccounted
    SendCacheBounded
    DeliveredComplete
    ContextOutlivesMessages
PROPERTIES
    EveryoneFinishes
CHECK_DEADLOCK FALSE
