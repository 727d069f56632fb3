SPECIFICATION Spec
CONSTANTS
    Thread = {"t1", "t2"}
    Key <- mcKey
    Store = {"pers", "temp"}
    IoThread = {"io1", "io2"}
    StoreOf <- mcStoreOf
    Home <- mcHome
    Size <- mcSize
    Zipped = {2}
    Temporary = {"temp"}
    Abandoned = {1}
    Limit = 3
    ListSize = 3
    MaxFills = 2
    MaxCalls = 4
    MaxFailures = 1
INVARIANTS
    SlotsAgree
    CountersMatch
    WritesOwnTheirSlot
    PinnedIsLatest
    CommittedIsStable
PROPERTIES
    EveryCallReturns
CHECK_DEADLOCK FALSE
