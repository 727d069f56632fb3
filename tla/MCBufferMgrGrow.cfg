SPECIFICATION Spec
CONSTANTS
    Thread = {"t1", "t2"}
    Key <- mcKey
    Store = {"pers", "temp"}
    IoThread = {"io1", "io2"}
    StoreOf <- mcStoreOf
    Home <- mcHome
    Size <- mcSize
    Zipped = {2}
    Temporary = {"temp"}
    Abandoned = {1}
    Limit = 3
    ListSize = 1
    MaxFills = 2
    MaxCalls = 4
    MaxFailures = 0
INVARIANT
    PinnedIsLatest
CHECK_DEADLOCK FALSE
