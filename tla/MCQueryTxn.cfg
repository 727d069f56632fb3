SPECIFICATION FairSpec
CONSTANTS
    i1 = i1  i2 = i2  i3 = i3
    q1 = q1  q2 = q2
    a1 = a1
    InstanceId = {i1, i2, i3}
    QueryId = {q1, q2}
    Arrays = {a1}
    coordOf <- TwoCoordinators
    arrayOf <- OneArray
    Plans <- FourPlans
INVARIANTS
    AssertionsHold
    WritersExclude
    CommittedIsStored
    UncommittedIsLocked
    VersionsAreConsecutive
    RowsAreOwned
PROPERTIES
    EverythingEnds
CHECK_DEADLOCK FALSE
