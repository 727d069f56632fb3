SPECIFICATION Spec
CONSTANTS
    MaxLog = 3
    Request = {1, 2, 3}
    MaxVersions = 2
    MaxCalls = 7
    MaxCrashes = 1
INVARIANT
    RemovalSurvives
CHECK_DEADLOCK FALSE
