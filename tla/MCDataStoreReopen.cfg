SPECIFICATION Spec
CONSTANTS
    MaxLog = 3
    Request = {1, 2, 3}
    MaxVersions = 2
    MaxCalls = 6
    MaxCrashes = 2
INVARIANT
    GrowthSurvives
CHECK_DEADLOCK FALSE
