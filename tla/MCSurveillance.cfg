CONSTANTS
    Keys = {k1}
    ById = ById
    FenceIds = {f1}
    FenceConfigs <- MCFenceConfigs
    RuleIds = {r1}
    RuleConfigs <- MCRuleConfigs
    Positions <- MCPositions
    NoFix <- MCNoFix
    Statuses = {unknown, hostile}
    StatusUnknown = unknown
    DetectionEvents <- MCDetectionEvents
    NoDetails <- MCNoDetails
    MaxDetections = 3
    MaxRequests = 2
    MaxFaults = 1
SPECIFICATION WatchSpec
INVARIANT SilentAfterAlert
PROPERTIES
    BreachesExact
    DronePersisted
CHECK_DEADLOCK FALSE
