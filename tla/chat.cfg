SPECIFICATION ChatFairSpec

CONSTANTS
    Nothing = Nothing
    search = search
    drop = drop
    Setting <- MCSetting
    Allowed = {search}
    Other = {drop}
    Id <- MCId
    Response <- MCResponse
    MaxIterations = 2
    MaxAttempts = 2
    MaxRecords = 2
    MaxAsks = 2
    MaxRequests = 2

INVARIANTS
    CallsAreAnswered
    RequestsAreRecorded
PROPERTIES
    EventuallyAnswered
CHECK_DEADLOCK FALSE
