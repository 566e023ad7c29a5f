\* One task, two agents whose loops stall, whose renewals raise and one of
\* which may crash.
CONSTANTS
    t1 = t1
    w1 = w1
    w2 = w2
    Task = {t1}
    Worker = {w1, w2}
    MaxRetries <- MCBudget
    HeartbeatInterval = 1
    StaleAfter = 2
    MaxFaults = 3
    LoopBlocks = TRUE
    TouchFails = TRUE
SPECIFICATION FairSpec
INVARIANTS
    LeaseFollowsHeartbeat
PROPERTY
    EventuallySettled
