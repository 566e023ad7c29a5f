\* Two requests at once beside two agents of different budgets with heartbeats on
\* time, of which one may crash.
CONSTANTS
    t1 = t1
    w1 = w1
    w2 = w2
    h1 = h1
    h2 = h2
    Task = {t1}
    Worker = {w1, w2}
    Handler = {h1, h2}
    Approvable = {t1}
    MaxRetries <- MCBudget
    HeartbeatInterval = 1
    StaleAfter = 2
    MaxFaults = 1
    LoopBlocks = FALSE
    TouchFails = FALSE
SYMMETRY MCSymmetry
SPECIFICATION ReviewSpec
INVARIANTS
    ReviewedStaysDead
    ClaimsUndisturbed
PROPERTIES
    ImplementsOperatedLifecycle
