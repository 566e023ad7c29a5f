\* Two agents, each with a copy of its own; one stalls or crashes at any point and
\* the other reclaims its task.
CONSTANTS
    t1 = t1
    w1 = w1
    w2 = w2
    c1 = c1
    c2 = c2
    p1 = p1
    Task = {t1}
    Worker = {w1, w2}
    MaxRetries <- MCOnce
    Conclusion <- MCConclusion
    Premise <- MCPremise
    Threshold = 1
    HeartbeatInterval = 1
    StaleAfter = 2
    MaxFaults = 1
    LoopBlocks = TRUE
    TouchFails = FALSE
SPECIFICATION InferenceSpec
SYMMETRY MCSymmetry
INVARIANTS
    DoneMeansHandled
