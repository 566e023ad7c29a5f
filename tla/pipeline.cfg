\* One object, edited once, a crash or a lost lease, two orchestrators.
CONSTANTS
    o1 = o1
    w1 = w1
    w2 = w2
    Object = {o1}
    Worker = {w1, w2}
    Verdict = {"resolved", "needs_research"}
    MaxRetries = 2
    MaxStarts = 1
    LastContent = 1
    MaxEdits = 1
    MaxLosses = 1
SPECIFICATION FairSpec
INVARIANTS
    NotStranded
    LostRaceIsSuccess
PROPERTIES
    VerdictIsFinal
    EventuallyJudged
CHECK_DEADLOCK FALSE
