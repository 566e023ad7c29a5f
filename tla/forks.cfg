\* Three objects written by two replicas, a Fork Resolution Agent and a Critic on one queue.
CONSTANTS
    r1 = r1
    r2 = r2
    fa = fa
    cr = cr
    Object = {1, 2, 3}
    Replica = {r1, r2}
    ForkAgent = {fa}
    Critic = {cr}
    MaxRetries = 2
    MaxFaults = 1
    Graph <- MCGraph
    SearchDepth = {1, 2}
    Rejected = {{1}, {5}, {3, 4}}
SPECIFICATION FairSpec
INVARIANTS
    ResolvedIsSettled
    LcaVerdictIsRight
    WinnerIsAgreed
PROPERTIES
    ChoosesLiveHead
    FinallyOneHead
CHECK_DEADLOCK FALSE
