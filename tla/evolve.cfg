\* Two processes, four calls of evolve_knowledge and a tool without the lock.
CONSTANTS
    e1 = e1
    e2 = e2
    e3 = e3
    e4 = e4
    t1 = t1
    p1 = p1
    p2 = p2
    a = a
    r = r
    Call = {e1, e2, e3, e4, t1}
    Tool = {t1}
    Process = {p1, p2}
    ProcessOf <- MCProcessOf
    Object = {a, r}
    Ops <- MCOps
    Initial <- MCInitial
    Valid <- MCValid
    MaxCommitRetries = 1
    MaxErrors = 1
    Absent = Absent
    Original = Original
    NoCall = NoCall
SPECIFICATION FairSpec
INVARIANTS
    ValidHead
    EvolveLeavesNoTransaction
    GiveUpIsContention
PROPERTY
    EveryCallAnswered
