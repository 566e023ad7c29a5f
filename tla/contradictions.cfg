\* Two contradictions that share a relation; a Critic and two Arbiters on one queue.
CONSTANTS
    cr = cr
    ar1 = ar1
    ar2 = ar2
    Relation = {1, 2, 3}
    Exclusive <- MCExclusive
    Functional <- MCFunctional
    Critic = {cr}
    Arbiter = {ar1, ar2}
    MaxRetries = 2
    MaxEdits = 1
    MaxSweeps = 2
    MaxFaults = 1
SPECIFICATION Spec
INVARIANTS
    OneRelationSurvives
CHECK_DEADLOCK FALSE
