\* Runs of two steps, sequential and concurrent, one fault, two attempts per task.
CONSTANTS
    research = research
    review = review
    missing = missing
    none = none
    NoTask = none
    Task <- MCTask
    StepOf <- MCStepOf
    Follow <- MCFollow
    Unreviewable = {missing}
    StepCount = 2
    MaxCalls = 2
    MaxRetries = 2
    MaxFaults = 1
SPECIFICATION Spec
INVARIANTS
    BudgetCapsCalls
    MergedIsClean
    DoneIsHandedOn
PROPERTIES
    NothingAfterFailure
CHECK_DEADLOCK FALSE
