\* A client of the server and a Critic merge one branch, which others edit around.
CONSTANTS
    s1 = s1
    b1 = b1
    o1 = o1
    o2 = o2
    r = r
    name = name
    text = text
    c1 = c1
    k1 = k1
    p1 = p1
    p2 = p2
    Session = {s1}
    Branch = {b1}
    Object = {o1, o2, r}
    Field = {name, text}
    Participants <- MCParticipants
    Ours <- MCOurs
    Theirs <- MCTheirs
    FieldMerge = TRUE
    Client = {c1}
    Critic = {k1}
    Process = {p1, p2}
    Server = p1
    Target <- MCTarget
    ProcessOf <- MCProcessOf
    MaxRecords = 1
    MaxRetries = 2
    Choice = {"branch_b", "null"}
    Attended = {b1}
    MaxEdits = 1
    MaxCalls = 2
    MaxFaults = 1
SPECIFICATION FairSpec
INVARIANTS
    UnmergedIsKept
PROPERTIES
    MergeKeepsEdits
    EventuallySettled
CHECK_DEADLOCK FALSE
