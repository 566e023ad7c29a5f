\* Two objects, two sources, two requests, two agents; an edit or a fault.
CONSTANTS
    o1 = o1
    o2 = o2
    article = article
    paper = paper
    off = off
    login = login
    none = none
    wikipedia = wikipedia
    arxiv = arxiv
    t1 = t1
    t2 = t2
    a1 = a1
    a2 = a2
    Object = {o1, o2}
    Url = {article, paper, off, login}
    Adapter = {wikipedia, arxiv}
    Finds <- MCFinds
    Page <- MCPage
    Query <- MCQuery
    Policy <- MCPolicy
    MinScore = 5000
    Disallowed = {paper}
    Task = {t1, t2}
    About <- MCAbout
    Agent = {a1, a2}
    NoTask = none
    NoUrl = none
    MaxIngests = 2
    MaxRetries = 2
    Touched = {o1, article}
    MaxTroubles = 1
    Cap <- MCCap
SPECIFICATION Spec
INVARIANTS
    VerifiedOnce
    PagesAreRead
CHECK_DEADLOCK FALSE
