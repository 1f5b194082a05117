\* One command at a time on the plan; sessions, hooks and commits beside each
\* other; the run stops at its bounds.
SPECIFICATION ToolsSpec
CONSTANTS
    Written = 2
    MaxEdits = 2
    MaxPlans = 2
    s1 = s1
    s2 = s2
    Sessions = {s1, s2}
    Keyed = {s1}
    n1 = n1
    n2 = n2
    Names = {n1, n2}
    Main = n1
    NoName = none
    MaxRuns = 3
    MaxFaults = 2
    r1 = r1
    Repos = {r1}
    MaxTouches = 3
    MaxMishaps = 1
    m1 = m1
    m2 = m2
    Monitors = {m1, m2}
    DEBOUNCE_CALLS = 2
    MaxUses = 3
    k1 = k1
    k2 = k2
    Checkers = {k1, k2}
    MaxVersion = 3
    MaxChecks = 2
    c1 = c1
    c2 = c2
    Committers = {c1, c2}
    Paths = {1, 2}
    Requests <- CommitRequests
    MaxCommits = 2
    MaxChanges = 1
    e1 = e1
    e2 = e2
    Executors = {e1, e2}
    o1 = o1
    o2 = o2
    Bosses = {o1, o2}
    NoOne = none
    h1 = h1
    h2 = h2
    Readers = {h1, h2}
    p1 = p1
    p2 = p2
    Projects = {p1, p2}
    NoProject = none
    t1 = t1
    t2 = t2
    Texts = {t1, t2}
    MaxFiles = 2
    Brief = p2
    Common = t1
    Nodes = {1, 2, 3}
    Kinds = {1, 2}
    Dangling = 3
    FirstGraphs <- Graphs
    MaxBuilds = 2
INVARIANTS
    
    ExecutedWorkKept ViewsSound StatusTold
    StreamsKeepWork
    SetHolds RepairSettles
    HooksSound CommitsSound
    WorkLands KnowledgeSound
PROPERTIES
    EditsSound
    SessionsApart
CHECK_DEADLOCK FALSE
