\* Agents that share a .planning directory; the run stops at its bounds.
SPECIFICATION TeamsSpec
CONSTANTS
    a1 = a1
    a2 = a2
    Agents = {a1, a2}
    NoAgent = none
    MaxRetries = 2
    MaxCommands = 2
    w1 = w1
    w2 = w2
    Workers = {w1, w2}
    NoWorker = nobody
    MaxWaits = 1
    MaxJobs = 2
    Phases = {1, 2, 9}
    ParkedPhases = {9}
    PlansEach = 2
INVARIANTS TeamsTypeOK NoLostUpdate EffectsKept OneInside PlanningKept RelatedApart
PROPERTIES CommandsEnd JobsEnd AllDone
CHECK_DEADLOCK FALSE
