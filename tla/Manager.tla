------------------------------ MODULE Manager ------------------------------
(***************************************************************************)
(* init manager (init.cjs) and the session that follows it: a dashboard    *)
(* computed from ROADMAP.md and the phase directories recommends actions,  *)
(* and every recommended plan or execute is given to an agent in the       *)
(* background.  The agents are external: a planner writes the plans of its *)
(* phase one by one, an executor the summaries of the plans it found and   *)
(* then runs phase complete.  A second agent of the same kind on a phase   *)
(* is not told from the first.                                             *)
(***************************************************************************)
EXTENDS Naturals, FiniteSets

CONSTANTS
    Phases,         \* the numbers of the milestone's headings
    ParkedPhases,   \* those in the backlog, 999 and 999.x
    PlansEach       \* plans a planner writes for a phase

ASSUME PhasesAssumption == Phases \subseteq Nat /\ ParkedPhases \subseteq Phases
ASSUME PlansAssumption == PlansEach \in Nat \ {0}

VARIABLES
    needs,      \* "Depends on" of each heading
    reused,     \* numbers checked off in a shipped milestone as well
    checked,    \* the checkbox of each phase
    folder,     \* what is in each phase directory, beside plans and summaries
    planned,    \* PLAN.md files of each phase
    summed,     \* SUMMARY.md files of each phase
    active,     \* a file of the directory is less than five minutes old
    menu,       \* recommended_actions of the dashboard on the screen
    planner,    \* a planner works on the phase
    executor,   \* the plans its executor found, 0 when none works on it
    hasty,      \* history: an execute was given out while a planner wrote
    stranded    \* history: an agent died

managerVars == <<needs, reused, checked, folder, planned, summed, active, menu,
                 planner, executor, hasty, stranded>>

Scheduled == Phases \ ParkedPhases
\* What is in a phase directory beside plans and summaries: RESEARCH.md counts
\* as CONTEXT.md does.
Folders == {"no_directory", "empty", "discussed"}

\* A phase depends on earlier ones; the numbers of an earlier milestone may
\* have been used again.
ManagerInit ==
    /\ needs \in {f \in [Phases -> SUBSET Scheduled] :
                    \A p \in Phases : \A q \in f[p] : q < p /\ p \in Scheduled}
    /\ reused \in {{}, {q \in Scheduled : \A p \in Scheduled : q <= p}}
    /\ folder = [p \in Phases |-> "no_directory"]
    /\ checked = [p \in Phases |-> FALSE]
    /\ planned = [p \in Phases |-> 0] /\ summed = [p \in Phases |-> 0]
    /\ active = [p \in Phases |-> FALSE]
    /\ menu = {}
    /\ planner = [p \in Phases |-> FALSE] /\ executor = [p \in Phases |-> 0]
    /\ hasty = FALSE /\ stranded = FALSE

-----------------------------------------------------------------------------
(* cmdInitManager *)

\* Complete one summary too early.
StatusEarly(p) ==
    IF checked[p] \/ (planned[p] > 0 /\ summed[p] + 1 >= planned[p]) THEN "complete"
    ELSE IF planned[p] > 0 THEN "planned" ELSE folder[p]

\* A checked phase is complete, whatever is on disk.
StatusOf(p) ==
    IF checked[p] \/ (planned[p] > 0 /\ summed[p] >= planned[p]) THEN "complete"
    ELSE IF summed[p] > 0 THEN "partial"
    ELSE IF planned[p] > 0 THEN "planned"
    ELSE folder[p]

\* Only what an earlier milestone has completed.
CompletedBefore == reused

\* A number checked off anywhere in ROADMAP.md satisfies a dependency.
CompletedNums == {p \in Phases : StatusOf(p) = "complete"} \cup reused
DepsSatisfied(p) == needs[p] \subseteq CompletedNums

Recommended ==
    {[action |-> "execute", phase |-> p] : p \in {q \in Scheduled : StatusOf(q) = "planned" /\ DepsSatisfied(q)}}
    \cup {[action |-> "plan", phase |-> p] : p \in {q \in Scheduled : StatusOf(q) = "discussed"}}
    \cup {[action |-> "discuss", phase |-> p] :
             p \in {q \in Scheduled : StatusOf(q) \in {"empty", "no_directory"} /\ DepsSatisfied(q)}}

\* Everything a phase depends on, directly or not: what is in every set that
\* contains set and what its members depend on.
Closed(set) == \A p \in set : needs[p] \subseteq set
Behind(set) == {q \in Phases : \A all \in SUBSET Phases : set \subseteq all /\ Closed(all) => q \in all}
Related(p, q) == q \in Behind(needs[p]) \/ p \in Behind(needs[q])

Executing == {p \in Phases : StatusOf(p) = "partial" \/ (StatusOf(p) = "planned" /\ active[p])}
Planning == {p \in Phases : StatusOf(p) = "discussed" /\ active[p]}

\* No execute beside a related phase that is being executed, no plan beside
\* one that is being planned.
Filtered ==
    {a \in Recommended :
        /\ a.action = "execute" => \A p \in Executing : ~Related(a.phase, p)
        /\ a.action = "plan" => \A p \in Planning : ~Related(a.phase, p)}

AllComplete == Scheduled # {} /\ \A p \in Scheduled : StatusOf(p) = "complete"

-----------------------------------------------------------------------------
(* The session. *)

Refresh ==
    /\ menu # Filtered /\ menu' = Filtered
    /\ UNCHANGED <<needs, reused, checked, folder, planned, summed, active, planner, executor,
                   hasty, stranded>>

Phase(action) == {a.phase : a \in {b \in menu : b.action = action}}

\* The option that runs every recommended action: the agents start, and the
\* discussion of each phase leaves its CONTEXT.md.
Continue ==
    /\ menu # {} /\ menu' = {}
    /\ planner' = [p \in Phases |-> planner[p] \/ p \in Phase("plan")]
    /\ executor' = [p \in Phases |-> IF p \in Phase("execute") THEN planned[p] ELSE executor[p]]
    /\ hasty' = (hasty \/ \E p \in Phase("execute") : planner[p])
    /\ folder' = [p \in Phases |-> IF p \in Phase("discuss") THEN "discussed" ELSE folder[p]]
    /\ active' = [p \in Phases |-> active[p] \/ p \in Phase("discuss")]
    /\ UNCHANGED <<needs, reused, checked, planned, summed, stranded>>

\* The user asks for a discussion that is not recommended.
DiscussEarly(p) ==
    /\ p \in Scheduled /\ StatusOf(p) \in {"no_directory", "empty"} /\ ~DepsSatisfied(p)
    /\ folder' = [folder EXCEPT ![p] = "discussed"]
    /\ active' = [active EXCEPT ![p] = TRUE]
    /\ UNCHANGED <<needs, reused, checked, planned, summed, menu, planner, executor, hasty, stranded>>

\* Five minutes without a change to a file of the directory.
GoQuiet(p) ==
    /\ active[p] /\ active' = [active EXCEPT ![p] = FALSE]
    /\ UNCHANGED <<needs, reused, checked, folder, planned, summed, menu, planner, executor,
                   hasty, stranded>>

-----------------------------------------------------------------------------
(* The agents. *)

WritePlan(p) ==
    /\ planner[p] /\ planned[p] < PlansEach
    /\ planned' = [planned EXCEPT ![p] = @ + 1]
    /\ active' = [active EXCEPT ![p] = TRUE]
    /\ UNCHANGED <<needs, reused, checked, folder, summed, menu, planner, executor, hasty, stranded>>

EndPlanning(p) ==
    /\ planner[p] /\ planned[p] = PlansEach
    /\ planner' = [planner EXCEPT ![p] = FALSE]
    /\ UNCHANGED <<needs, reused, checked, folder, planned, summed, active, menu, executor,
                   hasty, stranded>>

WriteSummary(p) ==
    /\ summed[p] < executor[p]
    /\ summed' = [summed EXCEPT ![p] = @ + 1]
    /\ active' = [active EXCEPT ![p] = TRUE]
    /\ UNCHANGED <<needs, reused, checked, folder, planned, menu, planner, executor, hasty, stranded>>

\* The executor verifies its work and runs phase complete.
EndExecuting(p) ==
    /\ executor[p] > 0 /\ summed[p] >= executor[p]
    /\ executor' = [executor EXCEPT ![p] = 0]
    /\ checked' = [checked EXCEPT ![p] = TRUE]
    /\ UNCHANGED <<needs, reused, folder, planned, summed, active, menu, planner, hasty, stranded>>

AgentDies(p) ==
    /\ ~stranded /\ stranded' = TRUE
    /\ \/ planner[p] /\ planner' = [planner EXCEPT ![p] = FALSE] /\ UNCHANGED executor
       \/ executor[p] > 0 /\ executor' = [executor EXCEPT ![p] = 0] /\ UNCHANGED planner
    /\ UNCHANGED <<needs, reused, checked, folder, planned, summed, active, menu, hasty>>

AgentStep(p) ==
    WritePlan(p) \/ EndPlanning(p) \/ WriteSummary(p) \/ EndExecuting(p)

\* Bound: what follows an execute given out too early is not followed up.
ManagerNext ==
    /\ ~hasty
    /\ \/ Refresh \/ Continue
       \/ \E p \in Phases : DiscussEarly(p) \/ GoQuiet(p) \/ AgentStep(p) \/ AgentDies(p)

\* The dashboard refreshes every minute while an agent works, the user goes on,
\* time passes and some agent at work goes on.
ManagerFairness ==
    /\ WF_managerVars(Refresh) /\ WF_managerVars(Continue)
    /\ WF_managerVars(\E p \in Phases : GoQuiet(p))
    /\ WF_managerVars(\E p \in Phases : AgentStep(p))
ManagerSpec == ManagerInit /\ [][ManagerNext]_managerVars /\ ManagerFairness

-----------------------------------------------------------------------------

\* Types of the phases as the manager sees them: plans and summaries within their bound, and a
\* menu that offers only phases of the roadmap.
ManagerTypeOK ==
    /\ folder \in [Phases -> Folders]
    /\ \A p \in Phases : planned[p] \in 0 .. PlansEach /\ summed[p] \in 0 .. PlansEach
    /\ \A a \in menu : a.phase \in Scheduled

\* Two phases, one of which depends on the other, directly or through others,
\* are never executed at the same time, unless numbers are used again or an
\* execute was given out while the plans of its phase were still written.  The
\* one depended on may still be verified: its last summary makes it complete.
AtWork(p) == summed[p] < executor[p]
RelatedApart ==
    reused = {} /\ ~hasty => \A p, q \in Phases : AtWork(p) /\ AtWork(q) => ~Related(p, q)

\* A session that is recommended anything completes every phase, unless an
\* agent dies or an execute is given out too early.
AllDone == menu # {} ~> AllComplete \/ hasty \/ stranded
=============================================================================
