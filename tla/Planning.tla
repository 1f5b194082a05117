------------------------------ MODULE Planning ------------------------------
(***************************************************************************)
(* One session at work on a .planning directory: the workflows plan,       *)
(* execute and complete the phase at hand and go on with the phase the     *)
(* tool reports as next, while the user adds, inserts and removes phases.  *)
(* Every gsd-tools command is one action, on ROADMAP.md, the phase         *)
(* directories and STATE.md together.  The agents that write PLAN.md and   *)
(* SUMMARY.md files are external.                                          *)
(***************************************************************************)
EXTENDS StateDoc, PhaseTree, PhaseViews

CONSTANTS
    Written,     \* phases of the roadmap at the start
    MaxEdits,    \* bound: phases added, inserted and removed
    MaxPlans     \* bound: plans of a phase

ASSUME PlanningAssumption == Written \in Nat \ {0} /\ MaxEdits \in Nat /\ MaxPlans \in Nat \ {0}

VARIABLES
    roadmap,   \* the headings of ROADMAP.md
    dirs,      \* the directories under phases/
    doc,       \* STATE.md
    shipped,   \* the directories under milestones/
    at,        \* the phase at hand, <<>> at the end of the milestone
    stage,     \* where the workflow of that phase is
    edits,     \* commands that edited the roadmap
    executed,  \* history: titles of phases with a summary, until deleted on request
    closed,    \* history: phase complete reported the last phase
    doubled    \* history: a removal left two directories with one number

planVars == <<roadmap, dirs, doc, shipped, at, stage, edits, executed, closed, doubled>>

Stages == {"plan", "planned", "begin", "execute", "progress", "advance", "verify", "complete", "over"}

\* The roadmapper writes integer phases and, as in its template, decimals
\* without padding.
PlanInit ==
    /\ \E decimal \in BOOLEAN :
          roadmap = [i \in 1 .. Written |->
                        Heading(IF decimal /\ i = 2 THEN <<1, 1>>
                                ELSE IF decimal /\ i > 2 THEN <<i - 1>> ELSE <<i>>, FALSE, i)]
    /\ dirs = {} /\ shipped = {} /\ executed = {} /\ closed = FALSE /\ doubled = FALSE
    /\ \E bold \in BOOLEAN : doc = NewDoc(bold, Written)
    /\ at = <<1>> /\ stage = "plan" /\ edits = 0

\* The spelling of a number on the command line is that of its heading.
Padded(num) == LET i == Target(roadmap, num) IN i # 0 /\ roadmap[i].padded
HeadingOf(num) == Spelled(roadmap, num, Padded(num))

\* writeStateMd and readModifyWriteStateMd rebuild the YAML block.
Rewrite(new) == doc' = Synced(new, OnDisk(roadmap', dirs'))

Step(from, to) == stage = from /\ stage' = to /\ UNCHANGED at

-----------------------------------------------------------------------------
(* The workflow of the phase at hand. *)

\* init plan-phase finds the directory of the phase, or the planner makes it;
\* the planner writes the plans.
PlanPhase(n) ==
    LET found == Resolved(roadmap, dirs, shipped, at, Padded(at))
        i == HeadingOf(at)
        e == IF found.dir = NoDir THEN Dir(at, roadmap[i].title) ELSE found.dir
        with(set) == (set \ {found.dir}) \cup {[e EXCEPT !.plans = IF n > @ THEN n ELSE @]}
    IN  /\ Step("plan", "planned")
        /\ found.dir # NoDir \/ i # 0
        /\ dirs' = IF found.archived THEN dirs ELSE with(dirs)
        /\ shipped' = IF found.archived THEN with(shipped) ELSE shipped
        /\ UNCHANGED <<roadmap, doc, edits, executed, closed, doubled>>

\* gsd-tools state planned-phase
StatePlanned ==
    /\ Step("planned", "begin")
    /\ UNCHANGED <<roadmap, dirs, shipped, edits, executed, closed, doubled>>
    /\ Rewrite(PlannedPhase(doc, Find(dirs, at).plans))

\* gsd-tools state begin-phase
StateBegin ==
    /\ Step("begin", "execute")
    /\ UNCHANGED <<roadmap, dirs, shipped, edits, executed, closed, doubled>>
    /\ Rewrite(BeginPhase(doc, at, Find(dirs, at).plans))

\* The executor writes the summary of one plan.
ExecutePlan ==
    LET d == Find(dirs, at) IN
    /\ Step("execute", "progress")
    /\ d.summaries < d.plans
    /\ dirs' = (dirs \ {d}) \cup {[d EXCEPT !.summaries = @ + 1]}
    /\ executed' = executed \cup {d.title}
    /\ UNCHANGED <<roadmap, doc, shipped, edits, closed, doubled>>

\* gsd-tools roadmap update-plan-progress
RoadmapProgress ==
    LET i == HeadingOf(at) IN
    /\ Step("progress", "advance")
    /\ roadmap' = IF i = 0 THEN roadmap
                  ELSE [roadmap EXCEPT ![i] = ProgressedHeading(@, Find(dirs, at))]
    /\ UNCHANGED <<dirs, doc, shipped, edits, executed, closed, doubled>>

\* gsd-tools state advance-plan, then the next plan or the end of the phase
StateAdvance ==
    LET d == Find(dirs, at) IN
    /\ Step("advance", IF d.summaries < d.plans THEN "execute" ELSE "verify")
    /\ UNCHANGED <<roadmap, dirs, shipped, edits, executed, closed, doubled>>
    /\ Rewrite(AdvancePlan(doc))

\* The verifier finds no gap.
Verify ==
    LET d == Find(dirs, at) IN
    /\ Step("verify", "complete")
    /\ dirs' = (dirs \ {d}) \cup {[d EXCEPT !.verified = TRUE]}
    /\ UNCHANGED <<roadmap, doc, shipped, edits, executed, closed, doubled>>

\* gsd-tools phase complete; the workflow goes on with the phase it reports.
PhaseComplete ==
    LET d    == Find(dirs, at)
        i    == HeadingOf(at)
        next == NextPhase(roadmap', dirs, at)
    IN  /\ stage = "complete" /\ d # NoDir
        /\ roadmap' = IF i = 0 THEN roadmap ELSE [roadmap EXCEPT ![i] = CompletedHeading(@, d)]
        /\ UNCHANGED <<dirs, shipped, edits, executed, doubled>>
        /\ Rewrite(CompletePhase(doc, at, next, d.summaries))
        /\ at' = next
        /\ stage' = IF next = <<>> THEN "over" ELSE "plan"
        /\ closed' = (closed \/ next = <<>>)

-----------------------------------------------------------------------------
(* Commands given at any time. *)

\* gsd-tools state update-progress and state sync
StateProgress ==
    /\ UNCHANGED <<roadmap, dirs, shipped, at, stage, edits, executed, closed, doubled>>
    /\ \/ Found(doc, "Progress") /\ Rewrite(UpdateProgress(doc, OnDisk(roadmap, dirs)))
       \/ Rewrite(SyncFromDisk(doc, [plans |-> Plans(dirs), summaries |-> Summaries(dirs)],
                               SyncPlans(dirs)))

Edit == edits < MaxEdits /\ edits' = edits + 1
FreshTitle == Written + edits + 1

\* gsd-tools phase add; the milestone goes on when it was closed.
PhaseAdd ==
    LET n == NextNumber(roadmap, dirs) IN
    /\ Edit
    /\ dirs' = dirs \cup {Dir(<<n>>, FreshTitle)}
    /\ roadmap' = AddedHeading(roadmap, n, FreshTitle)
    /\ at' = IF stage = "over" THEN <<n>> ELSE at
    /\ stage' = IF stage = "over" THEN "plan" ELSE stage
    /\ closed' = FALSE
    /\ UNCHANGED <<doc, shipped, executed, doubled>>

\* gsd-tools phase add-batch, with two descriptions
PhaseAddBatch ==
    LET n == NextNumber(roadmap, dirs) IN
    /\ edits + 1 < MaxEdits /\ edits' = edits + 2 /\ stage # "over"
    /\ dirs' = dirs \cup {Dir(<<n>>, FreshTitle), Dir(<<n + 1>>, FreshTitle + 1)}
    /\ roadmap' = AddedHeading(AddedHeading(roadmap, n, FreshTitle), n + 1, FreshTitle + 1)
    /\ UNCHANGED <<doc, shipped, at, stage, executed, closed, doubled>>

\* gsd-tools phase insert
PhaseInsert(num) ==
    LET i    == Target(roadmap, num)
        next == NextDecimal(roadmap, dirs, num)
    IN  /\ Edit /\ i # 0 /\ Len(num) = 1 /\ stage # "over"
        /\ dirs' = dirs \cup {Dir(next, FreshTitle)}
        /\ roadmap' = InsertedHeading(roadmap, i, next, FreshTitle)
        /\ UNCHANGED <<doc, shipped, at, stage, executed, closed, doubled>>

\* gsd-tools phase remove, with --force or not; the phase at hand moves with
\* its directory in the mind of the session.
PhaseRemove(num, force) ==
    LET d == Find(dirs, num) IN
    /\ Edit /\ HeadingOf(num) # 0 /\ stage # "over" /\ num # at
    /\ d = NoDir \/ d.summaries = 0 \/ force
    /\ dirs' = RemovedDirs(dirs, num)
    /\ roadmap' = RemovedHeading(roadmap, num, Padded(num))
    /\ at' = IF Len(num) = 1 /\ at[1] > num[1] THEN <<at[1] - 1>> \o Tail(at)
             ELSE IF Len(num) = 2 /\ Len(at) = 2 /\ at[1] = num[1] /\ at[2] > num[2]
             THEN <<at[1], at[2] - 1>> ELSE at
    /\ executed' = IF force THEN executed \ {d.title} ELSE executed
    /\ doubled' = (doubled \/ ~Distinct(dirs'))
    /\ Rewrite(RemovePhase(doc))
    /\ UNCHANGED <<shipped, stage, closed>>

\* gsd-tools milestone complete --archive-phases
MilestoneComplete ==
    /\ stage = "over" /\ Archived(roadmap, dirs) # {}
    /\ shipped' = shipped \cup Archived(roadmap, dirs)
    /\ dirs' = dirs \ Archived(roadmap, dirs)
    /\ doc' = Synced(Replace(doc, "Status", "milestoneComplete"), OnDisk(roadmap, dirs))
    /\ UNCHANGED <<roadmap, at, stage, edits, executed, closed, doubled>>

\* gsd-tools phases clear --confirm
PhasesClear ==
    /\ stage = "over" /\ Cleared(dirs) # {}
    /\ dirs' = dirs \ Cleared(dirs)
    /\ executed' = executed \ {d.title : d \in Cleared(dirs)}
    /\ UNCHANGED <<roadmap, doc, shipped, at, stage, edits, closed, doubled>>

\* The workflow of a new milestone: the roadmapper writes one phase, numbered
\* from 1 again with --reset-phase-numbers, which archives every directory.
NewMilestone(reset) ==
    LET n == IF reset THEN 1 ELSE NextNumber(roadmap, dirs) IN
    /\ Edit /\ stage = "over" /\ shipped # {}
    /\ roadmap' = <<Heading(<<n>>, FALSE, FreshTitle)>>
    /\ shipped' = IF reset THEN shipped \cup dirs ELSE shipped
    /\ dirs' = IF reset THEN {} ELSE dirs
    /\ at' = <<n>> /\ stage' = "plan" /\ closed' = FALSE
    /\ UNCHANGED <<doc, executed, doubled>>

PlanNext ==
    \/ \E n \in 1 .. MaxPlans : PlanPhase(n)
    \/ StatePlanned \/ StateBegin \/ ExecutePlan \/ RoadmapProgress \/ StateAdvance
    \/ Verify \/ PhaseComplete \/ StateProgress \/ PhaseAdd \/ PhaseAddBatch
    \/ \E num \in Numbers(Headings(roadmap)) :
          PhaseInsert(num) \/ \E force \in BOOLEAN : PhaseRemove(num, force)
    \/ MilestoneComplete \/ PhasesClear
    \/ \E reset \in BOOLEAN : NewMilestone(reset)

PlanSpec == PlanInit /\ [][PlanNext]_planVars

-----------------------------------------------------------------------------

\* Types of the roadmap, the directories and STATE.md: no directory has more summaries than
\* plans, and STATE.md has the fields of its layout and no other.
PlanTypeOK ==
    /\ \A i \in DOMAIN roadmap : Len(roadmap[i].num) \in 1 .. 2 /\ roadmap[i].done \in BOOLEAN
    /\ \A d \in dirs \cup shipped : d.summaries <= d.plans
    /\ DOMAIN doc.body = IF doc.bold THEN BoldFields ELSE PlainFields
    /\ stage \in Stages /\ (stage = "over" <=> at = <<>>)
    /\ edits \in 0 .. MaxEdits

\* Executed work is deleted on request only (phase remove --force, phases
\* clear): renumbering and archiving keep every directory with a summary.
ExecutedWorkKept ==
    executed \subseteq {d.title : d \in {e \in dirs \cup shipped : e.summaries > 0}}

\* A number given by phase add or phase insert is new, whatever was removed
\* before: no other directory carries it, and no other heading, unless it is
\* that of a decimal without padding.
FreshNumbers ==
    \A d \in dirs' \ dirs :
        d.title >= FreshTitle /\ edits' > edits =>
            /\ d.num \notin Numbers(dirs)
            /\ \A h \in Headings(roadmap) : h.num = d.num => Len(h.num) = 2 /\ ~h.padded

\* Removing a phase renumbers the directories in order: two of them never
\* change places or end on one number, the decimals of the removed phase and
\* what already shares its number or its title apart.
Moved(title) == (CHOOSE d \in dirs' : d.title = title).num
Lone(d) == \A e \in dirs : e.num = d.num \/ e.title = d.title => e = d
OrderKept ==
    edits' > edits /\ (\E d \in dirs' \ dirs : d.title < FreshTitle) =>
        \A num \in Numbers(Headings(roadmap)), force \in BOOLEAN : PhaseRemove(num, force) =>
          \A d, e \in dirs :
              /\ Before(d.num, e.num) /\ ~Under(d.num, num) /\ ~Under(e.num, num)
              /\ Lone(d) /\ Lone(e) /\ {d.title, e.title} \subseteq {f.title : f \in dirs'}
              => Before(Moved(d.title), Moved(e.title))

\* A phase of a shipped milestone is not written to again, also when a phase of
\* the new milestone has its number, as long as that one has its heading:
\* removals renumber headings and directories each in their own way, and
\* without its heading the phase at hand is taken for the shipped one.
ShippedFixed == shipped \subseteq shipped' \/ at \notin Numbers(Headings(roadmap))

\* What adding, inserting, removing and the next milestone do to the phases.
EditsSound == [][FreshNumbers /\ OrderKept /\ ShippedFixed]_planVars

\* The commands that tell how far the work is agree, while numbers are
\* distinct, every directory belongs to the milestone, no phase checked off has
\* lost its directory or got another plan, and there are fewer than 200 phases
\* (Math.round makes 100 percent of 199 in 200): init progress, roadmap analyze and workstream
\* progress on whether the milestone is finished; it is then for progress and
\* verify phase-completeness, and it is when it is for stats; and state json
\* has the percentage of progress.
Tidy ==
    /\ Distinct(dirs) /\ Distinct(Headings(roadmap))
    /\ Numbers(dirs) \subseteq Numbers(Headings(roadmap))
    /\ \A h \in Headings(roadmap) : h.done => DirStatus(Find(dirs, h.num)) = "complete"
ViewsAgree ==
    LET progress == ProgressCurrent(roadmap, dirs) = <<>> /\ ProgressNext(roadmap, dirs) = <<>>
        analyze  == CurrentPhase(roadmap, dirs) = <<>> /\ UpcomingPhase(roadmap, dirs) = <<>>
    IN  Tidy /\ Len(roadmap) \in 1 .. 199 =>
          /\ (progress <=> analyze) /\ (progress <=> StreamPercent(roadmap, dirs) = 100)
          /\ StatsPercent(roadmap, dirs) = 100 => progress
          /\ progress => /\ RenderedPercent(dirs) = 100
                         /\ \A h \in Headings(roadmap) : PhaseIsComplete(dirs, shipped, h.num)
          /\ Plans(dirs) > 0 => StateJson(roadmap, dirs, doc).percent = RenderedPercent(dirs)

\* While every phase has an integer and no number is used twice, validate
\* consistency is silent just when the roadmap and the disk have the same
\* phases, and health warns of every phase checked off without a directory.
WarningsTrue ==
    Distinct(dirs) /\ Distinct(Headings(roadmap))
        /\ (\A x \in dirs \cup Headings(roadmap) : Len(x.num) = 1) =>
          /\ MissingOnDisk(roadmap, dirs) \cup UnknownOnDisk(roadmap, dirs) = {}
                <=> Numbers(dirs) = Numbers(Headings(roadmap))
          /\ W006(roadmap, dirs) = {h.num : h \in {g \in Headings(roadmap) : g.done}} \ Numbers(dirs)
          /\ W007(roadmap, dirs) = Numbers(dirs) \ Numbers(Headings(roadmap))

\* What the commands that read the plan promise: they agree with each other, and their warnings
\* are about real differences between ROADMAP.md and the directories.
ViewsSound == ViewsAgree /\ WarningsTrue

\* STATE.md tells where the session is: the statusline says executing while a
\* plan is executed, whatever field the commands wrote it to, unless a removal
\* has left two directories with one number, and, in the old layout, completed
\* once phase complete has reported the last phase; state validate finds no
\* verified phase that is said to be executing, while STATE.md has the number
\* of the phase at hand, and that one its directory (a removal renumbers the
\* directories and not the Current Phase field).
StatusTold ==
    /\ stage \in {"execute", "progress"} /\ ~doubled => StatusShown(doc) = "executing"
    /\ doc.bold /\ closed => StatusShown(doc) = "completed"
    /\ (at # <<>> => doc.body["Phase"][1] = at /\ at \in Numbers(dirs)) =>
          "verified" \notin StateValidate(dirs, doc)

\* Violated: when phase complete reports the last phase, every phase of the
\* milestone is checked off.
LastPhaseIsLast == closed => \A h \in Headings(roadmap) : h.done
=============================================================================
