----------------------------- MODULE PhaseTree -----------------------------
(***************************************************************************)
(* The plan of a project as the tool sees it: the phase headings of the    *)
(* current milestone in ROADMAP.md, in document order, and the phase       *)
(* directories; every command of phase.cjs, roadmap.cjs and milestone.cjs  *)
(* as a function of the two.                                               *)
(*                                                                         *)
(* A phase number is a sequence: <<6>> is 6 and <<6, 1>> is 6.1.  padded   *)
(* tells the spelling 06.1 of a heading from 6.1: directories are always   *)
(* padded, headings mostly not, and several patterns compare the spelling. *)
(* title stands for the description and the slug made of it.  Letter       *)
(* suffixes, custom identifiers and project codes are left out.            *)
(***************************************************************************)
EXTENDS Integers, Sequences, FiniteSets, SequencesExt

Backlog == 999       \* phases 999 and 999.x are parked ideas

Heading(num, padded, title) ==
    [num |-> num, padded |-> padded, title |-> title, done |-> FALSE, count |-> <<>>]
Dir(num, title) ==
    [num |-> num, title |-> title, plans |-> 0, summaries |-> 0, verified |-> FALSE]
NoDir == Dir(<<>>, 0)

\* comparePhaseNum: integer, then decimals, a phase before its decimals.
At(p, i) == IF i <= Len(p) THEN p[i] ELSE 0
Before(p, q) ==
    \E i \in 1 .. 3 : At(p, i) < At(q, i) /\ \A j \in 1 .. i - 1 : At(p, j) = At(q, j)

Parked(p) == p[1] = Backlog
Headings(roadmap) == ToSet(roadmap)
Numbers(set) == {x.num : x \in set}
Distinct(set) == \A x, y \in set : x.num = y.num => x = y

\* The directory a command finds: the first of those with this number.
Find(dirs, num) ==
    LET same == {d \in dirs : d.num = num}
    IN  IF same = {} THEN NoDir
        ELSE CHOOSE d \in same : \A e \in same : d.title <= e.title

\* getMilestonePhaseFilter: every directory when no heading is found.
InMilestone(roadmap, d) == roadmap = <<>> \/ d.num \in Numbers(Headings(roadmap))

Least(set) == CHOOSE n \in set : \A m \in set : n <= m
MaxOf(set) == CHOOSE n \in set : \A m \in set : m <= n

\* The heading that a number spelled this way matches, 0 when there is none.
Spelled(roadmap, num, padded) ==
    LET same == {i \in DOMAIN roadmap : roadmap[i].num = num /\ roadmap[i].padded = padded}
    IN  IF same = {} THEN 0 ELSE Least(same)

-----------------------------------------------------------------------------
(* Adding and inserting. *)

\* cmdPhaseAdd: one more than the highest integer of a heading or of an
\* integer directory, the backlog apart.
NextNumber(roadmap, dirs) ==
    LET ints == {h.num[1] : h \in Headings(roadmap)}
                \cup {d.num[1] : d \in {e \in dirs : Len(e.num) = 1}}
    IN  1 + MaxOf({0} \cup {n \in ints : n < Backlog})

AddedHeading(roadmap, n, title) == Append(roadmap, Heading(<<n>>, FALSE, title))

\* cmdPhaseInsert: where the phase to insert after stands, whatever its spelling.
Target(roadmap, num) ==
    LET same == {i \in DOMAIN roadmap : roadmap[i].num = num}
    IN  IF same = {} THEN 0 ELSE Least(same)

Under(num, base) == Len(num) > Len(base) /\ SubSeq(num, 1, Len(base)) = base

\* The directories forgotten.
DecimalsOfHeadings(roadmap, dirs, base) ==
    {h.num[Len(base) + 1] :
        h \in {g \in Headings(roadmap) :
                  g.padded /\ Under(g.num, base) /\ Len(g.num) = Len(base) + 1}}

\* The decimals in use: of directories, and of the headings spelled padded.
Decimals(roadmap, dirs, base) ==
    {d.num[Len(base) + 1] : d \in {e \in dirs : Under(e.num, base)}}
    \cup {h.num[Len(base) + 1] :
             h \in {g \in Headings(roadmap) :
                       g.padded /\ Under(g.num, base) /\ Len(g.num) = Len(base) + 1}}

NextDecimal(roadmap, dirs, base) ==
    Append(base, 1 + MaxOf({0} \cup Decimals(roadmap, dirs, base)))

InsertedHeading(roadmap, at, num, title) ==
    InsertAt(roadmap, at + 1, Heading(num, TRUE, title))

-----------------------------------------------------------------------------
(* Removing. *)

\* renameIntegerPhases: every later directory moves down by one, with its
\* decimals; directories with two decimals are not matched.
RenamedInteger(dirs, removed) ==
    {IF d.num[1] > removed /\ Len(d.num) <= 2 THEN [d EXCEPT !.num[1] = @ - 1] ELSE d : d \in dirs}

\* renameDecimalPhases: the later siblings of the decimal move down by one.
RenamedDecimal(dirs, base, removed) ==
    {IF d.num[1] = base /\ Len(d.num) = 2 /\ d.num[2] > removed
     THEN [d EXCEPT !.num[2] = @ - 1] ELSE d : d \in dirs}

\* updateRoadmapAfterPhaseRemoval: the heading spelled as asked for goes.  For
\* an integer phase the loop then counts down from 99, renaming n to n - 1: a
\* heading it has renamed matches in the next round again, so that every later
\* integer heading ends at the removed number.
Lowered(h, removed) ==
    IF Len(h.num) = 1 /\ h.num[1] \in removed + 1 .. 99 /\ ~h.padded
    THEN [h EXCEPT !.num = <<removed>>] ELSE h

RemovedHeading(roadmap, num, padded) ==
    LET at   == Spelled(roadmap, num, padded)
        rest == IF at = 0 THEN roadmap ELSE RemoveAt(roadmap, at)
    IN  IF Len(num) > 1 THEN rest ELSE [i \in DOMAIN rest |-> Lowered(rest[i], num[1])]

\* The decimals of the phase removed with it.
RemovedByPrefix(dirs, num) == RenamedInteger({d \in dirs : d.num[1] # num[1]}, num[1])

RemovedDirs(dirs, num) ==
    LET rest == dirs \ {Find(dirs, num)}
    IN  IF Len(num) > 1 THEN RenamedDecimal(rest, num[1], num[2])
        ELSE RenamedInteger(rest, num[1])

-----------------------------------------------------------------------------
(* Progress and completion. *)

\* cmdRoadmapUpdatePlanProgress, which does nothing of a phase without plans.
ProgressedHeading(h, d) ==
    IF d.plans = 0 THEN h
    ELSE [h EXCEPT !.count = <<d.summaries, d.plans>>, !.done = @ \/ d.summaries >= d.plans]

\* The part of cmdPhaseComplete that rewrites ROADMAP.md: the phase is checked
\* off, whether or not its plans have summaries.
CompletedHeading(h, d) == [h EXCEPT !.count = <<d.summaries, d.plans>>, !.done = TRUE]

\* The next phase of cmdPhaseComplete: the first later directory of the
\* milestone; without one, the first heading in the document with a higher
\* number.  <<>> when there is neither.
NextOnDisk(roadmap, dirs, num) ==
    {d.num : d \in {e \in dirs : InMilestone(roadmap, e) /\ Before(num, e.num) /\ ~Parked(e.num)}}
NextInRoadmap(roadmap, num) == {i \in DOMAIN roadmap : Before(num, roadmap[i].num)}

NextPhase(roadmap, dirs, num) ==
    LET disk == NextOnDisk(roadmap, dirs, num)
        text == NextInRoadmap(roadmap, num)
    IN  IF disk # {} THEN CHOOSE p \in disk : \A q \in disk : p = q \/ Before(p, q)
        ELSE IF text # {} THEN roadmap[Least(text)].num
        ELSE <<>>

\* cmdRoadmapAnalyze: a checked heading is complete, whatever is on disk.
DiskStatus(h, dirs) ==
    LET d == Find(dirs, h.num)
    IN  IF h.done \/ (d.plans > 0 /\ d.summaries >= d.plans) THEN "complete"
        ELSE IF d = NoDir THEN "no_directory"
        ELSE IF d.summaries > 0 THEN "partial"
        ELSE IF d.plans > 0 THEN "planned" ELSE "empty"

\* Its current and next phase: the first heading of each kind.
FirstWith(roadmap, dirs, kinds) ==
    LET found == {i \in DOMAIN roadmap : DiskStatus(roadmap[i], dirs) \in kinds}
    IN  IF found = {} THEN <<>> ELSE roadmap[Least(found)].num
CurrentPhase(roadmap, dirs) == FirstWith(roadmap, dirs, {"planned", "partial"})
UpcomingPhase(roadmap, dirs) == FirstWith(roadmap, dirs, {"empty", "no_directory"})

Plans(dirs) == Cardinality(UNION {{d} \X (1 .. d.plans) : d \in dirs})
Summaries(dirs) == Cardinality(UNION {{d} \X (1 .. d.summaries) : d \in dirs})

\* What the YAML block of STATE.md counts: the directories of the milestone.
OnDisk(roadmap, dirs) ==
    LET mine == {d \in dirs : InMilestone(roadmap, d)}
    IN  [plans |-> Plans(mine), summaries |-> Summaries(mine)]

\* The plans of the phase cmdStateSync takes for the current one: the last
\* with a plan to execute, else the first with plans; 0 when none has any.
SyncPlans(dirs) ==
    LET planned == {d \in dirs : d.plans > 0}
        open    == {d \in planned : d.summaries < d.plans}
    IN  IF open # {} THEN (CHOOSE d \in open : \A e \in open : ~Before(d.num, e.num)).plans
        ELSE IF planned # {} THEN (CHOOSE d \in planned : \A e \in planned : ~Before(e.num, d.num)).plans
        ELSE 0

-----------------------------------------------------------------------------
(* The end of a milestone. *)

\* cmdMilestoneComplete --archive-phases, and cmdPhasesClear --confirm: a name
\* such as 999-idea has no dot after 999 and is deleted.
Archived(roadmap, dirs) == {d \in dirs : InMilestone(roadmap, d)}
Cleared(dirs) == {d \in dirs : ~(Parked(d.num) /\ Len(d.num) > 1)}
=============================================================================
