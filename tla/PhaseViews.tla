----------------------------- MODULE PhaseViews -----------------------------
(***************************************************************************)
(* The commands that only read the plan: which directory a phase number    *)
(* stands for (find-phase and the init commands), how far the work is said *)
(* to be (init progress, roadmap analyze, workstream progress, progress,   *)
(* stats, verify phase-completeness, the statusline), and whether the      *)
(* roadmap and the disk are said to agree (validate consistency, health).  *)
(***************************************************************************)
EXTENDS PhaseTree, StateDoc

\* findPhaseInternal: phases/ first, then the archives of milestones.
Located(dirs, shipped, num) ==
    IF Find(dirs, num) # NoDir THEN [dir |-> Find(dirs, num), archived |-> FALSE]
    ELSE [dir |-> Find(shipped, num), archived |-> Find(shipped, num) # NoDir]

\* init plan-phase and init execute-phase: an archived phase is ignored when
\* the number, spelled as it was given, has a heading; the heading stands for a
\* phase without directory.
Resolved(roadmap, dirs, shipped, num, padded) ==
    LET found   == Located(dirs, shipped, num)
        heading == Spelled(roadmap, num, padded) # 0
    IN  IF found.archived /\ heading THEN [dir |-> NoDir, archived |-> FALSE] ELSE found

-----------------------------------------------------------------------------

\* No plans, all of them executed.
DirStatusOfEmpty(d) == IF d.summaries >= d.plans THEN "complete" ELSE "in_progress"

DirStatus(d) ==
    IF d.plans > 0 /\ d.summaries >= d.plans THEN "complete"
    ELSE IF d.plans > 0 THEN "in_progress" ELSE "pending"

FirstDir(set) == CHOOSE d \in set : \A e \in set : d = e \/ Before(d.num, e.num)
                                                     \/ (d.num = e.num /\ d.title <= e.title)

\* cmdInitProgress: the first directory of the milestone that is under way, and
\* the first that is pending; a heading without directory comes next when there
\* is neither.
Listed(roadmap, dirs) == {d \in dirs : InMilestone(roadmap, d)}
WithStatus(roadmap, dirs, status) == {d \in Listed(roadmap, dirs) : DirStatus(d) = status}

ProgressCurrent(roadmap, dirs) ==
    LET open == WithStatus(roadmap, dirs, "in_progress")
    IN  IF open = {} THEN <<>> ELSE FirstDir(open).num

ProgressNext(roadmap, dirs) ==
    LET pending == WithStatus(roadmap, dirs, "pending")
        bare    == {i \in DOMAIN roadmap : roadmap[i].num \notin Numbers(Listed(roadmap, dirs))}
    IN  IF pending # {} THEN FirstDir(pending).num
        ELSE IF ProgressCurrent(roadmap, dirs) = <<>> /\ bare # {} THEN roadmap[Least(bare)].num
        ELSE <<>>

\* cmdWorkstreamProgress: complete directories of every kind, for the headings.
StreamPercent(roadmap, dirs) ==
    LET complete == Cardinality({d \in dirs : DirStatus(d) = "complete"})
    IN  IF roadmap = <<>> THEN IF dirs = {} THEN 0 ELSE Percent(complete, Cardinality(dirs))
        ELSE (200 * complete + Len(roadmap)) \div (2 * Len(roadmap))

\* determinePhaseStatus: executed is not complete before the verification has
\* passed.
WorkStatus(d) ==
    IF d.plans = 0 THEN "Not Started"
    ELSE IF d.summaries < d.plans THEN IF d.summaries > 0 THEN "In Progress" ELSE "Planned"
    ELSE IF d.verified THEN "Complete" ELSE "Executed"

\* cmdStats: a row for each number of a heading or of a directory of the
\* milestone; of two directories with one number the later counts.
StatsRows(roadmap, dirs) ==
    [num \in Numbers(Headings(roadmap)) \cup Numbers(Listed(roadmap, dirs)) |->
        LET same == {d \in Listed(roadmap, dirs) : d.num = num}
        IN  IF same = {} THEN "Not Started"
            ELSE WorkStatus(CHOOSE d \in same : \A e \in same : e.title <= d.title)]
StatsPercent(roadmap, dirs) ==
    LET rows == StatsRows(roadmap, dirs)
    IN  IF DOMAIN rows = {} THEN 0
        ELSE Percent(Cardinality({num \in DOMAIN rows : rows[num] = "Complete"}),
                     Cardinality(DOMAIN rows))

\* cmdProgressRender: every directory, of the milestone or not.
RenderedPercent(dirs) == IF Plans(dirs) > 0 THEN Percent(Summaries(dirs), Plans(dirs)) ELSE 0

\* cmdVerifyPhaseCompleteness: no plan without a summary, also without plans.
PhaseIsComplete(dirs, shipped, num) ==
    LET found == Located(dirs, shipped, num).dir
    IN  found # NoDir /\ found.summaries >= found.plans

\* cmdStateJson: the block as the next write would make it.
StateJson(roadmap, dirs, doc) == Synced(doc, OnDisk(roadmap, dirs)).front

\* cmdStateValidate looks for the directory by the two digits its name starts
\* with, so that of a decimal will do when that of the integer is missing; it
\* finds none for a decimal phase, and only the old layout has the fields.
ValidatedDir(dirs, doc) ==
    LET same == {d \in dirs : d.num[1] = doc.body["Phase"][1][1]}
    IN  IF ~doc.bold \/ Len(doc.body["Phase"][1]) > 1 \/ same = {} THEN NoDir ELSE FirstDir(same)
StateValidate(dirs, doc) ==
    LET d == ValidatedDir(dirs, doc)
        open == d # NoDir /\ doc.body["Status"] = "executing"
    IN  {w \in {"plan count", "verified", "summarised"} :
            CASE w = "plan count" -> d # NoDir /\ doc.body["TotalPlans"] \notin {NotStarted, <<d.plans>>}
              [] w = "verified"   -> open /\ d.verified
              [] w = "summarised" -> open /\ ~d.verified /\ d.plans > 0 /\ d.summaries >= d.plans}

\* parseStateMd of the statusline: the block's status, else that of the body.
StatusShown(doc) ==
    IF doc.front.status \notin {"absent", "unknown"} THEN doc.front.status
    ELSE IF ~InBody(doc, "Status") \/ doc.bold THEN "none"
    ELSE CASE StatusWord[doc.body["Status"]] = "verifying" -> "complete"
           [] OTHER -> StatusWord[doc.body["Status"]]

-----------------------------------------------------------------------------
(* Do the roadmap and the disk agree?  Both commands compare spellings.    *)

\* cmdValidateConsistency
MissingOnDisk(roadmap, dirs) == {h.num : h \in Headings(roadmap)} \ Numbers(dirs)
\* Only the padded spelling looked for.
UnknownPadded(roadmap, dirs) == {d.num : d \in {e \in dirs : Spelled(roadmap, e.num, TRUE) = 0}}

UnknownOnDisk(roadmap, dirs) ==
    {d.num : d \in {e \in dirs : Spelled(roadmap, e.num, TRUE) = 0
                                 /\ Spelled(roadmap, <<e.num[1]>>, FALSE) = 0}}

\* Check 8 of cmdValidateHealth: W006 is silent for a heading that is not
\* checked off, and for one that shares its integer with such a heading.
W006(roadmap, dirs) ==
    {h.num : h \in {g \in Headings(roadmap) :
        /\ ~(g.padded /\ g.num \in Numbers(dirs)) /\ <<g.num[1]>> \notin Numbers(dirs)
        /\ \A k \in Headings(roadmap) : k.num[1] = g.num[1] => k.done}}
W007(roadmap, dirs) == UnknownOnDisk(roadmap, dirs)
=============================================================================
