------------------------------ MODULE StateDoc ------------------------------
(***************************************************************************)
(* STATE.md as a value: the YAML block in front, the fields of the body,   *)
(* the lists and the metrics, and every command of state.cjs as a function *)
(* from one document to the next.                                          *)
(*                                                                         *)
(* A field is looked up in the text from the top, in bold first and then   *)
(* plain, ignoring case: in a document whose body has plain fields, the    *)
(* lines status: and progress: of the YAML block are found before the body *)
(* lines of the same name.  The block itself is rebuilt from the body and  *)
(* from the phase directories on every write.                              *)
(***************************************************************************)
EXTENDS Integers, Sequences, FiniteSets, SequencesExt

\* Fields of the two layouts in use: bold fields of the old layout, and the
\* plain lines of the template's Current Position section.
BoldFields == {"Status", "Phase", "CurrentPlan", "TotalPlans", "TotalPhases",
               "ClosedPhases", "Progress"}
PlainFields == {"Status", "Phase", "Plan", "Progress"}

\* A plan or phase field is the numbers read out of it, none when it says
\* "Not started"; Status is one of these texts.
NotStarted == <<>>

StatusWord ==
    [executing |-> "executing", readyToExecute |-> "executing", readyToPlan |-> "planning",
     phaseComplete |-> "verifying", milestoneComplete |-> "completed"]

NoFront == [status |-> "absent", percent |-> 0, plans |-> 0, summaries |-> 0]

\* Math.round(part / whole * 100), at most 100.
Percent(part, whole) ==
    LET p == (200 * part + whole) \div (2 * whole) IN IF p > 100 THEN 100 ELSE p

InBody(doc, f) == f \in DOMAIN doc.body
InFront(doc, f) == ~doc.bold /\ doc.front # NoFront /\ f \in {"Status", "Progress"}

\* stateExtractField; what it reads in the block is not a text of the body.
Found(doc, f) == InFront(doc, f) \/ InBody(doc, f)

\* stateReplaceField: a line of the block is replaced before one of the body.
Replace(doc, f, v) ==
    IF InFront(doc, f)
    THEN IF f = "Status" THEN [doc EXCEPT !.front.status = v] ELSE doc
    ELSE IF InBody(doc, f) THEN [doc EXCEPT !.body[f] = v] ELSE doc

\* stateReplaceFieldWithFallback
ReplaceOr(doc, f, g, v) == IF Found(doc, f) THEN Replace(doc, f, v) ELSE Replace(doc, g, v)

\* updateCurrentPositionFields: the section holds the plain lines, if any.
Position(doc, f, v) ==
    IF ~doc.bold /\ InBody(doc, f) THEN [doc EXCEPT !.body[f] = v] ELSE doc

\* buildStateFrontmatter: the counts are those of the phase directories, the
\* status word that of the body.
YamlBlock(body, disk) ==
    [status    |-> IF "Status" \in DOMAIN body THEN StatusWord[body["Status"]] ELSE "unknown",
     percent   |-> IF disk.plans > 0 THEN Percent(disk.summaries, disk.plans)
                   ELSE body["Progress"],
     plans     |-> disk.plans,
     summaries |-> disk.summaries]

\* syncStateFrontmatter: a status the body does not give is kept.
Synced(doc, disk) ==
    LET front == YamlBlock(doc.body, disk)
        kept  == front.status = "unknown" /\ doc.front.status \notin {"absent", "unknown"}
    IN  [doc EXCEPT !.front = IF kept THEN [front EXCEPT !.status = doc.front.status]
                              ELSE front]

-----------------------------------------------------------------------------
(* The commands. *)

\* cmdStateAdvancePlan: the numbers of Current Plan and Total Plans, or of
\* "Plan: X of Y"; nothing when they cannot be read.
PlanOf(doc) ==
    IF InBody(doc, "CurrentPlan")
    THEN doc.body["CurrentPlan"] \o doc.body["TotalPlans"]
    ELSE IF InBody(doc, "Plan") THEN doc.body["Plan"] ELSE NotStarted

\* Mutant: the phase taken for executed one plan too early.
AdvanceEarly(doc) ==
    LET plan == PlanOf(doc)
        says(d, text) == Position(Replace(d, "Status", text), "Status", text)
    IN  IF Len(plan) # 2 THEN doc
        ELSE IF plan[1] + 1 >= plan[2] THEN says(doc, "phaseComplete")
        ELSE says(Replace(doc, "Plan", <<plan[1] + 1, plan[2]>>), "readyToExecute")

\* cmdStateAdvancePlan
AdvancePlan(doc) ==
    LET plan == PlanOf(doc)
        says(d, text) == Position(Replace(d, "Status", text), "Status", text)
    IN  IF Len(plan) # 2 THEN doc
        ELSE IF plan[1] >= plan[2] THEN says(doc, "phaseComplete")
        ELSE says(IF InBody(doc, "CurrentPlan")
                  THEN Replace(doc, "CurrentPlan", <<plan[1] + 1>>)
                  ELSE Replace(doc, "Plan", <<plan[1] + 1, plan[2]>>),
                  "readyToExecute")

\* cmdStateBeginPhase
BeginPhase(doc, n, count) ==
    LET fields == Replace(Replace(Replace(doc, "Status", "executing"),
                                  "CurrentPlan", <<1>>), "TotalPlans", <<count>>)
        phased == IF doc.bold THEN Replace(fields, "Phase", <<n>>)
                  ELSE Position(fields, "Phase", <<n>>)
    IN  Position(Position(phased, "Plan", <<1, count>>), "Status", "executing")

\* cmdStatePlannedPhase (a blind writer)
PlannedPhase(doc, count) ==
    Position(Replace(Replace(doc, "Status", "readyToExecute"), "TotalPlans", <<count>>),
             "Status", "readyToExecute")

\* cmdStateUpdateProgress
UpdateProgress(doc, disk) ==
    Replace(doc, "Progress", IF disk.plans > 0 THEN Percent(disk.summaries, disk.plans) ELSE 0)

\* cmdStateSync (a blind writer): count is the plans of the phase it takes
\* for the current one, 0 when no phase has plans.
SyncFromDisk(doc, disk, count) ==
    LET totals == IF count > 0 /\ InBody(doc, "TotalPlans")
                  THEN Replace(doc, "TotalPlans", <<count>>) ELSE doc
    IN  UpdateProgress(totals, disk)

\* The list replaced by its new entry.
OnlyDecision(doc, d) == [doc EXCEPT !.decisions = {d}]

\* cmdStateAddDecision, cmdStateAddBlocker, cmdStateResolveBlocker
AddDecision(doc, d) == [doc EXCEPT !.decisions = @ \cup {d}]
AddBlocker(doc, b) == [doc EXCEPT !.blockers = @ \cup {b}]
ResolveBlocker(doc, b) == [doc EXCEPT !.blockers = @ \ {b}]

\* cmdStateUpdate, cmdStatePatch: any field by its name, the first line of that
\* name; a patch is a sequence of fields and values.
StateUpdate(doc, f, v) == Replace(doc, f, v)
StatePatch(doc, patch) == FoldLeft(LAMBDA d, p : StateUpdate(d, p[1], p[2]), doc, patch)

\* cmdStateRecordMetric: a row at the end of the metrics, in a form that no
\* prune recognises.
RecordMetric(doc, row) == [doc EXCEPT !.timings = @ \cup {row}]

\* cmdStateRecordSession: without a reason the last one stays, without a file
\* to resume from the field is reset.
RecordSession(doc, stopped, resume) ==
    [doc EXCEPT !.session = [stopped |-> IF stopped = "" THEN @.stopped ELSE stopped,
                             resume  |-> IF resume = "" THEN "None" ELSE resume]]

\* updatePerformanceMetricsSection: the total grows by every summary of the
\* phase, its row is replaced.
Measured(doc, n, summaries) ==
    [doc EXCEPT !.velocity = @ + summaries,
                !.rows = {r \in @ : r[1] # n} \cup {<<n, summaries>>}]

\* The part of cmdPhaseComplete that rewrites STATE.md: to is the next phase
\* or none, n the phase completed.
CompletePhase(doc, n, to, summaries) ==
    LET value   == IF to = <<>> THEN n ELSE to
        of      == IF Len(doc.body["Phase"]) = 2 THEN <<doc.body["Phase"][2]>> ELSE <<>>
        phased  == Replace(doc, "Phase", <<value>> \o of)
        named   == Replace(phased, "Status",
                           IF to = <<>> THEN "milestoneComplete" ELSE "readyToPlan")
        planned == ReplaceOr(named, "CurrentPlan", "Plan", NotStarted)
        closed  == IF ~InBody(doc, "ClosedPhases") THEN planned
                   ELSE Replace(planned, "ClosedPhases", doc.body["ClosedPhases"] + 1)
        percent == IF ~InBody(doc, "ClosedPhases") \/ doc.body["TotalPhases"] = 0 THEN closed
                   ELSE Replace(closed, "Progress",
                                Percent(doc.body["ClosedPhases"] + 1, doc.body["TotalPhases"]))
    IN  Measured(percent, n, summaries)

\* The part of cmdPhaseRemove that rewrites STATE.md.
RemovePhase(doc) ==
    LET fewer == IF InBody(doc, "TotalPhases")
                 THEN Replace(doc, "TotalPhases", doc.body["TotalPhases"] - 1) ELSE doc
        phase == doc.body["Phase"]
    IN  IF Len(phase) = 2 THEN [fewer EXCEPT !.body["Phase"][2] = @ - 1] ELSE fewer

\* cmdStatePrune: everything of a phase up to the cutoff leaves the lists.  An
\* entry is <<phase, what>>; only the old layout has the Current Phase field.
Cutoff(doc, keep) == IF doc.bold THEN doc.body["Phase"][1][1] - keep ELSE 0 - keep
Prunable(doc, cutoff) == {d \in doc.decisions : d[1] <= cutoff}
Prune(doc, cutoff) ==
    [doc EXCEPT !.decisions = @ \ Prunable(doc, cutoff),
                !.rows = {r \in @ : r[1][1] > cutoff}]

\* A new STATE.md in each layout, before any command wrote its block.
NewDoc(bold, phases) ==
    [bold |-> bold, front |-> NoFront, decisions |-> {}, blockers |-> {}, velocity |-> 0,
     rows |-> {}, timings |-> {}, session |-> [stopped |-> "", resume |-> "None"],
     body |-> IF bold
              THEN [f \in BoldFields |->
                       CASE f = "Status" -> "readyToPlan" [] f = "Phase" -> << <<1>> >>
                         [] f = "CurrentPlan" -> NotStarted [] f = "TotalPlans" -> NotStarted
                         [] f = "TotalPhases" -> phases [] OTHER -> 0]
              ELSE [f \in PlainFields |->
                       CASE f = "Status" -> "readyToPlan" [] f = "Phase" -> << <<1>>, phases >>
                         [] f = "Plan" -> NotStarted [] OTHER -> 0]]
=============================================================================
