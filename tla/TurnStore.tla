----------------------------- MODULE TurnStore -----------------------------
(***************************************************************************)
(* The SQLite rows of one campaign that decide what is canon: turn_records *)
(* (status and completed_at), checkpoint_refs, transcript_entries and      *)
(* retcon_audit.  Every operator is the body of one committed transaction. *)
(*                                                                         *)
(* completed_at is only ever compared, so it is kept as the order it       *)
(* induces: <<u, v>> \in before iff completed_at of u < completed_at of v. *)
(* Of the checkpoint_refs rows of a turn only the last one of each kind is *)
(* ever read (refs[-1]; ORDER BY ... created_at DESC LIMIT 1): pre and     *)
(* final hold the checkpoint it points at, NoCheckpoint when there is none.*)
(***************************************************************************)
EXTENDS GraphThread

VARIABLES
    status,       \* turn_records.status, "absent" without a row
    before,       \* the order of turn_records.completed_at
    pre,          \* last pre_narration checkpoint_ref of each turn
    final,        \* last final checkpoint_ref of each turn
    rows,         \* transcript rows: <<turn_id, attempt that produced them>>
    audit         \* attempts whose turns retcon_audit lists as affected

storeVars == <<status, before, pre, final, rows, audit>>

Statuses ==
    {"absent", "needs_vault_repair", "complete", "retried", "discarded",
     "retconned"}

StoreTypeOK ==
    /\ status \in [Turns -> Statuses]
    /\ before \in SUBSET (Turns \X Turns)
    /\ pre \in [Turns -> Checkpoint]
    /\ final \in [Turns -> Checkpoint]
    /\ rows \in SUBSET (Turns \X (1..MaxAttempt))
    /\ audit \in SUBSET (1..MaxAttempt)

StoreInit ==
    /\ status = [t \in Turns |-> "absent"]
    /\ before = {}
    /\ pre = [t \in Turns |-> NoCheckpoint]
    /\ final = [t \in Turns |-> NoCheckpoint]
    /\ rows = {}
    /\ audit = {}

Exists(c) == c.turn # 0

(* The canonical-status predicate: TurnStatus.CANONICAL. *)
Canonical == {t \in Turns : status[t] = "complete"}

(* completed_at := now, later than every completed_at written so far. *)
Stamp(t) ==
    before' = {p \in before : t \notin {p[1], p[2]}}
                \cup {<<u, t>> : u \in {v \in Turns \ {t} : status[v] # "absent"}}

(* TurnRecordRepository.upsert of a record with completed_at = now. *)
UpsertRecord(t, s) ==
    /\ status' = [status EXCEPT ![t] = s]
    /\ Stamp(t)

(* _ensure_turn_record: only a turn id without a row gets one. *)
EnsureTurnRecord(t) ==
    /\ IF status[t] = "absent"
       THEN UpsertRecord(t, "needs_vault_repair")
       ELSE UNCHANGED <<status, before>>
    /\ UNCHANGED <<pre, final, rows, audit>>

(* Mutant: the first pre-narration ref of a turn id is the one used. *)
KeepFirstPreNarration(t, c) ==
    /\ pre' = [pre EXCEPT ![t] = IF Exists(pre[t]) THEN pre[t] ELSE c]
    /\ UNCHANGED <<status, before, final, rows, audit>>

(* _record_pre_narration_checkpoint *)
AppendPreNarration(t, c) ==
    /\ pre' = [pre EXCEPT ![t] = c]
    /\ UNCHANGED <<status, before, final, rows, audit>>

(* Mutant: the record gets a status nothing else knows. *)
MarkNarrated(t, s) ==
    /\ UpsertRecord(t, "narrated")
    /\ UNCHANGED <<pre, final, rows, audit>>

(* The upserts of retry_narration and discard_incomplete_turn. *)
MarkTurn(t, s) ==
    /\ UpsertRecord(t, s)
    /\ UNCHANGED <<pre, final, rows, audit>>

(* Mutant: the final checkpoint ref is left out of the bundle. *)
CloseWithoutRef(t, c) ==
    /\ rows' = rows \cup {<<t, AttemptOf(c)>>}
    /\ UpsertRecord(t, "complete")
    /\ UNCHANGED <<pre, final, audit>>

(***************************************************************************)
(* close_turn's transaction: the transcript rows and the final ref are     *)
(* appended and the record becomes canonical, all or nothing.              *)
(***************************************************************************)
CloseTransaction(t, c) ==
    /\ rows' = rows \cup {<<t, AttemptOf(c)>>}
    /\ final' = [final EXCEPT ![t] = c]
    /\ UpsertRecord(t, "complete")
    /\ UNCHANGED <<pre, audit>>

(* apply_vault_writes after a failed page write: completed_at is kept. *)
DemoteTurn(t) ==
    /\ status' = [status EXCEPT ![t] = "needs_vault_repair"]
    /\ UNCHANGED <<before, pre, final, rows, audit>>

(* Mutant: only the selected turn is affected. *)
SelectedOnly(s) == {s}

(* list_affected_suffix: canonical turns with completed_at >= that of s. *)
AffectedSuffix(s) == {u \in Canonical : u = s \/ <<s, u>> \in before}

(* Mutant: <= for <, the selected turn counts as prior to itself. *)
FinalsUpTo(s) ==
    {u \in Canonical : (u = s \/ <<u, s>> \in before) /\ Exists(final[u])}

(* Canonical turns with a final ref, completed strictly before s. *)
PriorFinals(s) == {u \in Canonical : <<u, s>> \in before /\ Exists(final[u])}

(* Mutant: ORDER BY completed_at without DESC. *)
IsFirstFinal(p, s) ==
    /\ p \in PriorFinals(s)
    /\ \A u \in PriorFinals(s) \ {p} : <<p, u>> \in before

(* prior_final_checkpoint: the latest of them. *)
IsPriorFinal(p, s) ==
    /\ p \in PriorFinals(s)
    /\ \A u \in PriorFinals(s) \ {p} : <<u, p>> \in before

(* Mutant: mark_retconned updates the selected turn only. *)
RetconSelected(s) ==
    /\ status' = [status EXCEPT ![s] = "retconned"]
    /\ audit' = audit \cup {AttemptOf(final[u]) : u \in AffectedSuffix(s)}
    /\ UNCHANGED <<before, pre, final, rows>>

(* RetconService.confirm: mark_retconned and the audit row, one commit. *)
RetconTransaction(s) ==
    /\ status' = [t \in Turns |->
                    IF t \in AffectedSuffix(s) THEN "retconned" ELSE status[t]]
    /\ audit' = audit \cup {AttemptOf(final[u]) : u \in AffectedSuffix(s)}
    /\ UNCHANGED <<before, pre, final, rows>>
=============================================================================
