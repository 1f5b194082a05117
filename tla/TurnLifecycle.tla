--------------------------- MODULE TurnLifecycle ---------------------------
(***************************************************************************)
(* One campaign session after another: the TUI's input handler and its     *)
(* /retry, /discard, /pause, /line, /retcon and quit commands drive        *)
(* GraphRuntime, which drives the LangGraph thread and the SQLite rows.    *)
(*                                                                         *)
(* Everything runs in one thread, so at most one operation is in flight:   *)
(* op says which and how far it is.  Each action is one durable step of    *)
(* it, and the process may die between any two of them.  resume_and_close  *)
(* has no caller in the TUI; its callers drive the same runtime beside it, *)
(* and are modelled by CloseTurn.                                          *)
(***************************************************************************)
EXTENDS TurnStore

CONSTANT CrashPoints    \* where the process may die, a subset of Stages

VARIABLES
    op,      \* the operation in flight: its stage and the turn it is about
    cur      \* app.current_turn_id, 0 for None

vars == <<threadVars, storeVars, op, cur>>

Stages ==
    {"idle",         \* the prompt is back
     "flush",        \* invoke(None) for the narration before a new input
     "begin",        \* _ensure_turn_record is next
     "launch",       \* graph.invoke(initial_state) is next
     "invoke",       \* the graph runs from START towards the Orator
     "mark_retried", "retry",      \* retry_narration after its rewind
     "mark_discarded",             \* discard_incomplete_turn after its rewind
     "close", "commit", "vault",   \* resume_and_close: graph, SQLite, vault
     "rewind"}                     \* confirm_retcon after its commit

ASSUME CrashAssumption == CrashPoints \subseteq Stages

At(stage, t) == [at |-> stage, turn |-> t]

Idle == At("idle", 0)

Init ==
    /\ ThreadInit
    /\ StoreInit
    /\ op = Idle
    /\ cur = 0

-----------------------------------------------------------------------------
(* on_player_input_submitted and invoke_turn.                              *)

(***************************************************************************)
(* A thread paused at the Orator is first resumed with invoke(None), so    *)
(* that the narration of the turn before is made; then build_turn_start    *)
(* takes the turn id after the snapshot's.                                 *)
(***************************************************************************)
PlayerInput ==
    /\ op = Idle
    /\ head.turn < MaxTurn
    /\ attempts < MaxAttempt
    /\ op' = IF head.next = "orator" THEN At("flush", head.turn)
                                     ELSE At("begin", head.turn + 1)
    /\ UNCHANGED <<threadVars, storeVars, cur>>

BeginTurn ==
    /\ op.at = "begin"
    /\ EnsureTurnRecord(op.turn)
    /\ op' = At("launch", op.turn)
    /\ UNCHANGED <<threadVars, cur>>

LaunchGraph ==
    /\ op.at = "launch"
    /\ StartGraph(op.turn)
    /\ op' = At("invoke", op.turn)
    /\ UNCHANGED <<storeVars, cur>>

OracleStep ==
    /\ op.at = "invoke"
    /\ Oracle
    /\ UNCHANGED <<storeVars, op, cur>>

RulesStep ==
    /\ op.at = "invoke"
    /\ RulesLawyer
    /\ UNCHANGED <<storeVars, op, cur>>

(* invoke_turn returned: the handler remembers the turn and is done. *)
EndInput ==
    /\ op' = Idle
    /\ cur' = op.turn

(* A BudgetStopError raised in a node becomes a BUDGET_STOP interrupt. *)
BudgetStop ==
    /\ op.at = "invoke"
    /\ head.next = "oracle"
    /\ PostInterrupt
    /\ EndInput
    /\ UNCHANGED storeVars

(* Paused at the Orator with a memory packet: the checkpoint is recorded. *)
RecordPreNarration ==
    /\ op.at = "invoke"
    /\ head.next = "orator"
    /\ head.mem
    /\ AppendPreNarration(op.turn, head)
    /\ headRef' = TRUE
    /\ EndInput
    /\ UNCHANGED <<head, attempts>>

(***************************************************************************)
(* The graph ended, or paused without a memory packet: invoke_turn returns *)
(* _pre_narration_fallback_state or the values, and records nothing.       *)
(***************************************************************************)
ReturnUnrecorded ==
    /\ op.at = "invoke"
    /\ \/ head.next = "end"
       \/ head.next = "orator" /\ ~head.mem
    /\ EndInput
    /\ UNCHANGED <<threadVars, storeVars>>

-----------------------------------------------------------------------------
(* invoke(None): the Orator and the Archivist past the interrupt.          *)

OratorStep ==
    /\ op.at \in {"flush", "retry", "close"}
    /\ Orator
    /\ UNCHANGED <<storeVars, op, cur>>

ArchivistStep ==
    /\ op.at \in {"flush", "retry", "close"}
    /\ Archivist
    /\ op' = CASE op.at = "flush" -> At("begin", head.turn + 1)
               [] op.at = "retry" -> Idle
               [] op.at = "close" -> At("commit", op.turn)
    /\ UNCHANGED <<storeVars, cur>>

-----------------------------------------------------------------------------
(* /retry and /discard.                                                    *)

HasIncompleteNarration ==
    /\ cur # 0
    /\ head.next = "orator"
    /\ head.turn = cur

RetryRewind ==
    /\ op = Idle
    /\ HasIncompleteNarration
    /\ Exists(pre[cur])
    /\ RewindTo(pre[cur])
    /\ op' = At("mark_retried", cur)
    /\ UNCHANGED <<storeVars, cur>>

RetryMark ==
    /\ op.at = "mark_retried"
    /\ MarkTurn(op.turn, "retried")
    /\ op' = At("retry", op.turn)
    /\ UNCHANGED <<threadVars, cur>>

DiscardRewind ==
    /\ op = Idle
    /\ HasIncompleteNarration
    /\ Exists(pre[cur])
    /\ RewindTo(pre[cur])
    /\ op' = At("mark_discarded", cur)
    /\ UNCHANGED <<storeVars, cur>>

DiscardMark ==
    /\ op.at = "mark_discarded"
    /\ MarkTurn(op.turn, "discarded")
    /\ op' = Idle
    /\ UNCHANGED <<threadVars, cur>>

-----------------------------------------------------------------------------
(* /pause, /line and quit.                                                 *)

Pause ==
    /\ op = Idle
    /\ PostInterrupt
    /\ UNCHANGED <<storeVars, op, cur>>

(* action_quit posts SESSION_END; the next session starts without a turn. *)
Quit ==
    /\ op = Idle
    /\ PostInterrupt
    /\ cur' = 0
    /\ UNCHANGED <<storeVars, op>>

-----------------------------------------------------------------------------
(* /retcon, already confirmed with its token.                              *)

Retcon(s) ==
    /\ op = Idle
    /\ s \in Canonical
    /\ \E p \in Turns :
         /\ IsPriorFinal(p, s)
         /\ op' = At("rewind", p)
    /\ RetconTransaction(s)
    /\ UNCHANGED <<threadVars, cur>>

(* Derived layers are rebuilt after the rewind; none of them is here. *)
RetconRewind ==
    /\ op.at = "rewind"
    /\ RewindTo(final[op.turn])
    /\ op' = Idle
    /\ UNCHANGED <<storeVars, cur>>

-----------------------------------------------------------------------------
(* resume_and_close, for the turn the thread is at.                        *)

(***************************************************************************)
(* The callers close a turn paused at the Orator, or one whose graph run   *)
(* is over and whose record is still open.                                 *)
(***************************************************************************)
CloseTurn ==
    /\ op = Idle
    /\ head.turn # 0
    /\ \/ /\ head.next = "orator"
          /\ status[head.turn] # "discarded"
          /\ op' = At("close", head.turn)
       \/ /\ head.next = "end"
          /\ status[head.turn] \in {"needs_vault_repair", "retried"}
          /\ op' = At("commit", head.turn)
    /\ UNCHANGED <<threadVars, storeVars, cur>>

(* A checkpoint id can be inserted into checkpoint_refs once. *)
CloseCommit ==
    /\ op.at = "commit"
    /\ ~headRef
    /\ CloseTransaction(op.turn, head)
    /\ headRef' = TRUE
    /\ op' = At("vault", op.turn)
    /\ UNCHANGED <<head, attempts, cur>>

(* Mutant: the duplicate key is not caught. *)
RollbackUnlessDuplicate ==
    /\ op.at = "commit"
    /\ ~headRef
    /\ op' = Idle
    /\ UNCHANGED <<threadVars, storeVars, cur>>

(* Any exception before the commit, the duplicate key among them. *)
CloseRollback ==
    /\ op.at = "commit"
    /\ op' = Idle
    /\ UNCHANGED <<threadVars, storeVars, cur>>

VaultWritten ==
    /\ op.at = "vault"
    /\ op' = Idle
    /\ UNCHANGED <<threadVars, storeVars, cur>>

VaultFailed ==
    /\ op.at = "vault"
    /\ DemoteTurn(op.turn)
    /\ op' = Idle
    /\ UNCHANGED <<threadVars, cur>>

-----------------------------------------------------------------------------
(* The process dies (or an exception no handler catches ends the app) and  *)
(* is started again: only the two databases survive.                       *)
Crash ==
    /\ op.at \in CrashPoints
    /\ op' = Idle
    /\ cur' = 0
    /\ UNCHANGED <<threadVars, storeVars>>

(* The steps of an operation in flight: the process runs them unasked. *)
Progress ==
    \/ BeginTurn \/ LaunchGraph \/ OracleStep \/ RulesStep \/ BudgetStop
    \/ RecordPreNarration \/ ReturnUnrecorded
    \/ OratorStep \/ ArchivistStep
    \/ RetryMark \/ DiscardMark
    \/ RetconRewind
    \/ CloseCommit \/ CloseRollback \/ VaultWritten \/ VaultFailed

(* What a player, or a caller of resume_and_close, asks for. *)
Command ==
    \/ PlayerInput \/ RetryRewind \/ DiscardRewind \/ Pause \/ Quit
    \/ \E s \in Turns : Retcon(s)
    \/ CloseTurn

Next == Progress \/ Command \/ Crash

Spec == Init /\ [][Next]_vars /\ WF_vars(Progress)
=============================================================================
