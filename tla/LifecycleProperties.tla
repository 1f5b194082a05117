------------------------ MODULE LifecycleProperties ------------------------
(***************************************************************************)
(* What the turn lifecycle must guarantee, whatever the player does and    *)
(* wherever the process dies.                                              *)
(***************************************************************************)
EXTENDS TurnLifecycle

(* Every variable holds a value of its kind. *)
TypeOK ==
    /\ ThreadTypeOK
    /\ StoreTypeOK
    /\ op \in [at : Stages, turn : 0..MaxTurn]
    /\ cur \in 0..MaxTurn

-----------------------------------------------------------------------------
(* Canon.                                                                  *)

(***************************************************************************)
(* prior_final_checkpoint and list_affected_suffix find "earlier" and      *)
(* "later" by completed_at, which /retry, /discard and every close write.  *)
(* Canonical turns are nevertheless completed in the order of their ids,   *)
(* so a retcon's suffix is the selected turn and the turns played after it.*)
(***************************************************************************)
CanonOrder ==
    \A u, v \in Canonical : u < v => <<u, v>> \in before

(***************************************************************************)
(* The thread is never behind canon: no canonical turn is later than the   *)
(* turn the thread is at, and that turn itself is canonical only once the  *)
(* graph has nothing left to run for it.  So no retry, discard or narration*)
(* of a pending turn can touch a turn that is already canon.               *)
(***************************************************************************)
CanonBehindThread ==
    \A t \in Canonical :
        /\ t <= head.turn
        /\ t = head.turn => head.next = "end"

(***************************************************************************)
(* A canonical turn can be returned to: its final checkpoint ref names a   *)
(* checkpoint of that very turn with nothing left to run, and the          *)
(* transcript of the attempt that reached it was committed with it.        *)
(***************************************************************************)
CanonBacked ==
    \A t \in Canonical :
        /\ final[t].turn = t
        /\ final[t].next = "end"
        /\ <<t, AttemptOf(final[t])>> \in rows

(***************************************************************************)
(* The lifecycle implements CanonLog: canon is a history that only grows   *)
(* at its end and is only cut from its end.                                *)
(***************************************************************************)
CanonPairs == {<<t, AttemptOf(final[t])>> : t \in Canonical}

Log == INSTANCE CanonLog WITH
    LogTurns <- Turns, LogAttempts <- 1..MaxAttempt, canon <- CanonPairs

ImplementsCanonLog == Log!CanonSpec

-----------------------------------------------------------------------------
(* One story.                                                              *)

(***************************************************************************)
(* Canon is one story: the state the thread would play on from was built   *)
(* on the very attempt that closed each canonical turn, in that order.     *)
(***************************************************************************)
OneStory ==
    \A t \in Canonical :
        /\ Len(final[t].hist) <= Len(head.hist)
        /\ \A i \in 1..Len(final[t].hist) : final[t].hist[i] = head.hist[i]

(* An attempt whose turn was retconned never closes a canonical turn again.*)
RetconIsForever ==
    \A t \in Canonical : AttemptOf(final[t]) \notin audit

(***************************************************************************)
(* Once /retcon gave the prompt back, nothing the thread holds was built   *)
(* on an attempt the retcon removed.                                       *)
(***************************************************************************)
RetconErases ==
    op = Idle => \A i \in 1..Len(head.hist) : head.hist[i] \notin audit

(***************************************************************************)
(* /retry and /discard rewind to the checkpoint the player is looking at:  *)
(* the pre-narration snapshot freezes the mechanics of the pending attempt.*)
(***************************************************************************)
RewindKeepsMechanics ==
    [][RetryRewind \/ DiscardRewind => head' = head]_vars

-----------------------------------------------------------------------------
(* The player.                                                             *)

(***************************************************************************)
(* Whatever was asked for, the prompt comes back.  Handlers are synchronous*)
(* functions, so an operation in flight is never set aside for another.    *)
(***************************************************************************)
PromptReturns == [](op # Idle => <>(op = Idle))

-----------------------------------------------------------------------------
(* What the documents say and the code does not do.                        *)

(***************************************************************************)
(* A turn removed by /retcon is excluded from canon: the transcript of a   *)
(* canonical turn is that of the attempt that closed it.                   *)
(***************************************************************************)
CanonicalTranscript ==
    \A r \in rows : r[1] \in Canonical => r[2] = AttemptOf(final[r[1]])

(***************************************************************************)
(* /discard discards the incomplete turn entirely: the Orator never goes   *)
(* on to narrate it unless the player asks for it with /retry.             *)
(***************************************************************************)
DiscardedStaysSilent ==
    [][OratorStep => status[head.turn] # "discarded"]_vars

(***************************************************************************)
(* A pre-narration checkpoint of the turn is on record before the Orator   *)
(* starts.                                                                 *)
(***************************************************************************)
NarrationIsRecoverable ==
    [][OratorStep =>
         /\ Exists(pre[head.turn])
         /\ AttemptOf(pre[head.turn]) = AttemptOf(head)]_vars

(***************************************************************************)
(* A completed encounter returns to play: the turn after it is the         *)
(* Oracle's to plan.                                                       *)
(***************************************************************************)
CombatReturnsToPlay ==
    [][LaunchGraph /\ head.combat = "over" => head'.next = "oracle"]_vars
=============================================================================
