-------------------------- MODULE LifecycleProofs --------------------------
(***************************************************************************)
(* The safety of the turn lifecycle for every number of turns and of       *)
(* attempts, with and without encounters, wherever the process may die.    *)
(*                                                                         *)
(* The invariants of LifecycleProperties are not inductive: what a rewind  *)
(* or a close does is right only because of what the rows it reads say and *)
(* because nothing else was in flight.  LifecycleInv adds those facts.     *)
(***************************************************************************)
EXTENDS LifecycleProperties, SequenceTheorems, TLAPS

(* A thread without a turn has nothing to run; one with a turn was started.*)
ThreadInv ==
    /\ head.turn = 0 => head.next = "end"
    /\ head.turn # 0 => head.hist # <<>>

(* A checkpoint ref names a checkpoint of its own turn, taken where its    *)
(* kind says.                                                              *)
RefInv ==
    \A t \in Turns :
        /\ Exists(pre[t]) =>
             pre[t].turn = t /\ pre[t].next = "orator" /\ pre[t].hist # <<>>
        /\ Exists(final[t]) =>
             final[t].turn = t /\ final[t].next = "end" /\ final[t].hist # <<>>

(* completed_at orders two turns one way only. *)
OrderInv ==
    \A u, v \in Turns : <<u, v>> \in before => <<v, u>> \notin before

(* What is known while an operation is in flight. *)
OpInv ==
    /\ op.at \in {"begin", "launch"} =>
         op.turn = head.turn + 1 /\ op.turn \in Turns /\ attempts < MaxAttempt
    /\ op.at = "flush" =>
         head.turn \in Turns /\ head.turn < MaxTurn /\ attempts < MaxAttempt
    /\ op.at \in {"invoke", "mark_retried", "mark_discarded", "retry", "close",
                  "commit", "vault"} =>
         op.turn = head.turn /\ op.turn \in Turns
    /\ op.at \in {"mark_retried", "mark_discarded"} => head.next = "orator"
    /\ op.at = "commit" => head.next = "end"
    /\ op.at \in {"close", "commit"} => op.turn \notin Canonical
    /\ op.at = "vault" => op.turn \in Canonical
    /\ op.at = "rewind" =>
         /\ op.turn \in Canonical
         /\ \A t \in Canonical : t <= op.turn

LifecycleInv ==
    /\ TypeOK
    /\ ThreadInv
    /\ RefInv
    /\ OrderInv
    /\ OpInv
    /\ CanonOrder
    /\ CanonBehindThread
    /\ CanonBacked

-----------------------------------------------------------------------------
(* Facts about the helpers.                                                *)

(* The attempt of a checkpoint that was reached by running the graph. *)
LEMMA AttemptInRange ==
    ASSUME NEW c \in Checkpoint, c.hist # <<>>
    PROVE  AttemptOf(c) \in 1..MaxAttempt
  <1>1. c.hist \in Seq(1..MaxAttempt)
    BY DEF Checkpoint
  <1>2. ASSUME NEW S, NEW s \in Seq(S), s # <<>>
        PROVE  s[Len(s)] \in S
    <2>1. Len(s) \in 1..Len(s)
      BY <1>2, EmptySeq, LenProperties
    <2> QED
      BY <2>1, ElementOfSeq
  <1> QED
    BY <1>1, <1>2 DEF AttemptOf

LEMMA NoCheckpointIsOne == NoCheckpoint \in Checkpoint
  BY ThreadAssumption DEF NoCheckpoint, Checkpoint, Nodes

(* Writing completed_at of t moves t behind every other recorded turn and  *)
(* leaves the order of the others alone.                                   *)
LEMMA StampFacts ==
    ASSUME TypeOK, OrderInv, NEW t \in Turns, Stamp(t)
    PROVE  /\ before' \in SUBSET (Turns \X Turns)
           /\ OrderInv'
           /\ \A u, v \in Turns \ {t} :
                <<u, v>> \in before' <=> <<u, v>> \in before
           /\ \A u \in Turns \ {t} :
                status[u] # "absent" => <<u, t>> \in before'
  BY DEF TypeOK, StoreTypeOK, OrderInv, Stamp

-----------------------------------------------------------------------------
THEOREM InitInv == Init => LifecycleInv
  <1> SUFFICES ASSUME Init PROVE LifecycleInv
    OBVIOUS
  <1> USE ThreadAssumption DEF Init, ThreadInit, StoreInit, Turns
  <1>1. TypeOK
    <2>1. ThreadTypeOK
      <3>1. head \in Checkpoint
        BY NoCheckpointIsOne
      <3>2. headRef \in BOOLEAN
        OBVIOUS
      <3>3. attempts \in 0..MaxAttempt
        OBVIOUS
      <3> QED
        BY <3>1, <3>2, <3>3 DEF ThreadTypeOK
    <2>2. StoreTypeOK
      <3>1. status \in [Turns -> Statuses]
        BY DEF Statuses
      <3>2. pre \in [Turns -> Checkpoint] /\ final \in [Turns -> Checkpoint]
        BY NoCheckpointIsOne
      <3> QED
        BY <3>1, <3>2 DEF StoreTypeOK
    <2>3. op \in [at : Stages, turn : 0..MaxTurn] /\ cur \in 0..MaxTurn
      BY DEF Idle, At, Stages
    <2> QED
      BY <2>1, <2>2, <2>3 DEF TypeOK
  <1>2. Canonical = {}
    BY DEF Canonical
  <1>3. ThreadInv /\ RefInv /\ OrderInv
    BY DEF ThreadInv, RefInv, OrderInv, NoCheckpoint, Exists
  <1>4. OpInv
    BY DEF OpInv, Idle, At
  <1>5. CanonOrder /\ CanonBehindThread /\ CanonBacked
    BY <1>2 DEF CanonOrder, CanonBehindThread, CanonBacked
  <1> QED
    BY <1>1, <1>3, <1>4, <1>5 DEF LifecycleInv

-----------------------------------------------------------------------------
(* What a step keeps that leaves the store, the thread or canon alone.     *)

LEMMA StoreKept ==
    ASSUME LifecycleInv, UNCHANGED storeVars
    PROVE  /\ StoreTypeOK' /\ RefInv' /\ OrderInv' /\ CanonOrder' /\ CanonBacked'
           /\ Canonical' = Canonical
  <1> USE DEF LifecycleInv, storeVars
  <1>1. Canonical' = Canonical
    BY DEF Canonical
  <1>2. StoreTypeOK'
    BY DEF TypeOK, StoreTypeOK
  <1>3. RefInv' /\ OrderInv'
    BY DEF RefInv, OrderInv, Exists
  <1>4. CanonOrder'
    BY <1>1 DEF CanonOrder
  <1>5. CanonBacked'
    BY <1>1 DEF CanonBacked, AttemptOf
  <1> QED
    BY <1>1, <1>2, <1>3, <1>4, <1>5

LEMMA ThreadKept ==
    ASSUME LifecycleInv, UNCHANGED threadVars
    PROVE  ThreadTypeOK' /\ ThreadInv'
  BY DEF LifecycleInv, TypeOK, ThreadTypeOK, ThreadInv, threadVars

LEMMA CanonKept ==
    ASSUME LifecycleInv, Canonical' \subseteq Canonical, UNCHANGED head
    PROVE  CanonBehindThread'
  BY DEF LifecycleInv, CanonBehindThread

(* A superstep of the turn the thread is at that had not ended. *)
LEMMA SuperstepKeeps ==
    ASSUME LifecycleInv, UNCHANGED storeVars,
           head' \in Checkpoint, head'.turn = head.turn, head'.hist = head.hist,
           head.next # "end" \/ head'.next = "end",
           headRef' = FALSE, UNCHANGED attempts
    PROVE  ThreadTypeOK' /\ ThreadInv' /\ CanonBehindThread'
  <1> USE DEF LifecycleInv
  <1>1. headRef' \in BOOLEAN
    OBVIOUS
  <1>2. ThreadTypeOK'
    BY <1>1 DEF TypeOK, ThreadTypeOK
  <1>3. ThreadInv'
    BY DEF ThreadInv
  <1>4. Canonical' = Canonical
    BY StoreKept
  <1>5. CanonBehindThread'
    BY <1>4 DEF CanonBehindThread
  <1> QED
    BY <1>2, <1>3, <1>5

-----------------------------------------------------------------------------
(* Player input: nothing canonical is touched until the new turn is ahead. *)

LEMMA PlayerInputKeeps ==
    ASSUME LifecycleInv, PlayerInput
    PROVE  LifecycleInv'
  <1> USE ThreadAssumption DEF PlayerInput
  <1>1. UNCHANGED head /\ UNCHANGED threadVars /\ UNCHANGED storeVars
    BY DEF threadVars
  <1>2. head.turn \in 0..MaxTurn /\ (head.next = "orator" => head.turn # 0)
    BY DEF LifecycleInv, TypeOK, ThreadTypeOK, Checkpoint, ThreadInv
  <1>3. op' \in [at : Stages, turn : 0..MaxTurn] /\ cur' \in 0..MaxTurn
    BY <1>2 DEF At, Stages, LifecycleInv, TypeOK
  <1>4. OpInv'
    BY <1>1, <1>2 DEF OpInv, At, Turns, threadVars
  <1> QED
    BY <1>1, <1>3, <1>4, StoreKept, ThreadKept, CanonKept
    DEF LifecycleInv, TypeOK

LEMMA BeginTurnKeeps ==
    ASSUME LifecycleInv, BeginTurn
    PROVE  LifecycleInv'
  <1> USE ThreadAssumption DEF BeginTurn
  <1> DEFINE t == op.turn
  <1>1. /\ t \in Turns /\ t = head.turn + 1
        /\ attempts < MaxAttempt
        /\ UNCHANGED head /\ UNCHANGED threadVars
    BY DEF LifecycleInv, OpInv, threadVars
  <1>2. /\ status' \in [Turns -> Statuses]
        /\ \A u \in Turns :
             \/ status'[u] = status[u]
             \/ u = t /\ status[u] = "absent" /\ status'[u] # "complete"
    BY <1>1
    DEF EnsureTurnRecord, UpsertRecord, LifecycleInv, TypeOK, StoreTypeOK, Statuses
  <1>3. Canonical' = Canonical /\ (status[t] = "absent" => t \notin Canonical)
    BY <1>1, <1>2 DEF Canonical
  <1>4. before' \in SUBSET (Turns \X Turns) /\ OrderInv' /\ CanonOrder'
    <2>1. CASE status[t] = "absent"
      <3>1. Stamp(t)
        BY <2>1 DEF EnsureTurnRecord, UpsertRecord
      <3> QED
        BY <1>1, <1>3, <2>1, <3>1, StampFacts DEF LifecycleInv, CanonOrder, Canonical
    <2>2. CASE status[t] # "absent"
      <3>1. UNCHANGED before
        BY <2>2 DEF EnsureTurnRecord
      <3> QED
        BY <1>3, <3>1 DEF LifecycleInv, TypeOK, StoreTypeOK, OrderInv, CanonOrder
    <2> QED
      BY <2>1, <2>2
  <1>5. StoreTypeOK' /\ RefInv' /\ CanonBacked'
    BY <1>2, <1>3, <1>4
    DEF EnsureTurnRecord, LifecycleInv, TypeOK, StoreTypeOK, RefInv, Exists,
        CanonBacked, AttemptOf
  <1>6. op' \in [at : Stages, turn : 0..MaxTurn] /\ cur' \in 0..MaxTurn
    BY <1>1 DEF At, Stages, Turns, LifecycleInv, TypeOK
  <1>7. OpInv'
    BY <1>1 DEF OpInv, At, threadVars
  <1> QED
    BY <1>1, <1>3, <1>4, <1>5, <1>6, <1>7, ThreadKept, CanonKept
    DEF LifecycleInv, TypeOK

LEMMA LaunchGraphKeeps ==
    ASSUME LifecycleInv, LaunchGraph
    PROVE  LifecycleInv'
  <1> USE ThreadAssumption DEF LaunchGraph
  <1>1. /\ op.turn \in Turns /\ op.turn = head.turn + 1 /\ attempts < MaxAttempt
        /\ head \in Checkpoint /\ attempts \in 0..MaxAttempt
        /\ UNCHANGED storeVars
    BY DEF LifecycleInv, OpInv, TypeOK, ThreadTypeOK
  <1>2. head' \in Checkpoint /\ head'.turn = op.turn /\ head'.hist # <<>>
    <2>1. head.hist \in Seq(1..MaxAttempt) /\ attempts + 1 \in 1..MaxAttempt
      BY <1>1 DEF Checkpoint
    <2>2. /\ Append(head.hist, attempts + 1) \in Seq(1..MaxAttempt)
          /\ Append(head.hist, attempts + 1) # <<>>
      BY <2>1, SMTT(30)
    <2>3. EntryNode(head.combat) \in Nodes
      BY DEF EntryNode, Nodes
    <2> QED
      BY <1>1, <2>2, <2>3 DEF StartGraph, Put, Checkpoint, Turns
  <1>3. headRef' \in BOOLEAN
    BY DEF StartGraph, Put
  <1>4. ThreadTypeOK' /\ ThreadInv'
    BY <1>1, <1>2, <1>3 DEF StartGraph, ThreadTypeOK, ThreadInv, Turns
  <1>5. CanonBehindThread'
    <2>1. \A t \in Canonical : t \in Turns /\ t < head'.turn
      BY <1>1, <1>2
      DEF LifecycleInv, CanonBehindThread, Canonical, Turns, Checkpoint
    <2> QED
      BY <1>1, <1>2, <2>1, StoreKept DEF CanonBehindThread, Turns
  <1>6. op' \in [at : Stages, turn : 0..MaxTurn] /\ cur' \in 0..MaxTurn
    BY <1>1 DEF At, Stages, Turns, LifecycleInv, TypeOK
  <1>7. OpInv'
    BY <1>1, <1>2 DEF OpInv, At
  <1> QED
    BY <1>1, <1>4, <1>5, <1>6, <1>7, StoreKept DEF LifecycleInv, TypeOK

-----------------------------------------------------------------------------
(* The supersteps of a run.                                                *)

LEMMA OracleStepKeeps ==
    ASSUME LifecycleInv, OracleStep
    PROVE  LifecycleInv'
  <1> USE DEF OracleStep, Oracle, Put
  <1>1. /\ UNCHANGED storeVars /\ UNCHANGED attempts /\ headRef' = FALSE
        /\ UNCHANGED op /\ UNCHANGED cur
        /\ head \in Checkpoint /\ head.next # "end"
    BY DEF LifecycleInv, TypeOK, ThreadTypeOK
  <1>2. head' \in Checkpoint /\ head'.turn = head.turn /\ head'.hist = head.hist
    <2>1. PICK n \in {"rules_lawyer", "end"} :
            head' = [head EXCEPT !.mem = TRUE, !.next = n]
      OBVIOUS
    <2>2. head' \in Checkpoint
      BY <1>1, <2>1 DEF Checkpoint, Nodes
    <2> QED
      BY <1>1, <2>1, <2>2 DEF Checkpoint
  <1>3. OpInv'
    BY <1>1, <1>2, StoreKept DEF LifecycleInv, OpInv
  <1> QED
    BY <1>1, <1>2, <1>3, StoreKept, SuperstepKeeps DEF LifecycleInv, TypeOK

LEMMA RulesStepKeeps ==
    ASSUME LifecycleInv, RulesStep
    PROVE  LifecycleInv'
  <1> USE DEF RulesStep, RulesLawyer, Put
  <1>1. /\ UNCHANGED storeVars /\ UNCHANGED attempts /\ headRef' = FALSE
        /\ UNCHANGED op /\ UNCHANGED cur
        /\ head \in Checkpoint /\ head.next # "end"
    BY DEF LifecycleInv, TypeOK, ThreadTypeOK
  <1>2. head' \in Checkpoint /\ head'.turn = head.turn /\ head'.hist = head.hist
    <2>1. PICK d \in {"none", "active", "over"} :
            head' = [head EXCEPT !.combat = d, !.next = "orator"]
      BY DEF CombatAfter
    <2>2. head' \in Checkpoint
      BY <1>1, <2>1 DEF Checkpoint, Nodes
    <2> QED
      BY <1>1, <2>1, <2>2 DEF Checkpoint
  <1>3. OpInv'
    BY <1>1, <1>2, StoreKept DEF LifecycleInv, OpInv
  <1> QED
    BY <1>1, <1>2, <1>3, StoreKept, SuperstepKeeps DEF LifecycleInv, TypeOK

LEMMA OratorStepKeeps ==
    ASSUME LifecycleInv, OratorStep
    PROVE  LifecycleInv'
  <1> USE DEF OratorStep, Orator, Put
  <1>1. /\ UNCHANGED storeVars /\ UNCHANGED attempts /\ headRef' = FALSE
        /\ UNCHANGED op /\ UNCHANGED cur
        /\ head \in Checkpoint /\ head.next # "end"
        /\ op.at \in {"flush", "retry", "close"}
    BY DEF LifecycleInv, TypeOK, ThreadTypeOK
  <1>2. head' \in Checkpoint /\ head'.turn = head.turn /\ head'.hist = head.hist
    <2>1. head' \in Checkpoint
      BY <1>1 DEF Checkpoint, Nodes
    <2> QED
      BY <1>1, <2>1 DEF Checkpoint
  <1>3. OpInv'
    BY <1>1, <1>2, StoreKept DEF LifecycleInv, OpInv
  <1> QED
    BY <1>1, <1>2, <1>3, StoreKept, SuperstepKeeps DEF LifecycleInv, TypeOK

LEMMA ArchivistStepKeeps ==
    ASSUME LifecycleInv, ArchivistStep
    PROVE  LifecycleInv'
  <1> USE ThreadAssumption DEF ArchivistStep, Archivist, Put
  <1>1. /\ UNCHANGED storeVars /\ UNCHANGED attempts /\ headRef' = FALSE
        /\ UNCHANGED cur
        /\ head \in Checkpoint /\ head.next # "end"
        /\ op.at \in {"flush", "retry", "close"}
    BY DEF LifecycleInv, TypeOK, ThreadTypeOK
  <1>2. /\ head' \in Checkpoint /\ head'.turn = head.turn
        /\ head'.hist = head.hist /\ head'.next = "end"
    <2>1. head' \in Checkpoint
      BY <1>1 DEF Checkpoint, Nodes
    <2> QED
      BY <1>1, <2>1 DEF Checkpoint
  <1>3. /\ op' \in [at : Stages, turn : 0..MaxTurn] /\ cur' \in 0..MaxTurn
        /\ OpInv'
    <2>1. CASE op.at = "flush"
      BY <1>1, <1>2, <2>1
      DEF LifecycleInv, TypeOK, OpInv, At, Stages, Turns
    <2>2. CASE op.at = "retry"
      BY <1>1, <1>2, <2>2 DEF LifecycleInv, TypeOK, OpInv, At, Idle, Stages
    <2>3. CASE op.at = "close"
      BY <1>1, <1>2, <2>3, StoreKept
      DEF LifecycleInv, TypeOK, OpInv, At, Stages, Turns
    <2> QED
      BY <1>1, <2>1, <2>2, <2>3
  <1> QED
    BY <1>1, <1>2, <1>3, StoreKept, SuperstepKeeps DEF LifecycleInv, TypeOK

-----------------------------------------------------------------------------
(* The ways an input ends.                                                 *)

LEMMA BudgetStopKeeps ==
    ASSUME LifecycleInv, BudgetStop
    PROVE  LifecycleInv'
  <1> USE DEF BudgetStop, PostInterrupt, Put, EndInput
  <1>1. /\ UNCHANGED storeVars /\ UNCHANGED attempts /\ headRef' = FALSE
        /\ head \in Checkpoint
    BY DEF LifecycleInv, TypeOK, ThreadTypeOK
  <1>2. /\ head' \in Checkpoint /\ head'.turn = head.turn
        /\ head'.hist = head.hist /\ head'.next = "end"
    <2>1. head' \in Checkpoint
      BY <1>1 DEF Checkpoint, Nodes
    <2> QED
      BY <1>1, <2>1 DEF Checkpoint
  <1>3. op' \in [at : Stages, turn : 0..MaxTurn] /\ cur' \in 0..MaxTurn
    BY ThreadAssumption DEF LifecycleInv, TypeOK, Idle, At, Stages
  <1>4. OpInv'
    BY DEF OpInv, Idle, At
  <1> QED
    BY <1>1, <1>2, <1>3, <1>4, StoreKept, SuperstepKeeps DEF LifecycleInv, TypeOK

LEMMA RecordPreNarrationKeeps ==
    ASSUME LifecycleInv, RecordPreNarration
    PROVE  LifecycleInv'
  <1> USE DEF RecordPreNarration, AppendPreNarration, EndInput
  <1>1. /\ op.turn = head.turn /\ op.turn \in Turns /\ head.next = "orator"
        /\ head.hist # <<>> /\ head \in Checkpoint /\ pre \in [Turns -> Checkpoint]
        /\ UNCHANGED <<head, attempts, status, before, final, rows, audit>>
        /\ headRef' = TRUE /\ pre' = [pre EXCEPT ![op.turn] = head]
    BY ThreadAssumption
    DEF LifecycleInv, OpInv, ThreadInv, TypeOK, ThreadTypeOK, StoreTypeOK, Turns
  <1>2. Canonical' = Canonical
    BY <1>1 DEF Canonical
  <1>3. headRef' \in BOOLEAN
    BY <1>1
  <1>4. ThreadTypeOK' /\ ThreadInv'
    BY <1>1, <1>3 DEF LifecycleInv, TypeOK, ThreadTypeOK, ThreadInv
  <1>5. StoreTypeOK' /\ RefInv' /\ OrderInv'
    BY <1>1
    DEF LifecycleInv, TypeOK, StoreTypeOK, RefInv, OrderInv, Exists
  <1>6. CanonOrder' /\ CanonBacked'
    BY <1>1, <1>2 DEF LifecycleInv, CanonOrder, CanonBacked, AttemptOf
  <1>7. op' \in [at : Stages, turn : 0..MaxTurn] /\ cur' \in 0..MaxTurn
    BY ThreadAssumption DEF LifecycleInv, TypeOK, Idle, At, Stages
  <1>8. OpInv'
    BY DEF OpInv, Idle, At
  <1> QED
    BY <1>1, <1>2, <1>4, <1>5, <1>6, <1>7, <1>8, CanonKept
    DEF LifecycleInv, TypeOK

LEMMA ReturnUnrecordedKeeps ==
    ASSUME LifecycleInv, ReturnUnrecorded
    PROVE  LifecycleInv'
  <1> USE DEF ReturnUnrecorded, EndInput
  <1>1. UNCHANGED head /\ UNCHANGED threadVars /\ UNCHANGED storeVars
    BY DEF threadVars
  <1>2. op' \in [at : Stages, turn : 0..MaxTurn] /\ cur' \in 0..MaxTurn
    BY ThreadAssumption DEF LifecycleInv, TypeOK, Idle, At, Stages
  <1>3. OpInv'
    BY DEF OpInv, Idle, At
  <1> QED
    BY <1>1, <1>2, <1>3, StoreKept, ThreadKept, CanonKept DEF LifecycleInv, TypeOK

-----------------------------------------------------------------------------
(* /retry and /discard: the turn they rewind and mark is not canonical.    *)

LEMMA RewindToPreKeeps ==
    ASSUME LifecycleInv, HasIncompleteNarration, Exists(pre[cur]),
           RewindTo(pre[cur]), UNCHANGED storeVars
    PROVE  /\ ThreadTypeOK' /\ ThreadInv' /\ CanonBehindThread'
           /\ cur \in Turns /\ head'.turn = cur /\ head'.next = "orator"
  <1>1. /\ cur \in Turns /\ head.turn = cur /\ head.next = "orator"
        /\ head' = pre[cur] /\ headRef' = FALSE /\ UNCHANGED attempts
        /\ pre[cur] \in Checkpoint
    BY ThreadAssumption
    DEF LifecycleInv, TypeOK, StoreTypeOK, HasIncompleteNarration, RewindTo, Put,
        Turns
  <1>2. pre[cur].turn = cur /\ pre[cur].next = "orator" /\ pre[cur].hist # <<>>
    BY <1>1 DEF LifecycleInv, RefInv
  <1>3. headRef' \in BOOLEAN
    BY <1>1
  <1>4. ThreadTypeOK' /\ ThreadInv'
    BY <1>1, <1>2, <1>3
    DEF LifecycleInv, TypeOK, ThreadTypeOK, ThreadInv, Turns
  <1>5. CanonBehindThread'
    BY <1>1, <1>2, StoreKept DEF LifecycleInv, CanonBehindThread
  <1> QED
    BY <1>1, <1>2, <1>4, <1>5

LEMMA MarkTurnKeeps ==
    ASSUME LifecycleInv, NEW t \in Turns, t \notin Canonical,
           NEW s \in Statuses \ {"complete"}, MarkTurn(t, s)
    PROVE  /\ StoreTypeOK' /\ RefInv' /\ OrderInv' /\ CanonOrder' /\ CanonBacked'
           /\ Canonical' = Canonical
  <1> USE DEF MarkTurn, UpsertRecord
  <1>1. /\ status \in [Turns -> Statuses] /\ status' = [status EXCEPT ![t] = s]
        /\ Stamp(t) /\ UNCHANGED <<pre, final, rows, audit>>
    BY DEF LifecycleInv, TypeOK, StoreTypeOK
  <1>2. Canonical' = Canonical
    BY <1>1 DEF Canonical
  <1>3. /\ before' \in SUBSET (Turns \X Turns) /\ OrderInv'
        /\ \A u, v \in Turns \ {t} :
             <<u, v>> \in before' <=> <<u, v>> \in before
    BY <1>1, StampFacts DEF LifecycleInv
  <1>4. CanonOrder'
    BY <1>2, <1>3 DEF LifecycleInv, CanonOrder, Canonical
  <1>5. StoreTypeOK' /\ RefInv'
    BY <1>1, <1>3 DEF LifecycleInv, TypeOK, StoreTypeOK, RefInv, Exists
  <1>6. CanonBacked'
    BY <1>1, <1>2 DEF LifecycleInv, CanonBacked, AttemptOf
  <1> QED
    BY <1>2, <1>3, <1>4, <1>5, <1>6

LEMMA RetryRewindKeeps ==
    ASSUME LifecycleInv, RetryRewind
    PROVE  LifecycleInv'
  <1> USE DEF RetryRewind
  <1>1. /\ ThreadTypeOK' /\ ThreadInv' /\ CanonBehindThread'
        /\ cur \in Turns /\ head'.turn = cur /\ head'.next = "orator"
    BY RewindToPreKeeps
  <1>2. op' \in [at : Stages, turn : 0..MaxTurn] /\ cur' \in 0..MaxTurn
    BY <1>1 DEF LifecycleInv, TypeOK, At, Stages, Turns
  <1>3. OpInv'
    BY <1>1 DEF OpInv, At
  <1> QED
    BY <1>1, <1>2, <1>3, StoreKept DEF LifecycleInv, TypeOK

LEMMA DiscardRewindKeeps ==
    ASSUME LifecycleInv, DiscardRewind
    PROVE  LifecycleInv'
  <1> USE DEF DiscardRewind
  <1>1. /\ ThreadTypeOK' /\ ThreadInv' /\ CanonBehindThread'
        /\ cur \in Turns /\ head'.turn = cur /\ head'.next = "orator"
    BY RewindToPreKeeps
  <1>2. op' \in [at : Stages, turn : 0..MaxTurn] /\ cur' \in 0..MaxTurn
    BY <1>1 DEF LifecycleInv, TypeOK, At, Stages, Turns
  <1>3. OpInv'
    BY <1>1 DEF OpInv, At
  <1> QED
    BY <1>1, <1>2, <1>3, StoreKept DEF LifecycleInv, TypeOK

LEMMA RetryMarkKeeps ==
    ASSUME LifecycleInv, RetryMark
    PROVE  LifecycleInv'
  <1> USE DEF RetryMark
  <1>1. /\ op.turn \in Turns /\ op.turn = head.turn /\ head.next = "orator"
        /\ UNCHANGED head /\ UNCHANGED threadVars
    BY DEF LifecycleInv, OpInv, threadVars
  <1>2. op.turn \notin Canonical
    BY <1>1 DEF LifecycleInv, CanonBehindThread
  <1>3. /\ StoreTypeOK' /\ RefInv' /\ OrderInv' /\ CanonOrder' /\ CanonBacked'
        /\ Canonical' = Canonical
    BY <1>1, <1>2, MarkTurnKeeps DEF Statuses
  <1>4. op' \in [at : Stages, turn : 0..MaxTurn] /\ cur' \in 0..MaxTurn
    BY <1>1 DEF LifecycleInv, TypeOK, At, Stages, Turns
  <1>5. OpInv'
    BY <1>1 DEF OpInv, At
  <1> QED
    BY <1>1, <1>3, <1>4, <1>5, ThreadKept, CanonKept DEF LifecycleInv, TypeOK

LEMMA DiscardMarkKeeps ==
    ASSUME LifecycleInv, DiscardMark
    PROVE  LifecycleInv'
  <1> USE DEF DiscardMark
  <1>1. /\ op.turn \in Turns /\ op.turn = head.turn /\ head.next = "orator"
        /\ UNCHANGED head /\ UNCHANGED threadVars
    BY DEF LifecycleInv, OpInv, threadVars
  <1>2. op.turn \notin Canonical
    BY <1>1 DEF LifecycleInv, CanonBehindThread
  <1>3. /\ StoreTypeOK' /\ RefInv' /\ OrderInv' /\ CanonOrder' /\ CanonBacked'
        /\ Canonical' = Canonical
    BY <1>1, <1>2, MarkTurnKeeps DEF Statuses
  <1>4. op' \in [at : Stages, turn : 0..MaxTurn] /\ cur' \in 0..MaxTurn
    BY ThreadAssumption DEF LifecycleInv, TypeOK, Idle, At, Stages
  <1>5. OpInv'
    BY DEF OpInv, Idle, At
  <1> QED
    BY <1>1, <1>3, <1>4, <1>5, ThreadKept, CanonKept DEF LifecycleInv, TypeOK

-----------------------------------------------------------------------------
(* /pause, /line and quit.                                                 *)

LEMMA PostInterruptKeeps ==
    ASSUME LifecycleInv, PostInterrupt, UNCHANGED storeVars
    PROVE  ThreadTypeOK' /\ ThreadInv' /\ CanonBehindThread'
  <1> USE DEF PostInterrupt, Put
  <1>1. head \in Checkpoint
    BY DEF LifecycleInv, TypeOK, ThreadTypeOK
  <1>2. /\ head' \in Checkpoint /\ head'.turn = head.turn
        /\ head'.hist = head.hist /\ head'.next = "end"
    <2>1. head' \in Checkpoint
      BY <1>1 DEF Checkpoint, Nodes
    <2> QED
      BY <1>1, <2>1 DEF Checkpoint
  <1> QED
    BY <1>2, SuperstepKeeps

LEMMA PauseKeeps ==
    ASSUME LifecycleInv, Pause
    PROVE  LifecycleInv'
  <1> USE DEF Pause
  <1>1. ThreadTypeOK' /\ ThreadInv' /\ CanonBehindThread'
    BY PostInterruptKeeps
  <1>2. OpInv'
    BY DEF OpInv, Idle, At
  <1> QED
    BY <1>1, <1>2, StoreKept DEF LifecycleInv, TypeOK

LEMMA QuitKeeps ==
    ASSUME LifecycleInv, Quit
    PROVE  LifecycleInv'
  <1> USE DEF Quit
  <1>1. ThreadTypeOK' /\ ThreadInv' /\ CanonBehindThread'
    BY PostInterruptKeeps
  <1>2. OpInv'
    BY DEF OpInv, Idle, At
  <1>3. cur' \in 0..MaxTurn
    BY ThreadAssumption
  <1> QED
    BY <1>1, <1>2, <1>3, StoreKept DEF LifecycleInv, TypeOK

-----------------------------------------------------------------------------
(* /retcon.                                                                *)

(* The final checkpoint of a canonical turn. *)
LEMMA CanonicalFinal ==
    ASSUME LifecycleInv, NEW u \in Canonical
    PROVE  /\ u \in Turns /\ u \in Nat
           /\ Exists(final[u])
           /\ final[u] \in Checkpoint /\ final[u].turn = u
           /\ final[u].next = "end" /\ final[u].hist # <<>>
  <1>1. u \in Turns /\ u \in Nat /\ u # 0
    BY ThreadAssumption DEF Canonical, Turns
  <1>2. final[u].turn = u /\ final[u].next = "end"
    BY DEF LifecycleInv, CanonBacked
  <1>3. Exists(final[u])
    BY <1>1, <1>2 DEF Exists
  <1>4. final[u] \in Checkpoint
    BY <1>1 DEF LifecycleInv, TypeOK, StoreTypeOK
  <1>5. final[u].hist # <<>>
    BY <1>1, <1>3 DEF LifecycleInv, RefInv
  <1> QED
    BY <1>1, <1>2, <1>3, <1>4, <1>5

(* The affected suffix is the selected turn and what was played after it,  *)
(* and the prior final checkpoint is that of the last turn left.           *)
LEMMA RetconCutsSuffix ==
    ASSUME LifecycleInv, NEW s \in Canonical, NEW p \in Turns, IsPriorFinal(p, s)
    PROVE  /\ AffectedSuffix(s) = {u \in Canonical : u >= s}
           /\ p \in Canonical /\ p < s
           /\ \A u \in Canonical : u < s => u <= p
  <1>1. s \in Turns /\ \A u \in Canonical : u \in Turns /\ u \in Nat
    BY ThreadAssumption DEF Canonical, Turns
  <1>2. \A u, v \in Canonical :
          /\ u < v => <<u, v>> \in before
          /\ <<u, v>> \in before => <<v, u>> \notin before
    BY <1>1 DEF LifecycleInv, CanonOrder, OrderInv
  <1>3. ASSUME NEW u \in Canonical, NEW v \in Canonical
        PROVE  <<u, v>> \in before <=> u < v
    <2>1. u \in Nat /\ v \in Nat
      BY <1>1
    <2>2. CASE u < v
      BY <1>2, <2>2
    <2>3. CASE v < u
      BY <1>2, <2>1, <2>3
    <2>4. CASE u = v
      BY <1>2, <2>1, <2>4
    <2> QED
      BY <2>1, <2>2, <2>3, <2>4
  <1>4. AffectedSuffix(s) = {u \in Canonical : u >= s}
    BY <1>1, <1>3 DEF AffectedSuffix
  <1>5. p \in Canonical /\ p < s
    BY <1>1, <1>3 DEF IsPriorFinal, PriorFinals
  <1>6. ASSUME NEW u \in Canonical, u < s
        PROVE  u <= p
    <2>1. u \in PriorFinals(s)
      BY <1>1, <1>3, <1>6, CanonicalFinal DEF PriorFinals
    <2>2. u = p \/ u < p
      BY <1>1, <1>3, <1>5, <2>1 DEF IsPriorFinal
    <2> QED
      BY <1>1, <1>5, <2>2
  <1> QED
    BY <1>4, <1>5, <1>6

LEMMA RetconKeeps ==
    ASSUME LifecycleInv, NEW s \in Turns, Retcon(s)
    PROVE  LifecycleInv'
  <1> USE DEF Retcon, RetconTransaction
  <1>1. PICK p \in Turns : IsPriorFinal(p, s) /\ op' = At("rewind", p)
    OBVIOUS
  <1>2. /\ s \in Canonical /\ UNCHANGED head /\ UNCHANGED threadVars
        /\ UNCHANGED <<before, pre, final, rows, cur>>
    BY DEF threadVars
  <1>3. /\ AffectedSuffix(s) = {u \in Canonical : u >= s}
        /\ p \in Canonical /\ p < s
        /\ \A u \in Canonical : u < s => u <= p
    BY <1>1, <1>2, RetconCutsSuffix
  <1>4. /\ status' \in [Turns -> Statuses]
        /\ Canonical' = {u \in Canonical : ~(u >= s)}
    BY <1>2, <1>3 DEF LifecycleInv, TypeOK, StoreTypeOK, Statuses, Canonical
  <1>5. audit' \in SUBSET (1..MaxAttempt)
    <2>1. ASSUME NEW u \in AffectedSuffix(s)
          PROVE  AttemptOf(final[u]) \in 1..MaxAttempt
      <3>1. u \in Canonical /\ u \in Turns
        BY <1>3, <2>1 DEF Canonical
      <3>2. final[u] \in Checkpoint /\ final[u].hist # <<>>
        BY <3>1, CanonicalFinal
      <3> QED
        BY <3>2, AttemptInRange
    <2> QED
      BY <2>1 DEF LifecycleInv, TypeOK, StoreTypeOK
  <1>6. StoreTypeOK' /\ RefInv' /\ OrderInv'
    BY <1>2, <1>4, <1>5
    DEF LifecycleInv, TypeOK, StoreTypeOK, RefInv, OrderInv, Exists
  <1>7. CanonOrder' /\ CanonBacked'
    BY <1>2, <1>4 DEF LifecycleInv, CanonOrder, CanonBacked, AttemptOf
  <1>8. op' \in [at : Stages, turn : 0..MaxTurn] /\ cur' \in 0..MaxTurn
    BY <1>1, <1>2 DEF LifecycleInv, TypeOK, At, Stages, Turns
  <1>9. OpInv'
    <2>1. \A u \in Canonical : u \in Nat
      BY ThreadAssumption DEF Canonical, Turns
    <2>2. p \in Canonical' /\ \A u \in Canonical' : u <= p
      BY <1>2, <1>3, <1>4, <2>1
    <2> QED
      BY <1>1, <2>2 DEF OpInv, At
  <1> QED
    BY <1>2, <1>4, <1>6, <1>7, <1>8, <1>9, ThreadKept, CanonKept
    DEF LifecycleInv, TypeOK

LEMMA RetconRewindKeeps ==
    ASSUME LifecycleInv, RetconRewind
    PROVE  LifecycleInv'
  <1> USE DEF RetconRewind, RewindTo, Put
  <1>1. /\ op.turn \in Turns /\ op.turn \in Canonical
        /\ \A t \in Canonical : t <= op.turn
        /\ head' = final[op.turn] /\ headRef' = FALSE
        /\ UNCHANGED attempts /\ UNCHANGED cur /\ UNCHANGED storeVars
    BY DEF LifecycleInv, OpInv, Canonical
  <1>2. /\ final[op.turn] \in Checkpoint /\ final[op.turn].turn = op.turn
        /\ final[op.turn].next = "end" /\ final[op.turn].hist # <<>>
    BY <1>1, CanonicalFinal
  <1>3. headRef' \in BOOLEAN
    BY <1>1
  <1>4. ThreadTypeOK' /\ ThreadInv'
    BY <1>1, <1>2, <1>3
    DEF LifecycleInv, TypeOK, ThreadTypeOK, ThreadInv
  <1>5. CanonBehindThread'
    BY <1>1, <1>2, StoreKept DEF CanonBehindThread
  <1>6. op' \in [at : Stages, turn : 0..MaxTurn] /\ cur' \in 0..MaxTurn
    BY <1>1, ThreadAssumption DEF LifecycleInv, TypeOK, Idle, At, Stages
  <1>7. OpInv'
    BY DEF OpInv, Idle, At
  <1> QED
    BY <1>1, <1>4, <1>5, <1>6, <1>7, StoreKept DEF LifecycleInv, TypeOK

-----------------------------------------------------------------------------
(* resume_and_close.                                                       *)

LEMMA CloseTurnKeeps ==
    ASSUME LifecycleInv, CloseTurn
    PROVE  LifecycleInv'
  <1> USE DEF CloseTurn
  <1>1. /\ head.turn \in Turns
        /\ UNCHANGED head /\ UNCHANGED threadVars /\ UNCHANGED storeVars
        /\ UNCHANGED cur
        /\ \/ op' = At("close", head.turn) /\ head.next = "orator"
           \/ op' = At("commit", head.turn) /\ head.next = "end"
              /\ head.turn \notin Canonical
    BY ThreadAssumption
    DEF threadVars, LifecycleInv, TypeOK, ThreadTypeOK, Checkpoint, Turns, Canonical
  <1>2. op' \in [at : Stages, turn : 0..MaxTurn] /\ cur' \in 0..MaxTurn
    BY <1>1 DEF LifecycleInv, TypeOK, At, Stages, Turns
  <1>3. head.turn \notin Canonical /\ Canonical' = Canonical
    BY <1>1, StoreKept DEF LifecycleInv, CanonBehindThread
  <1>4. OpInv'
    BY <1>1, <1>3 DEF OpInv, At
  <1> QED
    BY <1>1, <1>2, <1>4, StoreKept, ThreadKept, CanonKept DEF LifecycleInv, TypeOK

LEMMA CloseCommitKeeps ==
    ASSUME LifecycleInv, CloseCommit
    PROVE  LifecycleInv'
  <1> USE DEF CloseCommit, CloseTransaction, UpsertRecord
  <1> DEFINE t == op.turn
  <1>1. /\ t \in Turns /\ t = head.turn /\ head.next = "end"
        /\ head \in Checkpoint /\ head.hist # <<>>
        /\ status \in [Turns -> Statuses] /\ final \in [Turns -> Checkpoint]
        /\ UNCHANGED <<head, attempts, cur, pre, audit>> /\ headRef' = TRUE
        /\ rows' = rows \cup {<<t, AttemptOf(head)>>}
        /\ final' = [final EXCEPT ![t] = head]
        /\ status' = [status EXCEPT ![t] = "complete"]
        /\ Stamp(t)
    BY ThreadAssumption
    DEF LifecycleInv, OpInv, ThreadInv, TypeOK, ThreadTypeOK, StoreTypeOK, Turns
  <1>2. /\ Canonical' = Canonical \cup {t}
        /\ \A u \in Canonical : u \in Turns /\ u <= t /\ status[u] # "absent"
    BY <1>1 DEF Canonical, LifecycleInv, CanonBehindThread
  <1>3. /\ before' \in SUBSET (Turns \X Turns) /\ OrderInv'
        /\ \A u, v \in Turns \ {t} :
             <<u, v>> \in before' <=> <<u, v>> \in before
        /\ \A u \in Turns \ {t} : status[u] # "absent" => <<u, t>> \in before'
    BY <1>1, StampFacts DEF LifecycleInv
  <1>4. headRef' \in BOOLEAN
    BY <1>1
  <1>5. ThreadTypeOK' /\ ThreadInv'
    BY <1>1, <1>4 DEF LifecycleInv, TypeOK, ThreadTypeOK, ThreadInv
  <1>6. AttemptOf(head) \in 1..MaxAttempt
    BY <1>1, AttemptInRange
  <1>7. StoreTypeOK' /\ RefInv'
    <2>1. status' \in [Turns -> Statuses]
      BY <1>1 DEF Statuses
    <2>2. final' \in [Turns -> Checkpoint]
      BY <1>1
    <2>3. rows' \in SUBSET (Turns \X (1..MaxAttempt))
      BY <1>1, <1>6 DEF LifecycleInv, TypeOK, StoreTypeOK
    <2>4. StoreTypeOK'
      BY <1>1, <1>3, <2>1, <2>2, <2>3 DEF LifecycleInv, TypeOK, StoreTypeOK
    <2>5. RefInv'
      BY <1>1 DEF LifecycleInv, RefInv, Exists
    <2> QED
      BY <2>4, <2>5
  <1>8. CanonOrder'
    <2>1. ASSUME NEW u \in Canonical', NEW v \in Canonical', u < v
          PROVE  <<u, v>> \in before'
      <3>1. u \in Turns /\ v \in Turns /\ u <= t /\ v <= t /\ u # t /\ u \in Canonical
        BY <1>1, <1>2, <2>1, ThreadAssumption DEF Turns
      <3>2. CASE v = t
        BY <1>2, <1>3, <3>1, <3>2
      <3>3. CASE v # t
        BY <1>2, <1>3, <2>1, <3>1, <3>3 DEF LifecycleInv, CanonOrder
      <3> QED
        BY <3>2, <3>3
    <2> QED
      BY <2>1 DEF CanonOrder
  <1>9. CanonBehindThread'
    BY <1>1, <1>2 DEF LifecycleInv, CanonBehindThread, Turns
  <1>10. CanonBacked'
    BY <1>1, <1>2 DEF LifecycleInv, CanonBacked, AttemptOf
  <1>11. op' \in [at : Stages, turn : 0..MaxTurn] /\ cur' \in 0..MaxTurn
    BY <1>1 DEF LifecycleInv, TypeOK, At, Stages, Turns
  <1>12. OpInv'
    BY <1>1, <1>2 DEF OpInv, At
  <1> QED
    BY <1>3, <1>5, <1>7, <1>8, <1>9, <1>10, <1>11, <1>12 DEF LifecycleInv, TypeOK

(* A step that ends an operation and changes neither database. *)
LEMMA BackToIdleKeeps ==
    ASSUME LifecycleInv, op' = Idle, cur' \in {0, cur},
           UNCHANGED threadVars, UNCHANGED storeVars
    PROVE  LifecycleInv'
  <1>1. UNCHANGED head
    BY DEF threadVars
  <1>2. op' \in [at : Stages, turn : 0..MaxTurn] /\ cur' \in 0..MaxTurn
    BY ThreadAssumption DEF LifecycleInv, TypeOK, Idle, At, Stages
  <1>3. OpInv'
    BY DEF OpInv, Idle, At
  <1> QED
    BY <1>1, <1>2, <1>3, StoreKept, ThreadKept, CanonKept DEF LifecycleInv, TypeOK

LEMMA VaultFailedKeeps ==
    ASSUME LifecycleInv, VaultFailed
    PROVE  LifecycleInv'
  <1> USE DEF VaultFailed, DemoteTurn
  <1>1. /\ status' \in [Turns -> Statuses]
        /\ UNCHANGED head /\ UNCHANGED threadVars
        /\ UNCHANGED <<before, pre, final, rows, audit, cur>>
    BY DEF LifecycleInv, TypeOK, StoreTypeOK, Statuses, threadVars
  <1>2. Canonical' \subseteq Canonical
    BY DEF Canonical, LifecycleInv, TypeOK, StoreTypeOK
  <1>3. StoreTypeOK' /\ RefInv' /\ OrderInv'
    BY <1>1 DEF LifecycleInv, TypeOK, StoreTypeOK, RefInv, OrderInv, Exists
  <1>4. CanonOrder' /\ CanonBacked'
    BY <1>1, <1>2 DEF LifecycleInv, CanonOrder, CanonBacked, AttemptOf
  <1>5. op' \in [at : Stages, turn : 0..MaxTurn] /\ cur' \in 0..MaxTurn
    BY <1>1, ThreadAssumption DEF LifecycleInv, TypeOK, Idle, At, Stages
  <1>6. OpInv'
    BY DEF OpInv, Idle, At
  <1> QED
    BY <1>1, <1>2, <1>3, <1>4, <1>5, <1>6, ThreadKept, CanonKept
    DEF LifecycleInv, TypeOK

-----------------------------------------------------------------------------
(* The steps that run by themselves. *)
LEMMA ProgressKeeps ==
    ASSUME LifecycleInv, Progress
    PROVE  LifecycleInv'
  <1>1. CASE BeginTurn
    BY <1>1, BeginTurnKeeps
  <1>2. CASE LaunchGraph
    BY <1>2, LaunchGraphKeeps
  <1>3. CASE OracleStep
    BY <1>3, OracleStepKeeps
  <1>4. CASE RulesStep
    BY <1>4, RulesStepKeeps
  <1>5. CASE BudgetStop
    BY <1>5, BudgetStopKeeps
  <1>6. CASE RecordPreNarration
    BY <1>6, RecordPreNarrationKeeps
  <1>7. CASE ReturnUnrecorded
    BY <1>7, ReturnUnrecordedKeeps
  <1>8. CASE OratorStep
    BY <1>8, OratorStepKeeps
  <1>9. CASE ArchivistStep
    BY <1>9, ArchivistStepKeeps
  <1>10. CASE RetryMark
    BY <1>10, RetryMarkKeeps
  <1>11. CASE DiscardMark
    BY <1>11, DiscardMarkKeeps
  <1>12. CASE RetconRewind
    BY <1>12, RetconRewindKeeps
  <1>13. CASE CloseCommit
    BY <1>13, CloseCommitKeeps
  <1>14. CASE CloseRollback
    BY <1>14, BackToIdleKeeps DEF CloseRollback
  <1>15. CASE VaultWritten
    BY <1>15, BackToIdleKeeps DEF VaultWritten
  <1>16. CASE VaultFailed
    BY <1>16, VaultFailedKeeps
  <1> QED
    BY <1>1, <1>2, <1>3, <1>4, <1>5, <1>6, <1>7, <1>8, <1>9, <1>10, <1>11,
       <1>12, <1>13, <1>14, <1>15, <1>16 DEF Progress

(* What the player, or a caller of resume_and_close, asks for. *)
LEMMA CommandKeeps ==
    ASSUME LifecycleInv, Command
    PROVE  LifecycleInv'
  <1>1. CASE PlayerInput
    BY <1>1, PlayerInputKeeps
  <1>2. CASE RetryRewind
    BY <1>2, RetryRewindKeeps
  <1>3. CASE DiscardRewind
    BY <1>3, DiscardRewindKeeps
  <1>4. CASE Pause
    BY <1>4, PauseKeeps
  <1>5. CASE Quit
    BY <1>5, QuitKeeps
  <1>6. CASE \E s \in Turns : Retcon(s)
    BY <1>6, RetconKeeps
  <1>7. CASE CloseTurn
    BY <1>7, CloseTurnKeeps
  <1> QED
    BY <1>1, <1>2, <1>3, <1>4, <1>5, <1>6, <1>7 DEF Command

LEMMA StutterKeeps ==
    ASSUME LifecycleInv, UNCHANGED vars
    PROVE  LifecycleInv'
  <1>1. /\ UNCHANGED threadVars /\ UNCHANGED storeVars
        /\ UNCHANGED head /\ UNCHANGED attempts /\ UNCHANGED op /\ UNCHANGED cur
    BY DEF vars, threadVars
  <1>2. Canonical' = Canonical
    BY <1>1, StoreKept
  <1>3. OpInv'
    BY <1>1, <1>2 DEF LifecycleInv, OpInv
  <1> QED
    BY <1>1, <1>2, <1>3, StoreKept, ThreadKept, CanonKept DEF LifecycleInv, TypeOK

THEOREM StepInv == LifecycleInv /\ [Next]_vars => LifecycleInv'
  <1> SUFFICES ASSUME LifecycleInv, [Next]_vars PROVE LifecycleInv'
    OBVIOUS
  <1>1. CASE Progress
    BY <1>1, ProgressKeeps
  <1>2. CASE Command
    BY <1>2, CommandKeeps
  <1>3. CASE Crash
    BY <1>3, BackToIdleKeeps DEF Crash
  <1>4. CASE UNCHANGED vars
    BY <1>4, StutterKeeps
  <1> QED
    BY <1>1, <1>2, <1>3, <1>4 DEF Next

(* The strengthened invariant holds of every behaviour. *)
THEOREM LifecycleInvariant == Spec => []LifecycleInv
  BY InitInv, StepInv, PTL DEF Spec

(***************************************************************************)
(* Type correctness: in particular, a turn is never recorded, closed or    *)
(* retconned under an id, or with an attempt, that was never played.       *)
(***************************************************************************)
THEOREM TypeCorrect == Spec => []TypeOK
  <1>1. LifecycleInv => TypeOK
    BY DEF LifecycleInv
  <1> QED
    BY <1>1, LifecycleInvariant, PTL

(* completed_at orders canon by turn id, so a retcon's suffix is a suffix. *)
THEOREM CanonIsOrdered == Spec => []CanonOrder
  <1>1. LifecycleInv => CanonOrder
    BY DEF LifecycleInv
  <1> QED
    BY <1>1, LifecycleInvariant, PTL

(* No canonical turn is ahead of the thread or still being run by it. *)
THEOREM ThreadAheadOfCanon == Spec => []CanonBehindThread
  <1>1. LifecycleInv => CanonBehindThread
    BY DEF LifecycleInv
  <1> QED
    BY <1>1, LifecycleInvariant, PTL

(* Every canonical turn has its final checkpoint and its transcript. *)
THEOREM CanonIsBacked == Spec => []CanonBacked
  <1>1. LifecycleInv => CanonBacked
    BY DEF LifecycleInv
  <1> QED
    BY <1>1, LifecycleInvariant, PTL

-----------------------------------------------------------------------------
(* The lifecycle implements CanonLog.                                      *)

LEMMA SameCanon ==
    ASSUME Canonical' = Canonical, UNCHANGED final
    PROVE  UNCHANGED CanonPairs
  BY DEF CanonPairs, AttemptOf

(* Only a close, a retcon and a failed vault write change what is canon. *)
LEMMA CanonFixed ==
    ASSUME LifecycleInv, [Next]_vars,
           ~CloseCommit, ~VaultFailed, ~(\E s \in Turns : Retcon(s))
    PROVE  UNCHANGED CanonPairs
  <1>1. CASE UNCHANGED storeVars
    <2>1. UNCHANGED final
      BY <1>1 DEF storeVars
    <2> QED
      BY <1>1, <2>1, StoreKept, SameCanon
  <1>2. CASE BeginTurn
    <2>1. op.turn \in Turns
      BY <1>2 DEF BeginTurn, LifecycleInv, OpInv
    <2>2. Canonical' = Canonical /\ UNCHANGED final
      BY <1>2, <2>1
      DEF BeginTurn, EnsureTurnRecord, UpsertRecord, LifecycleInv, TypeOK,
          StoreTypeOK, Canonical
    <2> QED
      BY <2>2, SameCanon
  <1>3. CASE RecordPreNarration
    <2>1. Canonical' = Canonical /\ UNCHANGED final
      BY <1>3 DEF RecordPreNarration, AppendPreNarration, Canonical
    <2> QED
      BY <2>1, SameCanon
  <1>4. ASSUME NEW s \in {"retried", "discarded"}, MarkTurn(op.turn, s),
               op.at \in {"mark_retried", "mark_discarded"}
        PROVE  UNCHANGED CanonPairs
    <2>1. op.turn \in Turns /\ op.turn \notin Canonical
      BY <1>4 DEF LifecycleInv, OpInv, CanonBehindThread
    <2>2. Canonical' = Canonical
      BY <1>4, <2>1, MarkTurnKeeps DEF Statuses
    <2>3. UNCHANGED final
      BY <1>4 DEF MarkTurn
    <2> QED
      BY <2>2, <2>3, SameCanon
  <1>5. CASE RetryMark
    BY <1>4, <1>5 DEF RetryMark
  <1>6. CASE DiscardMark
    BY <1>4, <1>6 DEF DiscardMark
  <1>7. \/ UNCHANGED storeVars \/ BeginTurn \/ RecordPreNarration
        \/ RetryMark \/ DiscardMark
    <2>1. CASE Progress
      BY <2>1
      DEF Progress, LaunchGraph, OracleStep, RulesStep, BudgetStop,
          ReturnUnrecorded, OratorStep, ArchivistStep, RetconRewind,
          CloseRollback, VaultWritten
    <2>2. CASE Command
      BY <2>2
      DEF Command, PlayerInput, RetryRewind, DiscardRewind, Pause, Quit, CloseTurn
    <2>3. CASE Crash \/ UNCHANGED vars
      BY <2>3 DEF Crash, vars
    <2> QED
      BY <2>1, <2>2, <2>3 DEF Next
  <1> QED
    BY <1>1, <1>2, <1>3, <1>5, <1>6, <1>7

(* A commit closes a turn later than every canonical one. *)
LEMMA CommitCloses ==
    ASSUME LifecycleInv, CloseCommit
    PROVE  Log!CanonNext
  <1> DEFINE t == op.turn
  <1>1. /\ t \in Turns /\ t = head.turn /\ t \notin Canonical
        /\ head \in Checkpoint /\ head.hist # <<>>
        /\ status \in [Turns -> Statuses] /\ final \in [Turns -> Checkpoint]
        /\ final' = [final EXCEPT ![t] = head]
        /\ status' = [status EXCEPT ![t] = "complete"]
    BY ThreadAssumption
    DEF CloseCommit, CloseTransaction, UpsertRecord, LifecycleInv, OpInv, ThreadInv,
        TypeOK, ThreadTypeOK, StoreTypeOK, Turns
  <1>2. AttemptOf(head) \in 1..MaxAttempt
    BY <1>1, AttemptInRange
  <1>3. Canonical' = Canonical \cup {t} /\ \A u \in Canonical : u \in Turns /\ u < t
    BY <1>1, ThreadAssumption
    DEF Canonical, LifecycleInv, CanonBehindThread, Turns
  <1>4. \A u \in Canonical : final'[u] = final[u]
    BY <1>1, <1>3
  <1>5. final'[t] = head
    BY <1>1
  <1>6. CanonPairs' = CanonPairs \cup {<<t, AttemptOf(head)>>}
    BY <1>1, <1>3, <1>4, <1>5 DEF CanonPairs, AttemptOf
  <1>7. \A c \in CanonPairs : c[1] < t
    BY <1>3 DEF CanonPairs
  <1>8. Log!Close(t, AttemptOf(head))
    BY <1>6, <1>7 DEF Log!Close
  <1> QED
    BY <1>1, <1>2, <1>8 DEF Log!CanonNext

(* A retcon cuts the suffix that begins at the selected turn. *)
LEMMA RetconCuts ==
    ASSUME LifecycleInv, NEW s \in Turns, Retcon(s)
    PROVE  Log!CanonNext
  <1>1. PICK p \in Turns : IsPriorFinal(p, s)
    BY DEF Retcon
  <1>2. s \in Canonical /\ UNCHANGED final
    BY DEF Retcon, RetconTransaction
  <1>3. /\ AffectedSuffix(s) = {u \in Canonical : u >= s}
        /\ p \in Canonical /\ p < s
    BY <1>1, <1>2, RetconCutsSuffix
  <1>4. \A u \in Canonical : u \in Turns /\ u \in Nat
    BY CanonicalFinal
  <1>5. Canonical' = {u \in Canonical : u < s}
    <2>1. Canonical' = {u \in Canonical : ~(u >= s)}
      BY <1>3
      DEF Retcon, RetconTransaction, LifecycleInv, TypeOK, StoreTypeOK, Canonical
    <2> QED
      BY <1>2, <1>4, <2>1
  <1>6. CanonPairs' = {c \in CanonPairs : c[1] < s}
    BY <1>2, <1>5 DEF CanonPairs, AttemptOf
  <1>7. s \in Log!TurnsOf(CanonPairs) /\ \E c \in CanonPairs : c[1] < s
    <2> DEFINE Pair(u) == <<u, AttemptOf(final[u])>>
    <2>1. Pair(s) \in CanonPairs /\ Pair(p) \in CanonPairs
      BY <1>2, <1>3 DEF CanonPairs
    <2>2. Pair(s)[1] = s /\ Pair(p)[1] = p
      OBVIOUS
    <2> HIDE DEF Pair
    <2> QED
      BY <1>3, <2>1, <2>2 DEF Log!TurnsOf
  <1>8. Log!Retcon(s)
    BY <1>6, <1>7 DEF Log!Retcon
  <1> QED
    BY <1>8 DEF Log!CanonNext

(* A failed vault write withdraws the last canonical turn. *)
LEMMA DemotionWithdraws ==
    ASSUME LifecycleInv, VaultFailed
    PROVE  Log!CanonNext
  <1> DEFINE t == op.turn
  <1>1. /\ t \in Turns /\ t \in Canonical /\ t = head.turn
        /\ status \in [Turns -> Statuses]
        /\ status' = [status EXCEPT ![t] = "needs_vault_repair"]
        /\ UNCHANGED final
    BY DEF VaultFailed, DemoteTurn, LifecycleInv, OpInv, TypeOK, StoreTypeOK
  <1>2. \A u \in Canonical : u \in Turns /\ u <= t
    BY <1>1 DEF Canonical, LifecycleInv, CanonBehindThread
  <1>3. Canonical' = Canonical \ {t}
    BY <1>1 DEF Canonical
  <1>4. CanonPairs' = {c \in CanonPairs : c[1] # t}
    BY <1>1, <1>3 DEF CanonPairs, AttemptOf
  <1>5. t \in Log!TurnsOf(CanonPairs)
    <2> DEFINE pair == <<t, AttemptOf(final[t])>>
    <2>1. pair \in CanonPairs /\ pair[1] = t
      BY <1>1 DEF CanonPairs
    <2> HIDE DEF pair
    <2> QED
      BY <2>1 DEF Log!TurnsOf
  <1>6. \A c \in CanonPairs : c[1] <= t
    BY <1>2 DEF CanonPairs
  <1>7. Log!Withdraw(t)
    BY <1>4, <1>5, <1>6 DEF Log!Withdraw
  <1> QED
    BY <1>1, <1>7 DEF Log!CanonNext

(***************************************************************************)
(* Canon is a history: every step of the lifecycle appends to its end,     *)
(* cuts a proper suffix off it, withdraws its last turn or leaves it alone.*)
(***************************************************************************)
THEOREM CanonIsALog == Spec => ImplementsCanonLog
  <1>1. Init => Log!CanonInit
    <2> SUFFICES ASSUME Init PROVE CanonPairs = {}
      BY DEF Log!CanonInit
    <2>1. Canonical = {}
      BY DEF Init, StoreInit, Canonical
    <2> QED
      BY <2>1 DEF CanonPairs
  <1>2. LifecycleInv /\ [Next]_vars => [Log!CanonNext]_CanonPairs
    BY CanonFixed, CommitCloses, RetconCuts, DemotionWithdraws
  <1> QED
    BY <1>1, <1>2, LifecycleInvariant, PTL DEF Spec, ImplementsCanonLog, Log!CanonSpec
-----------------------------------------------------------------------------
(***************************************************************************)
(* The story of a campaign played without encounters, for every number of  *)
(* turns and attempts: canon is one story, rewinds lose no mechanics, and, *)
(* unless the process dies between the two commits of a retcon, what a     *)
(* retcon removed never comes back.                                        *)
(*                                                                         *)
(* These are properties of hist, the attempts a checkpoint was built from. *)
(* hist only grows by attempts never used before (FreshInv), the history   *)
(* of every canonical turn is a prefix of it, and a later canonical turn   *)
(* has the longer prefix (StoryInv).                                       *)
(***************************************************************************)

(* Without encounters every checkpoint between the Oracle and the Orator   *)
(* has a memory packet.                                                    *)
Packed(c) == c.combat = "none" /\ (c.next \in {"rules_lawyer", "orator"} => c.mem)

PackedInv == Packed(head) /\ \A t \in Turns : Packed(pre[t]) /\ Packed(final[t])

(* A turn the player could retry or discard is at its recorded snapshot. *)
PausedInv ==
    op.at \in {"idle", "mark_retried", "mark_discarded"} /\ HasIncompleteNarration =>
        pre[cur] = head

(* Attempts are numbered, and enter the history in their order. *)
FreshInv ==
    /\ \A i \in 1..Len(head.hist) : head.hist[i] <= attempts
    /\ \A i, j \in 1..Len(head.hist) : i < j => head.hist[i] < head.hist[j]

(* The history of c begins with that of b. *)
BuiltOn(c, b) ==
    /\ Len(b.hist) <= Len(c.hist)
    /\ \A i \in 1..Len(b.hist) : b.hist[i] = c.hist[i]

(* One story, told in order. *)
StoryInv ==
    /\ \A t \in Canonical : BuiltOn(head, final[t])
    /\ \A t \in Canonical : t < head.turn => Len(final[t].hist) < Len(head.hist)
    /\ \A u, v \in Canonical : u < v => Len(final[u].hist) < Len(final[v].hist)

(* What the thread holds, or will hold after the rewind of a retcon, was   *)
(* not built on a retconned attempt.                                       *)
ErasedInv ==
    /\ \A a \in audit : a <= attempts
    /\ op.at # "rewind" => \A i \in 1..Len(head.hist) : head.hist[i] \notin audit
    /\ op.at = "rewind" =>
         \A i \in 1..Len(final[op.turn].hist) : final[op.turn].hist[i] \notin audit

-----------------------------------------------------------------------------
(* The snapshot the player looks at.                                       *)

LEMMA PackedStep ==
    ASSUME Encounters = FALSE, LifecycleInv, PackedInv, [Next]_vars
    PROVE  PackedInv'
  <1> USE DEF PackedInv, Packed
  <1>1. /\ head \in Checkpoint /\ pre \in [Turns -> Checkpoint] /\ final \in [Turns -> Checkpoint]
    BY DEF LifecycleInv, TypeOK, ThreadTypeOK, StoreTypeOK
  <1>2. /\ op.at = "rewind" => op.turn \in Turns
        /\ op.at = "commit" => op.turn \in Turns
    BY DEF LifecycleInv, OpInv, Canonical
  <1>3. CASE UNCHANGED <<head, pre, final>>
    BY <1>3
  <1>4. CASE LaunchGraph
    BY <1>4 DEF LaunchGraph, StartGraph, Put, EntryNode, storeVars
  <1>5. CASE OracleStep \/ RulesStep \/ OratorStep \/ ArchivistStep
    <2>1. UNCHANGED <<pre, final>>
      BY <1>5 DEF OracleStep, RulesStep, OratorStep, ArchivistStep, storeVars
    <2>2. CASE OracleStep
      BY <1>1, <2>1, <2>2 DEF OracleStep, Oracle, Put, Checkpoint
    <2>3. CASE RulesStep
      <3>1. PICK d \in CombatAfter("none") : head' = [head EXCEPT !.combat = d, !.next = "orator"]
        BY <2>3 DEF RulesStep, RulesLawyer, Put
      <3>2. d = "none" /\ head.mem
        BY <2>3, <3>1 DEF CombatAfter, RulesStep, RulesLawyer
      <3> QED
        BY <1>1, <2>1, <3>1, <3>2 DEF Checkpoint
    <2>4. CASE OratorStep \/ ArchivistStep
      BY <1>1, <2>1, <2>4 DEF OratorStep, Orator, ArchivistStep, Archivist, Put, Checkpoint
    <2> QED
      BY <1>5, <2>2, <2>3, <2>4
  <1>6. CASE BudgetStop \/ Pause \/ Quit
    BY <1>1, <1>6 DEF BudgetStop, Pause, Quit, PostInterrupt, Put, storeVars, Checkpoint
  <1>7. CASE RecordPreNarration
    BY <1>1, <1>7 DEF RecordPreNarration, AppendPreNarration
  <1>8. CASE RetryRewind \/ DiscardRewind
    <2>1. /\ head' = pre[cur] /\ cur \in Turns /\ UNCHANGED <<pre, final>>
      BY <1>8, RewindToPreKeeps DEF RetryRewind, DiscardRewind, RewindTo, Put, storeVars
    <2> QED
      BY <2>1
  <1>9. CASE RetconRewind
    BY <1>2, <1>9 DEF RetconRewind, RewindTo, Put, storeVars
  <1>10. CASE CloseCommit
    BY <1>1, <1>2, <1>10 DEF CloseCommit, CloseTransaction
  <1>11. CASE PlayerInput \/ ReturnUnrecorded \/ CloseTurn \/ CloseRollback \/ VaultWritten
              \/ Crash \/ UNCHANGED vars
    BY <1>3, <1>11
    DEF PlayerInput, ReturnUnrecorded, CloseTurn, CloseRollback, VaultWritten, Crash,
        threadVars, storeVars, vars
  <1>12. CASE BeginTurn \/ RetryMark \/ DiscardMark \/ VaultFailed \/ (\E s \in Turns : Retcon(s))
    BY <1>3, <1>12
    DEF BeginTurn, EnsureTurnRecord, RetryMark, DiscardMark, MarkTurn, VaultFailed, DemoteTurn,
        Retcon, RetconTransaction, threadVars
  <1> QED
    BY <1>4, <1>5, <1>6, <1>7, <1>8, <1>9, <1>10, <1>11, <1>12 DEF Next, Progress, Command

(* The turn a returning operation leaves cannot be retried, or is at its   *)
(* snapshot.                                                               *)
LEMMA PausedStep ==
    ASSUME LifecycleInv, PackedInv, PausedInv, [Next]_vars
    PROVE  PausedInv'
  <1> USE DEF PausedInv, HasIncompleteNarration
  <1>1. CASE BeginTurn \/ LaunchGraph \/ OracleStep \/ RulesStep \/ OratorStep
             \/ RetryMark \/ PlayerInput \/ CloseTurn \/ CloseCommit \/ (\E s \in Turns : Retcon(s))
    <2>1. op'.at \notin {"idle", "mark_retried", "mark_discarded"}
      BY <1>1
      DEF BeginTurn, LaunchGraph, OracleStep, RulesStep, OratorStep, RetryMark, PlayerInput,
          CloseTurn, CloseCommit, Retcon, At
    <2> QED
      BY <2>1
  <1>2. CASE BudgetStop \/ Pause \/ Quit
    <2>1. head'.next = "end"
      BY <1>2
      DEF BudgetStop, Pause, Quit, PostInterrupt, Put, LifecycleInv, TypeOK, ThreadTypeOK, Checkpoint
    <2> QED
      BY <2>1
  <1>3. CASE RecordPreNarration
    <2>1. pre' = [pre EXCEPT ![op.turn] = head] /\ cur' = op.turn /\ head' = head
      BY <1>3 DEF RecordPreNarration, AppendPreNarration, EndInput
    <2>2. op.turn \in Turns /\ pre \in [Turns -> Checkpoint]
      BY <1>3 DEF RecordPreNarration, LifecycleInv, OpInv, TypeOK, StoreTypeOK
    <2> QED
      BY <2>1, <2>2
  <1>4. CASE ReturnUnrecorded
    <2>1. head' = head /\ head.next = "end"
      BY <1>4 DEF ReturnUnrecorded, PackedInv, Packed, threadVars
    <2> QED
      BY <2>1
  <1>5. CASE ArchivistStep
    <2>1. head'.next = "end"
      BY <1>5 DEF ArchivistStep, Archivist, Put, LifecycleInv, TypeOK, ThreadTypeOK, Checkpoint
    <2> QED
      BY <2>1
  <1>6. CASE RetryRewind \/ DiscardRewind
    <2>1. head' = pre[cur] /\ pre' = pre /\ cur' = cur
      BY <1>6 DEF RetryRewind, DiscardRewind, RewindTo, Put, storeVars
    <2> QED
      BY <2>1
  <1>7. CASE DiscardMark
    <2>1. op.at = "mark_discarded" /\ head' = head /\ pre' = pre /\ cur' = cur
      BY <1>7 DEF DiscardMark, MarkTurn, threadVars
    <2> QED
      BY <2>1
  <1>8. CASE RetconRewind
    <2>1. op.turn \in Canonical /\ head' = final[op.turn]
      BY <1>8 DEF RetconRewind, RewindTo, Put, LifecycleInv, OpInv
    <2>2. head'.next = "end"
      BY <2>1, CanonicalFinal
    <2> QED
      BY <2>2
  <1>9. CASE CloseRollback \/ VaultWritten \/ VaultFailed
    <2>1. head' = head /\ head.next = "end"
      BY <1>9
      DEF CloseRollback, VaultWritten, VaultFailed, threadVars, LifecycleInv, OpInv,
          CanonBehindThread
    <2> QED
      BY <2>1
  <1>10. CASE Crash
    BY <1>10 DEF Crash
  <1>11. CASE UNCHANGED vars
    BY <1>11 DEF vars, threadVars, storeVars
  <1> QED
    BY <1>1, <1>2, <1>3, <1>4, <1>5, <1>6, <1>7, <1>8, <1>9, <1>10, <1>11
    DEF Next, Progress, Command

(* Without encounters a rewind to the pre-narration snapshot finds the     *)
(* thread there.                                                           *)
LEMMA RewindsStay ==
    ASSUME PausedInv, RetryRewind \/ DiscardRewind
    PROVE  head' = head
  BY DEF PausedInv, RetryRewind, DiscardRewind, RewindTo, Put, Idle, At

-----------------------------------------------------------------------------
(* What a step does to the history, to canon and to the audit.             *)

(* A step that writes no history and makes no turn canonical. *)
Quiet ==
    /\ head'.hist = head.hist /\ head'.turn = head.turn /\ attempts' = attempts
    /\ final' = final /\ audit' = audit /\ Canonical' \subseteq Canonical
    /\ op'.at = "rewind" => op' = op
    /\ op.at = "rewind" => op' = op

LEMMA StepKinds ==
    ASSUME LifecycleInv, PausedInv, [Next]_vars
    PROVE  Quiet \/ Crash \/ LaunchGraph \/ CloseCommit \/ RetconRewind
           \/ \E s \in Turns : Retcon(s)
  <1> USE DEF Quiet
  <1>1. /\ head \in Checkpoint /\ status \in [Turns -> Statuses]
    BY DEF LifecycleInv, TypeOK, ThreadTypeOK, StoreTypeOK
  <1>2. CASE OracleStep \/ RulesStep \/ OratorStep \/ ArchivistStep
    <2>1. /\ UNCHANGED storeVars /\ UNCHANGED attempts
          /\ head'.hist = head.hist /\ head'.turn = head.turn
      <3>1. CASE OracleStep
        <4>1. PICK n \in {"rules_lawyer", "end"} :
                head' = [head EXCEPT !.mem = TRUE, !.next = n]
          BY <3>1 DEF OracleStep, Oracle, Put
        <4> QED
          BY <1>1, <3>1, <4>1 DEF OracleStep, Oracle, Checkpoint
      <3>2. CASE RulesStep
        <4>1. PICK d \in CombatAfter(head.combat) :
                head' = [head EXCEPT !.combat = d, !.next = "orator"]
          BY <3>2 DEF RulesStep, RulesLawyer, Put
        <4> QED
          BY <1>1, <3>2, <4>1 DEF RulesStep, RulesLawyer, Checkpoint
      <3>3. CASE OratorStep \/ ArchivistStep
        BY <1>1, <3>3 DEF OratorStep, Orator, ArchivistStep, Archivist, Put, Checkpoint
      <3> QED
        BY <1>2, <3>1, <3>2, <3>3
    <2>2. op.at # "rewind" /\ op'.at # "rewind"
      BY <1>2 DEF OracleStep, RulesStep, OratorStep, ArchivistStep, Idle, At
    <2> QED
      BY <2>1, <2>2 DEF storeVars, Canonical
  <1>3. CASE BudgetStop \/ Pause \/ Quit
    BY <1>1, <1>3
    DEF BudgetStop, Pause, Quit, PostInterrupt, EndInput, Put, storeVars, Canonical, Checkpoint,
        Idle, At
  <1>4. CASE RecordPreNarration \/ ReturnUnrecorded
    BY <1>4
    DEF RecordPreNarration, AppendPreNarration, ReturnUnrecorded, EndInput, threadVars, storeVars,
        Canonical, Idle, At
  <1>5. CASE RetryRewind \/ DiscardRewind
    <2>1. head' = head
      BY <1>5, RewindsStay
    <2> QED
      BY <1>5, <2>1
      DEF RetryRewind, DiscardRewind, RewindTo, storeVars, Canonical, Idle, At
  <1>6. CASE RetryMark \/ DiscardMark
    <2>1. op.turn \in Turns
      BY <1>6 DEF RetryMark, DiscardMark, LifecycleInv, OpInv
    <2>2. PICK s \in {"retried", "discarded"} : status' = [status EXCEPT ![op.turn] = s]
      BY <1>6 DEF RetryMark, DiscardMark, MarkTurn, UpsertRecord
    <2>3. Canonical' \subseteq Canonical
      BY <1>1, <2>1, <2>2 DEF Canonical
    <2> QED
      BY <1>6, <2>3 DEF RetryMark, DiscardMark, MarkTurn, threadVars, Idle, At
  <1>7. CASE BeginTurn
    <2>1. op.turn \in Turns
      BY <1>7 DEF BeginTurn, LifecycleInv, OpInv
    <2>2. status' = status \/ status' = [status EXCEPT ![op.turn] = "needs_vault_repair"]
      BY <1>7 DEF BeginTurn, EnsureTurnRecord, UpsertRecord
    <2>3. Canonical' \subseteq Canonical
      BY <1>1, <2>1, <2>2 DEF Canonical
    <2> QED
      BY <1>7, <2>3 DEF BeginTurn, EnsureTurnRecord, threadVars, At
  <1>8. CASE VaultFailed
    <2>1. Canonical' \subseteq Canonical
      BY <1>1, <1>8 DEF VaultFailed, DemoteTurn, Canonical
    <2> QED
      BY <1>8, <2>1 DEF VaultFailed, DemoteTurn, threadVars, Idle, At
  <1>9. CASE PlayerInput \/ CloseTurn \/ CloseRollback \/ VaultWritten
    BY <1>9
    DEF PlayerInput, CloseTurn, CloseRollback, VaultWritten, threadVars, storeVars, Canonical,
        Idle, At
  <1>10. CASE UNCHANGED vars
    BY <1>10 DEF vars, threadVars, storeVars, Canonical
  <1> QED
    BY <1>2, <1>3, <1>4, <1>5, <1>6, <1>7, <1>8, <1>9, <1>10 DEF Next, Progress, Command

(* Histories are sequences of attempts. *)
LEMMA Histories ==
    ASSUME LifecycleInv
    PROVE  /\ head.hist \in Seq(Nat) /\ Len(head.hist) \in Nat /\ attempts \in Nat
           /\ \A i \in 1..Len(head.hist) : head.hist[i] \in Nat
           /\ \A t \in Canonical :
                /\ t \in Turns /\ t \in Nat /\ t <= head.turn /\ head.turn \in Nat
                /\ final[t].hist \in Seq(Nat) /\ Len(final[t].hist) \in Nat
                /\ Len(final[t].hist) # 0
  <1>1. ASSUME NEW c \in Checkpoint
        PROVE  /\ c.hist \in Seq(Nat) /\ Len(c.hist) \in Nat /\ c.turn \in Nat
               /\ \A i \in 1..Len(c.hist) : c.hist[i] \in Nat
               /\ c.hist # <<>> => Len(c.hist) # 0
    <2>1. c.hist \in Seq(1..MaxAttempt) /\ c.turn \in Nat
      BY ThreadAssumption DEF Checkpoint
    <2>2. \A i \in 1..Len(c.hist) : c.hist[i] \in 1..MaxAttempt
      BY <2>1, ElementOfSeq
    <2>3. c.hist \in Seq(Nat)
      BY <2>1, <2>2
    <2> QED
      BY <2>1, <2>2, <2>3, EmptySeq, LenProperties
  <1>2. head \in Checkpoint /\ attempts \in Nat
    BY ThreadAssumption DEF LifecycleInv, TypeOK, ThreadTypeOK
  <1>3. ASSUME NEW t \in Canonical
        PROVE  t <= head.turn /\ t \in Turns /\ t \in Nat /\ final[t] \in Checkpoint
               /\ final[t].hist # <<>>
    BY CanonicalFinal DEF LifecycleInv, CanonBehindThread
  <1> QED
    BY <1>1, <1>2, <1>3

LEMMA StoryStep ==
    ASSUME LifecycleInv, PausedInv, FreshInv, StoryInv, [Next]_vars
    PROVE  FreshInv' /\ StoryInv'
  <1> USE DEF FreshInv, StoryInv, BuiltOn
  <1>1. CASE /\ head'.hist = head.hist /\ head'.turn = head.turn /\ attempts' = attempts
             /\ final' = final /\ Canonical' \subseteq Canonical
    BY <1>1
  <1>2. CASE Crash
    BY <1>1, <1>2 DEF Crash, threadVars, storeVars, Canonical
  <1>3. CASE LaunchGraph
    <2> DEFINE h == head.hist
    <2>1. /\ attempts' = attempts + 1 /\ head'.hist = Append(h, attempts + 1)
          /\ head'.turn = op.turn /\ op.turn = head.turn + 1
          /\ final' = final /\ Canonical' = Canonical
      BY <1>3
      DEF LaunchGraph, StartGraph, Put, storeVars, Canonical, LifecycleInv, OpInv
    <2>2. /\ Len(head'.hist) = Len(h) + 1 /\ head'.hist[Len(h) + 1] = attempts + 1
          /\ \A i \in 1..Len(h) : head'.hist[i] = h[i]
      BY <2>1, Histories, AppendProperties
    <2>3. FreshInv'
      <3>1. ASSUME NEW i \in 1..Len(head'.hist)
            PROVE  head'.hist[i] <= attempts'
        <4>1. CASE i \in 1..Len(h)
          BY <2>1, <2>2, <4>1, Histories
        <4>2. CASE i = Len(h) + 1
          BY <2>1, <2>2, <4>2, Histories
        <4> QED
          BY <2>2, <4>1, <4>2, Histories
      <3>2. ASSUME NEW i \in 1..Len(head'.hist), NEW j \in 1..Len(head'.hist), i < j
            PROVE  head'.hist[i] < head'.hist[j]
        <4>1. i \in 1..Len(h)
          BY <2>2, <3>2, Histories
        <4>2. CASE j \in 1..Len(h)
          BY <2>2, <3>2, <4>1, <4>2
        <4>3. CASE j = Len(h) + 1
          <5>1. h[i] <= attempts /\ h[i] \in Nat /\ attempts \in Nat
            BY <4>1, Histories
          <5>2. head'.hist[i] = h[i] /\ head'.hist[j] = attempts + 1
            BY <2>2, <4>1, <4>3
          <5> QED
            BY <5>1, <5>2
        <4> QED
          BY <2>2, <4>2, <4>3, Histories
      <3> QED
        BY <3>1, <3>2
    <2>4. ASSUME NEW t \in Canonical
          PROVE  /\ Len(final[t].hist) < Len(head'.hist)
                 /\ \A i \in 1..Len(final[t].hist) : head'.hist[i] = final[t].hist[i]
      <3>1. /\ Len(final[t].hist) <= Len(h) /\ Len(final[t].hist) \in Nat /\ Len(h) \in Nat
            /\ \A i \in 1..Len(final[t].hist) : final[t].hist[i] = h[i]
        BY Histories
      <3>2. \A i \in 1..Len(final[t].hist) : i \in 1..Len(h)
        BY <3>1
      <3> QED
        BY <2>2, <3>1, <3>2
    <2>5. ASSUME NEW t \in Canonical
          PROVE  BuiltOn(head', final'[t])
      BY <2>1, <2>4, Histories
    <2> QED
      BY <2>1, <2>3, <2>4, <2>5
  <1>4. CASE CloseCommit
    <2>1. /\ op.turn = head.turn /\ op.turn \in Turns /\ op.turn \notin Canonical
          /\ head' = head /\ attempts' = attempts
          /\ final' = [final EXCEPT ![op.turn] = head]
          /\ status' = [status EXCEPT ![op.turn] = "complete"]
          /\ final \in [Turns -> Checkpoint] /\ status \in [Turns -> Statuses]
      BY <1>4
      DEF CloseCommit, CloseTransaction, UpsertRecord, LifecycleInv, OpInv, TypeOK, StoreTypeOK
    <2>2. Canonical' = Canonical \cup {op.turn}
      BY <2>1 DEF Canonical
    <2>3. \A t \in Canonical : final'[t] = final[t] /\ t < head.turn
      BY <2>1, Histories
    <2>4. final'[op.turn] = head /\ op.turn \in Nat
      BY <2>1, ThreadAssumption DEF Turns
    <2>5. FreshInv'
      BY <2>1
    <2>6. /\ \A t \in Canonical' : BuiltOn(head, final[t])'
          /\ \A t \in Canonical' : t < head'.turn => Len(final'[t].hist) < Len(head'.hist)
      BY <2>1, <2>2, <2>3, <2>4, Histories
    <2>7. ASSUME NEW u \in Canonical', NEW v \in Canonical', u < v
          PROVE  Len(final'[u].hist) < Len(final'[v].hist)
      BY <2>1, <2>2, <2>3, <2>4, <2>7, Histories
    <2> QED
      BY <2>5, <2>6, <2>7
  <1>5. CASE RetconRewind
    <2> DEFINE p == op.turn
    <2>1. /\ p \in Canonical /\ \A t \in Canonical : t <= p
          /\ head' = final[p] /\ final' = final /\ attempts' = attempts
          /\ Canonical' = Canonical /\ head'.turn = p
      BY <1>5, CanonicalFinal
      DEF RetconRewind, RewindTo, Put, storeVars, Canonical, LifecycleInv, OpInv
    <2>2. /\ Len(head'.hist) <= Len(head.hist)
          /\ \A i \in 1..Len(head'.hist) : head'.hist[i] = head.hist[i]
      BY <2>1
    <2>3. Len(head'.hist) \in Nat /\ Len(head.hist) \in Nat
      BY <2>1, Histories
    <2>4. \A i \in 1..Len(head'.hist) : i \in 1..Len(head.hist)
      BY <2>2, <2>3
    <2>5. FreshInv'
      BY <2>1, <2>2, <2>4
    <2>6. ASSUME NEW t \in Canonical, t < p
          PROVE  /\ Len(final[t].hist) < Len(head'.hist)
                 /\ \A i \in 1..Len(final[t].hist) : final[t].hist[i] = head'.hist[i]
      <3>1. /\ Len(final[t].hist) < Len(head'.hist) /\ Len(final[t].hist) \in Nat
            /\ \A i \in 1..Len(final[t].hist) : final[t].hist[i] = head.hist[i]
        BY <2>1, <2>6, Histories
      <3>2. \A i \in 1..Len(final[t].hist) : i \in 1..Len(head'.hist)
        BY <2>3, <3>1
      <3> QED
        BY <2>2, <3>1, <3>2
    <2>7. ASSUME NEW t \in Canonical PROVE t < p \/ t = p
      BY <2>1, Histories
    <2>8. ASSUME NEW t \in Canonical PROVE BuiltOn(head', final[t])
      <3>1. CASE t < p
        BY <2>3, <2>6, <3>1, Histories
      <3>2. CASE t = p
        BY <2>1, <2>3, <3>2
      <3> QED
        BY <2>7, <3>1, <3>2
    <2>9. \A t \in Canonical : t < head'.turn => Len(final[t].hist) < Len(head'.hist)
      BY <2>1, <2>6
    <2> QED
      BY <2>1, <2>5, <2>8, <2>9
  <1>6. CASE \E s \in Turns : Retcon(s)
    BY <1>1, <1>6
    DEF Retcon, RetconTransaction, threadVars, Canonical
  <1> QED
    BY <1>1, <1>2, <1>3, <1>4, <1>5, <1>6, StepKinds DEF Quiet

-----------------------------------------------------------------------------
(* What a retcon removed.                                                  *)

(* The attempt of a canonical turn stands in the history where its         *)
(* checkpoint ends.                                                        *)
LEMMA AttemptsInHistory ==
    ASSUME LifecycleInv, StoryInv, NEW t \in Canonical
    PROVE  /\ Len(final[t].hist) \in 1..Len(head.hist)
           /\ AttemptOf(final[t]) = head.hist[Len(final[t].hist)]
  <1>1. /\ Len(final[t].hist) \in Nat /\ Len(final[t].hist) # 0 /\ Len(head.hist) \in Nat
    BY Histories
  <1>2. /\ Len(final[t].hist) <= Len(head.hist)
        /\ \A i \in 1..Len(final[t].hist) : final[t].hist[i] = head.hist[i]
    BY DEF StoryInv, BuiltOn
  <1>3. Len(final[t].hist) \in 1..Len(final[t].hist)
    BY <1>1
  <1> QED
    BY <1>1, <1>2, <1>3 DEF AttemptOf

(* Without a crash between its two commits a retcon removes for good. *)
LEMMA ErasedStep ==
    ASSUME "rewind" \notin CrashPoints,
           LifecycleInv, PausedInv, FreshInv, StoryInv, ErasedInv, [Next]_vars
    PROVE  ErasedInv'
  <1> DEFINE h == head.hist
  <1>1. CASE Quiet
    BY <1>1 DEF Quiet, ErasedInv
  <1>2. CASE Crash
    <2>1. UNCHANGED <<head, audit, attempts>> /\ op.at # "rewind" /\ op'.at # "rewind"
      BY <1>2 DEF Crash, threadVars, storeVars, Idle, At
    <2> QED
      BY <2>1 DEF ErasedInv
  <1>3. CASE LaunchGraph
    <2>1. /\ attempts' = attempts + 1 /\ head'.hist = Append(h, attempts + 1)
          /\ audit' = audit /\ op.at # "rewind" /\ op'.at # "rewind"
      BY <1>3 DEF LaunchGraph, StartGraph, Put, storeVars, At
    <2>2. \A a \in audit : a \in Nat /\ a <= attempts
      <3>1. audit \in SUBSET (1..MaxAttempt)
        BY DEF LifecycleInv, TypeOK, StoreTypeOK
      <3> QED
        BY <3>1, ThreadAssumption DEF ErasedInv
    <2>3. attempts \in Nat /\ Len(h) \in Nat /\ h \in Seq(Nat)
      BY Histories
    <2>4. /\ Len(head'.hist) = Len(h) + 1 /\ head'.hist[Len(h) + 1] = attempts + 1
          /\ \A i \in 1..Len(h) : head'.hist[i] = h[i]
      BY <2>1, <2>3, AppendProperties
    <2>5. ASSUME NEW i \in 1..Len(head'.hist) PROVE head'.hist[i] \notin audit
      <3>1. CASE i \in 1..Len(h)
        BY <2>1, <2>4, <3>1 DEF ErasedInv
      <3>2. CASE i = Len(h) + 1
        BY <2>2, <2>3, <2>4, <3>2
      <3> QED
        BY <2>3, <2>4, <3>1, <3>2
    <2>6. \A a \in audit' : a <= attempts'
      BY <2>1, <2>2, <2>3
    <2> QED
      BY <2>1, <2>5, <2>6 DEF ErasedInv
  <1>4. CASE CloseCommit
    <2>1. UNCHANGED <<head, audit, attempts>> /\ op.at # "rewind" /\ op'.at # "rewind"
      BY <1>4 DEF CloseCommit, CloseTransaction, At
    <2> QED
      BY <2>1 DEF ErasedInv
  <1>5. CASE RetconRewind
    <2>1. /\ op.at = "rewind" /\ op'.at # "rewind" /\ head' = final[op.turn]
          /\ audit' = audit /\ attempts' = attempts
      BY <1>5 DEF RetconRewind, RewindTo, Put, storeVars, Idle, At
    <2> QED
      BY <2>1 DEF ErasedInv
  <1>6. ASSUME NEW s \in Turns, Retcon(s) PROVE ErasedInv'
    <2>1. PICK p \in Turns : IsPriorFinal(p, s) /\ op' = At("rewind", p)
      BY <1>6 DEF Retcon
    <2>2. /\ s \in Canonical /\ op.at # "rewind" /\ UNCHANGED <<head, attempts, final>>
          /\ audit' = audit \cup {AttemptOf(final[u]) : u \in AffectedSuffix(s)}
      BY <1>6 DEF Retcon, RetconTransaction, threadVars, Idle, At
    <2>3. p \in Canonical /\ p < s /\ AffectedSuffix(s) = {u \in Canonical : u >= s}
      BY <2>1, <2>2, RetconCutsSuffix
    <2>4. ASSUME NEW u \in Canonical
          PROVE  AttemptOf(final[u]) <= attempts
      BY AttemptsInHistory DEF FreshInv
    <2>5. \A a \in audit' : a <= attempts'
      BY <2>2, <2>3, <2>4 DEF ErasedInv
    <2>6. ASSUME NEW i \in 1..Len(final[p].hist)
          PROVE  final[p].hist[i] \notin audit'
      <3>1. final[p].hist[i] = h[i] /\ i \in 1..Len(h)
        BY <2>3, Histories DEF StoryInv, BuiltOn
      <3>2. h[i] \notin audit
        BY <2>2, <3>1 DEF ErasedInv
      <3>3. ASSUME NEW u \in Canonical, u >= s
            PROVE  h[i] # AttemptOf(final[u])
        <4>1. p < u
          BY <2>2, <2>3, <3>3, Histories
        <4>2. i < Len(final[u].hist)
          BY <2>3, <4>1, Histories, SMTT(30) DEF StoryInv
        <4>3. /\ Len(final[u].hist) \in 1..Len(h)
              /\ AttemptOf(final[u]) = h[Len(final[u].hist)]
          BY AttemptsInHistory
        <4>4. h[i] < AttemptOf(final[u])
          BY <3>1, <4>2, <4>3 DEF FreshInv
        <4>5. h[i] \in Nat /\ AttemptOf(final[u]) \in Nat
          BY <3>1, <4>3, Histories
        <4> QED
          BY <4>4, <4>5
      <3> QED
        BY <2>2, <2>3, <3>1, <3>2, <3>3
    <2> QED
      BY <2>1, <2>2, <2>5, <2>6 DEF ErasedInv, At
  <1> QED
    BY <1>1, <1>2, <1>3, <1>4, <1>5, <1>6, StepKinds

LEMMA InitStory ==
    ASSUME Init
    PROVE  PackedInv /\ PausedInv /\ FreshInv /\ StoryInv /\ ErasedInv
  <1> USE DEF Init, ThreadInit, StoreInit, NoCheckpoint
  <1>1. PackedInv
    BY DEF PackedInv, Packed
  <1>2. PausedInv
    BY DEF PausedInv, HasIncompleteNarration
  <1>3. Len(head.hist) = 0 /\ op.at # "rewind"
    BY DEF Idle, At
  <1>4. Canonical = {}
    BY DEF Canonical
  <1>5. FreshInv /\ StoryInv /\ ErasedInv
    BY <1>3, <1>4 DEF FreshInv, StoryInv, ErasedInv
  <1> QED
    BY <1>1, <1>2, <1>5

LEMMA Erased ==
    ASSUME LifecycleInv, StoryInv, ErasedInv
    PROVE  RetconIsForever /\ RetconErases
  <1>1. RetconErases
    BY DEF RetconErases, ErasedInv, Idle, At
  <1>2. ASSUME NEW t \in Canonical PROVE AttemptOf(final[t]) \notin audit
    <2> DEFINE n == Len(final[t].hist)
    <2>1. n \in 1..Len(head.hist) /\ AttemptOf(final[t]) = head.hist[n]
      BY AttemptsInHistory
    <2>2. CASE op.at # "rewind"
      BY <2>1, <2>2 DEF ErasedInv
    <2>3. CASE op.at = "rewind"
      <3> DEFINE m == Len(final[op.turn].hist)
      <3>1. op.turn \in Canonical /\ t <= op.turn
        BY <2>3 DEF LifecycleInv, OpInv
      <3>2. n <= m
        <4>1. t \in Nat /\ op.turn \in Nat
          BY <3>1, Histories
        <4>2. t < op.turn \/ t = op.turn
          BY <3>1, <4>1
        <4>3. t < op.turn => n < m
          BY <3>1 DEF StoryInv
        <4>4. n \in Nat /\ m \in Nat
          BY <3>1, Histories
        <4> QED
          BY <4>2, <4>3, <4>4
      <3>3. n \in 1..m
        BY <2>1, <3>1, <3>2, Histories
      <3>4. final[op.turn].hist[n] = head.hist[n]
        BY <3>1, <3>3 DEF StoryInv, BuiltOn
      <3> QED
        BY <2>1, <2>3, <3>3, <3>4 DEF ErasedInv
    <2> QED
      BY <2>2, <2>3
  <1> QED
    BY <1>1, <1>2 DEF RetconIsForever

-----------------------------------------------------------------------------
(* The theorems.                                                           *)

(***************************************************************************)
(* Without encounters the state the thread plays on from was built on the  *)
(* attempt that closed each canonical turn, wherever the process died.     *)
(***************************************************************************)
THEOREM CanonIsOneStory ==
    ASSUME Encounters = FALSE
    PROVE  Spec => []OneStory
  <1> DEFINE Inv == LifecycleInv /\ PackedInv /\ PausedInv /\ FreshInv /\ StoryInv
  <1>1. Init => Inv
    BY InitInv, InitStory
  <1>2. Inv /\ [Next]_vars => Inv'
    BY StepInv, PackedStep, PausedStep, StoryStep
  <1>3. Inv => OneStory
    BY DEF StoryInv, BuiltOn, OneStory
  <1> QED
    BY <1>1, <1>2, <1>3, PTL DEF Spec

(***************************************************************************)
(* Without encounters /retry and /discard rewind to the checkpoint the     *)
(* player is looking at.                                                   *)
(***************************************************************************)
THEOREM RewindsKeepMechanics ==
    ASSUME Encounters = FALSE
    PROVE  Spec => RewindKeepsMechanics
  <1> DEFINE Inv == LifecycleInv /\ PackedInv /\ PausedInv
  <1>1. Init => Inv
    BY InitInv, InitStory
  <1>2. Inv /\ [Next]_vars => Inv'
    BY StepInv, PackedStep, PausedStep
  <1>3. Inv /\ [Next]_vars => [RetryRewind \/ DiscardRewind => head' = head]_vars
    BY RewindsStay
  <1> QED
    BY <1>1, <1>2, <1>3, PTL DEF Spec, RewindKeepsMechanics

(* Unless the process dies between the commit of a retcon and its rewind,  *)
(* what a retcon removed stays removed.                                    *)
LEMMA ErasedAlways ==
    ASSUME Encounters = FALSE, "rewind" \notin CrashPoints
    PROVE  Spec => [](LifecycleInv /\ StoryInv /\ ErasedInv)
  <1> DEFINE Inv == LifecycleInv /\ PackedInv /\ PausedInv /\ FreshInv /\ StoryInv /\ ErasedInv
  <1>1. Init => Inv
    BY InitInv, InitStory
  <1>2. Inv /\ [Next]_vars => Inv'
    BY StepInv, PackedStep, PausedStep, StoryStep, ErasedStep
  <1> QED
    BY <1>1, <1>2, PTL DEF Spec

(***************************************************************************)
(* Without encounters, and unless the process dies between the commit of a *)
(* retcon and its rewind, a retconned attempt never closes a canonical turn*)
(* again.                                                                  *)
(***************************************************************************)
THEOREM RetconsAreForever ==
    ASSUME Encounters = FALSE, "rewind" \notin CrashPoints
    PROVE  Spec => []RetconIsForever
  <1>1. LifecycleInv /\ StoryInv /\ ErasedInv => RetconIsForever
    BY Erased
  <1> QED
    BY <1>1, ErasedAlways, PTL

(***************************************************************************)
(* Under the same conditions nothing the thread holds at the prompt was    *)
(* built on a retconned attempt.                                           *)
(***************************************************************************)
THEOREM RetconsErase ==
    ASSUME Encounters = FALSE, "rewind" \notin CrashPoints
    PROVE  Spec => []RetconErases
  <1>1. LifecycleInv /\ StoryInv /\ ErasedInv => RetconErases
    BY Erased
  <1> QED
    BY <1>1, ErasedAlways, PTL
=============================================================================
