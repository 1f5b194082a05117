---------------------------- MODULE GraphThread ----------------------------
(***************************************************************************)
(* The LangGraph thread of one campaign: the checkpoint at its head and    *)
(* the supersteps that replace it.  SqliteSaver commits one checkpoint     *)
(* after every superstep, so each operator here is one durable step.       *)
(*                                                                         *)
(* Of a checkpoint's state values the model keeps what decides control:    *)
(* the turn_id, the node(s) still to run, whether memory_packet is set,    *)
(* whether combat_state is set and whether its encounter is over.  hist is *)
(* a history field: the attempts (executions of the graph from START)      *)
(* whose values this checkpoint's state was built from, oldest first.      *)
(***************************************************************************)
EXTENDS Naturals, Sequences

CONSTANTS
    MaxTurn,      \* bound: turn ids are 1..MaxTurn
    MaxAttempt,   \* bound: executions of the graph from START
    Encounters    \* whether the player ever starts an encounter

ASSUME ThreadAssumption ==
    /\ MaxTurn \in Nat
    /\ MaxAttempt \in Nat
    /\ Encounters \in BOOLEAN

VARIABLES
    head,         \* the checkpoint graph.get_state returns
    headRef,      \* whether head's id is already a row of checkpoint_refs
    attempts      \* how many times the graph was started

threadVars == <<head, headRef, attempts>>

Turns == 1..MaxTurn

Nodes == {"oracle", "rules_lawyer", "orator", "archivist", "end"}

Checkpoint ==
    [turn : 0..MaxTurn, hist : Seq(1..MaxAttempt), next : Nodes, mem : BOOLEAN,
     combat : {"none", "active", "over"}]

(* A thread without a checkpoint; in checkpoint_refs, the absence of a row. *)
NoCheckpoint ==
    [turn |-> 0, hist |-> <<>>, next |-> "end", mem |-> FALSE, combat |-> "none"]

(* The attempt a checkpoint belongs to. *)
AttemptOf(c) == c.hist[Len(c.hist)]

ThreadInit ==
    /\ head = NoCheckpoint
    /\ headRef = FALSE
    /\ attempts = 0

(* SqliteSaver.put: the thread's head becomes a checkpoint with a new id. *)
Put(c) ==
    /\ head' = c
    /\ headRef' = FALSE

(***************************************************************************)
(* route_by_phase over the state build_turn_start makes: the phase is      *)
(* "combat" iff combat_state was carried over, and scene_brief is None, so *)
(* a "play" turn always enters at the Oracle.                              *)
(***************************************************************************)
EntryNode(combat) == IF combat = "none" THEN "oracle" ELSE "rules_lawyer"

(* graph.invoke(initial_state): the input checkpoint of a new attempt. *)
StartGraph(t) ==
    /\ attempts' = attempts + 1
    /\ Put([turn |-> t,
            hist |-> Append(head.hist, attempts + 1),
            next |-> EntryNode(head.combat),
            mem |-> FALSE,
            combat |-> head.combat])

(***************************************************************************)
(* The Oracle assembles the memory packet; a budget_stop or safety_block   *)
(* interrupt ends the run (route_after_oracle).                            *)
(***************************************************************************)
Oracle ==
    /\ head.next = "oracle"
    /\ \E n \in {"rules_lawyer", "end"} :
         Put([head EXCEPT !.mem = TRUE, !.next = n])
    /\ UNCHANGED attempts

(***************************************************************************)
(* What one resolved player intent makes of the encounter: start_combat    *)
(* starts (or restarts) one, a strike may complete it.  A completed        *)
(* encounter sets phase to "play" and leaves combat_state in place.        *)
(***************************************************************************)
CombatMoves ==
    {<<"none", "none">>, <<"none", "active">>, <<"active", "active">>,
     <<"active", "over">>, <<"over", "over">>, <<"over", "active">>}

CombatAfter(c) ==
    {d \in {"none", "active", "over"} :
        <<c, d>> \in CombatMoves /\ (d = "none" \/ Encounters)}

RulesLawyer ==
    /\ head.next = "rules_lawyer"
    /\ \E d \in CombatAfter(head.combat) :
         Put([head EXCEPT !.combat = d, !.next = "orator"])
    /\ UNCHANGED attempts

(* The Orator assembles a memory packet if there is none, then narrates. *)
Orator ==
    /\ head.next = "orator"
    /\ Put([head EXCEPT !.mem = TRUE, !.next = "archivist"])
    /\ UNCHANGED attempts

Archivist ==
    /\ head.next = "archivist"
    /\ Put([head EXCEPT !.mem = TRUE, !.next = "end"])
    /\ UNCHANGED attempts

(***************************************************************************)
(* post_interrupt and resume_after_interrupt: update_state(as_node =       *)
(* "archivist") writes last_interrupt in a superstep of the archivist, the *)
(* last node; the trigger of whatever node was to run next is consumed.    *)
(***************************************************************************)
PostInterrupt ==
    /\ Put([head EXCEPT !.next = "end"])
    /\ UNCHANGED attempts

(* Mutant: update_state without the checkpoint_id rewrites the head. *)
RewindNowhere(c) ==
    /\ Put(head)
    /\ UNCHANGED attempts

(* _rewind_to_checkpoint: fork the thread from a stored checkpoint. *)
RewindTo(c) ==
    /\ Put(c)
    /\ UNCHANGED attempts

ThreadTypeOK ==
    /\ head \in Checkpoint
    /\ headRef \in BOOLEAN
    /\ attempts \in 0..MaxAttempt
=============================================================================
