------------------------------ MODULE CloseLog ------------------------------
(***************************************************************************)
(* What closing a turn promises, without rows, connections or steps: a     *)
(* turn is open, or complete and then, at most once and only while it is   *)
(* the last one, marked for repair.  The master vault takes pages of the   *)
(* last turn only, only while it is complete, and only those it owes; a    *)
(* turn is closed when none is owed, since the one before has written its  *)
(* own, is marked for repair, or was cut short by the end of the process.  *)
(***************************************************************************)
EXTENDS Naturals

CONSTANTS
    LogTurns,        \* the turn ids
    LogPages         \* the vault paths

VARIABLES
    outcome,         \* of each turn
    page,            \* master vault: the turn that wrote each page, or 0
    owed             \* the pages the last turn has still to write

closeLogVars == <<outcome, page, owed>>

CloseLogInit ==
    /\ outcome = [t \in LogTurns |-> "open"]
    /\ page = [p \in LogPages |-> 0]
    /\ owed = {}

(* t is the last turn that is not open. *)
Newest(t) ==
    /\ outcome[t] # "open"
    /\ \A u \in LogTurns : u > t => outcome[u] = "open"

(* A turn is committed as a whole, after every turn before it. *)
Complete(t) ==
    /\ owed = {}
    /\ \A u \in LogTurns : u >= t => outcome[u] = "open"
    /\ outcome' = [outcome EXCEPT ![t] = "complete"]
    /\ owed' \subseteq LogPages
    /\ UNCHANGED page

(* The pages are written, and the turn ends the session: another is owed. *)
Owe(t) ==
    /\ owed = {} /\ owed' # {} /\ owed' \subseteq LogPages
    /\ Newest(t) /\ outcome[t] = "complete"
    /\ UNCHANGED <<outcome, page>>

Put(t, p) ==
    /\ p \in owed /\ owed' = owed \ {p}
    /\ Newest(t) /\ outcome[t] = "complete"
    /\ page' = [page EXCEPT ![p] = t]
    /\ UNCHANGED outcome

(* A page failed, before or after it was put in its place, or what follows *)
(* the pages did: the turn is marked and nothing more is written for it.   *)
MarkForRepair(t) ==
    /\ owed' = {} /\ outcome[t] = "complete" /\ Newest(t)
    /\ outcome' = [outcome EXCEPT ![t] = "repair"]
    /\ \/ UNCHANGED page
       \/ \E p \in owed : page' = [page EXCEPT ![p] = t]

(* The process ends: what was owed never comes. *)
CutShort ==
    /\ owed # {} /\ owed' = {}
    /\ UNCHANGED <<outcome, page>>

CloseLogNext ==
    \/ CutShort
    \/ \E t \in LogTurns :
          \/ \E p \in LogPages : Put(t, p)
          \/ Owe(t) \/ Complete(t) \/ MarkForRepair(t)

CloseLogSpec == CloseLogInit /\ [][CloseLogNext]_closeLogVars
=============================================================================
