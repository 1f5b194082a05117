------------------------------ MODULE CanonLog ------------------------------
(***************************************************************************)
(* What the persistence layer promises about canon, without checkpoints,   *)
(* interrupts, commands or crashes: canon is a history.  It grows only at  *)
(* its end, a retcon cuts a suffix off it and never all of it, and a turn  *)
(* whose vault pages could not be written leaves canon only while it is    *)
(* the last one.  A canonical turn is a pair <<turn, attempt>>: no step    *)
(* replaces the attempt of a turn that stays canonical.                    *)
(***************************************************************************)
EXTENDS Naturals

CONSTANTS
    LogTurns,        \* the turn ids
    LogAttempts      \* the attempts a turn can be closed with

VARIABLE canon           \* the canonical turns with the attempt that closed each

TurnsOf(C) == {c[1] : c \in C}

CanonInit == canon = {}

(* A turn is closed: it comes after everything already canonical. *)
Close(t, a) ==
    /\ \A c \in canon : c[1] < t
    /\ canon' = canon \cup {<<t, a>>}

(* A retcon of s keeps what precedes s, and something does. *)
Retcon(s) ==
    /\ s \in TurnsOf(canon)
    /\ \E c \in canon : c[1] < s
    /\ canon' = {c \in canon : c[1] < s}

(* The last turn is withdrawn because its vault pages are not written. *)
Withdraw(t) ==
    /\ t \in TurnsOf(canon)
    /\ \A c \in canon : c[1] <= t
    /\ canon' = {c \in canon : c[1] # t}

CanonNext ==
    \E t \in LogTurns :
        \/ \E a \in LogAttempts : Close(t, a)
        \/ Retcon(t)
        \/ Withdraw(t)

CanonSpec == CanonInit /\ [][CanonNext]_canon
=============================================================================
