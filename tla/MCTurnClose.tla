---------------------------- MODULE MCTurnClose ----------------------------
(* Instances of the turn close for TLC. *)
EXTENDS TurnCloseProperties

CONSTANTS npc, summary, session    \* model values: one page of each kind

ThreePages == {npc, summary, session}

OnlySummary == {summary}

(* The process may die anywhere. *)
Anywhere == Steps

(* Only while the pages are written. *)
InPages == {"pages"}
=============================================================================
