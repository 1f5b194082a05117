---------------------------- MODULE MCLifecycle ----------------------------
(* Instances of the turn lifecycle for TLC. *)
EXTENDS LifecycleProperties

(* The process may die anywhere. *)
Anywhere == Stages

(* Anywhere but between the commit of a retcon and the rewind after it. *)
NotInsideRetcon == Stages \ {"rewind"}

(* Nowhere. *)
Nowhere == {}
=============================================================================
