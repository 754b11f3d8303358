------------------------------ MODULE MCBattle ------------------------------
(* Instances of Battle for TLC. *)
EXTENDS Battle
=============================================================================
