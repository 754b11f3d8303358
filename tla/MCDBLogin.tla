------------------------------ MODULE MCDBLogin ------------------------------
(* Instances of DBLogin for TLC. *)
EXTENDS DBLogin, TLC

Symmetry == Permutations(Worker) \cup Permutations(Dbc)
=============================================================================
