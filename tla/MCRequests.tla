----------------------------- MODULE MCRequests -----------------------------
(* Instances of Requests for TLC. *)
EXTENDS Requests, TLC

\* One sample of a clock far ahead, two in order, one too large.
Samples == {-4, 1, 3}

Symmetry == Permutations(Conn) \cup Permutations(User)
=============================================================================
