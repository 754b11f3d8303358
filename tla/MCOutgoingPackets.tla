------------------------- MODULE MCOutgoingPackets -------------------------
(* Instances of OutgoingPackets for TLC. *)
EXTENDS OutgoingPackets, TLC

\* Workers are alike, and so are blocks.
Symmetry == Permutations(Worker) \cup Permutations(Buf)

\* Bound: no further than the first copy that found a packet on its stack.
BeforeStale == stale = {}
=============================================================================
