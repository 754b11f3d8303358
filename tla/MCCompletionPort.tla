-------------------------- MODULE MCCompletionPort --------------------------
(* Instances of CompletionPort for TLC. *)
EXTENDS CompletionPort, TLC

\* Nothing tells two connections, handles, workers or blocks apart.
Symmetry == Permutations(Conn) \cup Permutations(Socket)
              \cup Permutations(Worker) \cup Permutations(Io)
=============================================================================
