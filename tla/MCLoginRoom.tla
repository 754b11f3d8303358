----------------------------- MODULE MCLoginRoom -----------------------------
(* Instances of LoginRoom for TLC. *)
EXTENDS LoginRoom, TLC

CONSTANTS c1, c2, c3, u1, u2, u3

\* Two clients share one account, the third has its own.
TwoAndOne ==
  [c \in Conn |-> CASE c = c1 -> {u1} [] c = c2 -> {u1} [] c = c3 -> {u3}]

\* Every client can log in with any user id.
AnyAccount == [c \in Conn |-> User]

\* The objects are alike; so are the two clients that share an account, and
\* with AnyAccount all clients and users.
PairSymmetry == Permutations(Obj) \cup Permutations({c1, c2})
FullSymmetry ==
  Permutations(Obj) \cup Permutations(Conn) \cup Permutations(User)

\* Bound: no further than where a second room and a user id two handlers deal
\* with have both occurred, when only TypeOK still claims something.
NotBoth == ~(manyRooms /\ contended)
=============================================================================
