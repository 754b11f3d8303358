------------------------------ MODULE Presence ------------------------------
(***************************************************************************)
(* What logins and disconnects promise, whatever threads, rooms and maps   *)
(* they go through: a client that is online may become one player, a user  *)
(* is played by one client at a time, nobody but its own handler takes a   *)
(* player out, and a client has left the game before it goes offline.      *)
(***************************************************************************)
CONSTANTS
  Conn,  \* connections
  User,  \* user ids
  None   \* no player

VARIABLES
  online,  \* the connections with a session
  player   \* player[c]: the user its client plays, or None

vars == <<online, player>>

Init == online = {} /\ player = [c \in Conn |-> None]

Connect(c) ==
  /\ c \notin online
  /\ online' = online \cup {c}
  /\ UNCHANGED player

Enter(c, u) ==
  /\ c \in online
  /\ player[c] = None
  /\ \A d \in Conn : player[d] # u
  /\ player' = [player EXCEPT ![c] = u]
  /\ UNCHANGED online

Leave(c) ==
  /\ player[c] # None
  /\ player' = [player EXCEPT ![c] = None]
  /\ UNCHANGED online

Disconnect(c) ==
  /\ c \in online
  /\ player[c] = None
  /\ online' = online \ {c}
  /\ UNCHANGED player

Next == \E c \in Conn :
  Connect(c) \/ (\E u \in User : Enter(c, u)) \/ Leave(c) \/ Disconnect(c)

Spec == Init /\ [][Next]_vars
=============================================================================
