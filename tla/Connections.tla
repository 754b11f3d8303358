---------------------------- MODULE Connections ----------------------------
(***************************************************************************)
(* What the input/output core of TPServer promises to the game logic, and  *)
(* nothing of how it keeps the promise.  A connection is opened under a    *)
(* name (its socket handle) no other open connection has, is registered in *)
(* the session pool, and from then on is handled by at most one worker     *)
(* thread at a time, which finds it registered when it begins.  The worker *)
(* that unregisters a connection closes its name before it lets go, and    *)
(* nobody else does.  CompletionPort is shown to implement this module.    *)
(***************************************************************************)
CONSTANTS
  Conn,    \* connections the server can hold at once
  Socket,  \* names of open connections (socket handles)
  Worker,  \* worker threads
  None     \* no name

VARIABLES
  name,        \* the open name of a connection, or None
  registered,  \* the connections the session pool can find
  handler      \* the workers that are handling a connection

vars == <<name, registered, handler>>

TypeOK ==
  /\ name \in [Conn -> Socket \cup {None}]
  /\ registered \subseteq Conn
  /\ handler \in [Conn -> SUBSET Worker]

Init ==
  /\ name = [c \in Conn |-> None]
  /\ registered = {}
  /\ handler = [c \in Conn |-> {}]

Idle(w) == \A c \in Conn : w \notin handler[c]

Open(c, s) ==
  /\ name[c] = None
  /\ handler[c] = {}
  /\ \A d \in Conn : name[d] # s
  /\ name' = [name EXCEPT ![c] = s]
  /\ UNCHANGED <<registered, handler>>

Register(c) ==
  /\ name[c] # None
  /\ c \notin registered
  /\ handler[c] = {}
  /\ registered' = registered \cup {c}
  /\ UNCHANGED <<name, handler>>

Begin(c, w) ==
  /\ c \in registered
  /\ handler[c] = {}
  /\ Idle(w)
  /\ handler' = [handler EXCEPT ![c] = {w}]
  /\ UNCHANGED <<name, registered>>

Unregister(c, w) ==
  /\ handler[c] = {w}
  /\ c \in registered
  /\ registered' = registered \ {c}
  /\ UNCHANGED <<name, handler>>

Close(c, w) ==
  /\ handler[c] = {w}
  /\ name[c] # None
  /\ c \notin registered
  /\ name' = [name EXCEPT ![c] = None]
  /\ UNCHANGED <<registered, handler>>

End(c, w) ==
  /\ handler[c] = {w}
  /\ c \in registered \/ name[c] = None
  /\ handler' = [handler EXCEPT ![c] = {}]
  /\ UNCHANGED <<name, registered>>

Next ==
  \E c \in Conn :
    \/ \E s \in Socket : Open(c, s)
    \/ Register(c)
    \/ \E w \in Worker :
         \/ Begin(c, w)
         \/ Unregister(c, w)
         \/ Close(c, w)
         \/ End(c, w)

Spec == Init /\ [][Next]_vars
=============================================================================
