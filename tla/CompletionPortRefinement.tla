---------------------- MODULE CompletionPortRefinement ----------------------
(***************************************************************************)
(* A proof that CompletionPort implements Connections, for any number of   *)
(* connections, sockets, workers and blocks.                               *)
(***************************************************************************)
EXTENDS CompletionPortProofs

\* The variables of Connections, as CompletionPort keeps them.
Name == [c \in Conn |-> IF Closed(c) THEN None ELSE sock[c]]
Registered == {c \in Conn : sock[c] # None /\ sessionMap[sock[c]] = c}
Handlers == [c \in Conn |-> {w \in Worker : cur[w] # None /\ Handle(w) = c}]

\* Without the network no connection has a socket, and a connection that is not
\* closed has an open one which it shares only with closed ones: two blocks may
\* carry one handle between closesocket and delete perHandleData.
Named ==
  /\ ~netUp => \A c \in Conn : sock[c] = None
  /\ \A c \in Conn : sock[c] # None /\ ~Closed(c) =>
       /\ sock[c] \in open
       /\ \A d \in Conn : d # c /\ sock[d] = sock[c] => Closed(d)

RInv == IInv /\ Named

-----------------------------------------------------------------------------
(* Who handles a connection. *)

\* A connection without a receive has no handler.
LEMMA Unhandled ==
  ASSUME IInv, NEW c \in Conn, Receives(c) = {}
  PROVE  Handlers[c] = {} /\ ~Closed(c)
<1>1. ASSUME NEW w \in Worker, cur[w] # None, Handle(w) = c
      PROVE  FALSE
  <2>1. cur[w] \in Receives(c)
    BY <1>1, HandleType DEF IInv, Holding, Receives, Blocks, Handle
  <2> QED
    BY <2>1
<1>2. \A w \in Worker : pc[w] = "free" => cur[w] # None
  BY DEF IInv, Holding
<1> QED
  BY <1>1, <1>2 DEF Handlers, Closed

\* The worker that holds a receive of a connection is its only handler, and the
\* connection is closed when that worker is about to free it.
LEMMA HandledBy ==
  ASSUME IInv, NEW w \in Worker, cur[w] # None
  PROVE  /\ Handle(w) \in Conn
         /\ Handlers[Handle(w)] = {w}
         /\ Closed(Handle(w)) <=> pc[w] = "free"
<1>1. Handle(w) \in Conn
  BY HandleType
<1>2. \A v \in Worker : cur[v] # None /\ Handle(v) = Handle(w) => v = w
  BY SoleHandler
<1>3. \A v \in Worker : pc[v] = "free" => cur[v] # None
  BY DEF IInv, Holding
<1> QED
  BY <1>1, <1>2, <1>3 DEF Handlers, Closed

\* A step that neither lets a worker take up or put down a receive nor begins
\* or ends the life of a socket or a session is not seen by Connections.
LEMMA Unseen ==
  ASSUME RInv, UNCHANGED <<netUp, sock, open, sessionMap, cur>>,
         \A w \in Worker : cur[w] # None => io'[cur[w]] = io[cur[w]],
         \A w \in Worker : pc'[w] = "free" <=> pc[w] = "free"
  PROVE  Named' /\ UNCHANGED <<Name, Registered, Handlers>>
<1>1. \A w \in Worker : cur[w] # None => Handle(w)' = Handle(w)
  BY DEF Handle
<1>2. \A w \in Worker : pc[w] = "free" => cur[w] # None
  BY DEF RInv, IInv, Holding
<1>3. \A c \in Conn : Closed(c)' <=> Closed(c)
  BY <1>1, <1>2 DEF Closed
<1>4. Handlers' = Handlers
  BY <1>1 DEF Handlers
<1>5. Name' = Name /\ Registered' = Registered
  BY <1>3 DEF Name, Registered
<1>6. Named'
  BY <1>3 DEF RInv, Named
<1> QED
  BY <1>4, <1>5, <1>6

-----------------------------------------------------------------------------
(* Steps Connections does not see. *)

USE DEF mainVars, acceptVars, kernelVars, ioVars, workerVars

\* A block nobody uses or that waits for a worker is not the one a worker holds.
LEMMA HeldElsewhere ==
  ASSUME IInv, NEW i \in Io, io[i] = None \/ Waiting(i),
         NEW w \in Worker, cur[w] # None
  PROVE  cur[w] # i
  BY DEF IInv, Holding, Placed

\* The main thread does nothing to connections; JoinWorkersAndDestroy empties
\* the pool only when there was no network, and so no session.
LEMMA MainUnseen ==
  ASSUME RInv, Main
  PROVE  Named' /\ UNCHANGED <<Name, Registered, Handlers>>
<1>1. CASE Initialize
  <2>1. UNCHANGED <<sock, open, sessionMap, cur, io, pc>>
    BY <1>1 DEF Initialize
  <2>2. Named'
    BY <1>1, <2>1 DEF Initialize, RInv, IInv, Down, Named, Closed, Handle
  <2> QED
    BY <2>1, <2>2 DEF Name, Registered, Handlers, Closed, Handle
<1>2. CASE Start \/ JoinAccept
  BY <1>2, Unseen DEF Start, JoinAccept
<1>3. CASE JoinWorkersAndDestroy
  <2>1. UNCHANGED <<netUp, sock, open, cur, io, pc>>
    BY <1>3 DEF JoinWorkersAndDestroy
  <2>2. UNCHANGED <<Name, Handlers>> /\ Named'
    BY <2>1 DEF RInv, Name, Handlers, Named, Closed, Handle
  <2>3. Registered = {} /\ Registered' = {}
    BY <1>3, <2>1 DEF JoinWorkersAndDestroy, RInv, Named, Registered
  <2> QED
    BY <2>2, <2>3
<1> QED
  BY <1>1, <1>2, <1>3 DEF Main

\* Before the session and after it the accept thread changes nothing that is
\* promised: the key and the first receive are its own business.
LEMMA AcceptUnseen ==
  ASSUME RInv, AcceptError \/ Associate \/ FirstRecv \/ FirstRecvError
  PROVE  Named' /\ UNCHANGED <<Name, Registered, Handlers>>
<1>1. CASE AcceptError \/ Associate \/ FirstRecvError
  BY <1>1, Unseen DEF AcceptError, Associate, FirstRecvError
<1>2. CASE FirstRecv
  <2>1. \A w \in Worker : cur[w] # None => io'[cur[w]] = io[cur[w]]
    BY <1>2, HeldElsewhere DEF FirstRecv, RInv, IInv, TypeOK
  <2> QED
    BY <1>2, <2>1, Unseen DEF FirstRecv
<1> QED
  BY <1>1, <1>2

\* The kernel completes operations that no worker holds.
LEMMA KernelUnseen ==
  ASSUME RInv, Kernel
  PROVE  Named' /\ UNCHANGED <<Name, Registered, Handlers>>
<1>1. ASSUME NEW c \in Conn, PeerCloses(c)
      PROVE  Named' /\ UNCHANGED <<Name, Registered, Handlers>>
  BY <1>1, Unseen DEF PeerCloses
<1>2. ASSUME NEW i \in Io, RecvCompletes(i) \/ SendCompletes(i)
      PROVE  Named' /\ UNCHANGED <<Name, Registered, Handlers>>
  <2>1. \A w \in Worker : cur[w] # None => io'[cur[w]] = io[cur[w]]
    BY <1>2, HeldElsewhere
       DEF RecvCompletes, SendCompletes, RInv, IInv, TypeOK, Waiting
  <2> QED
    BY <1>2, <2>1, Unseen DEF RecvCompletes, SendCompletes
<1> QED
  BY <1>1, <1>2 DEF Kernel

\* Taking completions from the port and deleting the blocks of sends.
LEMMA PortUnseen ==
  ASSUME RInv, NEW w \in Worker,
         \/ \E B \in SUBSET port : Dequeue(w, B)
         \/ BatchDone(w)
         \/ \E i \in batch[w] : ProcSend(w, i)
  PROVE  Named' /\ UNCHANGED <<Name, Registered, Handlers>>
<1>1. ASSUME NEW B \in SUBSET port, Dequeue(w, B)
      PROVE  Named' /\ UNCHANGED <<Name, Registered, Handlers>>
  BY <1>1, Unseen DEF Dequeue, RInv, IInv, TypeOK
<1>2. CASE BatchDone(w)
  BY <1>2, Unseen DEF BatchDone, RInv, IInv, TypeOK
<1>3. ASSUME NEW i \in batch[w], ProcSend(w, i)
      PROVE  Named' /\ UNCHANGED <<Name, Registered, Handlers>>
  <2>1. \A v \in Worker : cur[v] # None => io'[cur[v]] = io[cur[v]]
    BY <1>3, HeldElsewhere DEF ProcSend, RInv, IInv, TypeOK, Waiting
  <2> QED
    BY <1>3, <2>1, Unseen DEF ProcSend
<1> QED
  BY <1>1, <1>2, <1>3

\* Parsing and sending, whatever goes wrong with a send.
LEMMA SendingUnseen ==
  ASSUME RInv, NEW w \in Worker,
         \/ Respond(w) \/ ParseDone(w) \/ SendDone(w) \/ AnnounceExit(w)
         \/ \E s \in Socket : SendOne(w, s) \/ SendOneLeaks(w, s)
  PROVE  Named' /\ UNCHANGED <<Name, Registered, Handlers>>
<1>1. CASE Respond(w) \/ ParseDone(w) \/ SendDone(w) \/ AnnounceExit(w)
  BY <1>1, Unseen
     DEF Respond, ParseDone, SendDone, AnnounceExit, RInv, IInv, TypeOK
<1>2. ASSUME NEW s \in Socket, SendOne(w, s) \/ SendOneLeaks(w, s)
      PROVE  Named' /\ UNCHANGED <<Name, Registered, Handlers>>
  <2>1. \A v \in Worker : cur[v] # None => io'[cur[v]] = io[cur[v]]
    BY <1>2, HeldElsewhere DEF SendOne, SendOneLeaks, RInv, IInv, TypeOK
  <2> QED
    BY <1>2, <2>1, Unseen DEF SendOne, SendOneLeaks
<1> QED
  BY <1>1, <1>2

-----------------------------------------------------------------------------
(* Steps Connections does see, and which of its own they are. *)

\* accept opens a connection under a name nobody has.
LEMMA AcceptOpens ==
  ASSUME RInv, NEW c \in Conn, NEW s \in Socket, AcceptClient(c, s)
  PROVE  Named' /\ Abs!Open(c, s)
<1>1. \A w \in Worker : cur[w] # None => Handle(w) # c
  BY SocketOfHandled DEF AcceptClient, RInv
<1>2. \A w \in Worker : pc[w] = "free" => cur[w] # None
  BY DEF RInv, IInv, Holding
<1>3. Handlers[c] = {} /\ ~Closed(c)
  BY <1>1, <1>2 DEF Handlers, Closed
<1>4. \A d \in Conn : Closed(d)' <=> Closed(d)
  BY DEF AcceptClient, Closed, Handle
<1>5. sock' = [sock EXCEPT ![c] = s] /\ sock[c] = None /\ s \notin open
      /\ sock \in [Conn -> Socket \cup {None}] /\ s # None
  BY NoneAssumption DEF AcceptClient, RInv, IInv, TypeOK
<1>6. Name[c] = None /\ \A d \in Conn : Name[d] # s
  BY <1>5 DEF Name, RInv, Named
<1>7. Name' = [Name EXCEPT ![c] = s]
  BY <1>3, <1>4, <1>5 DEF Name
<1>8. Registered' = Registered
  <2>1. sessionMap[s] # c
    BY <1>5, NoneAssumption DEF RInv, IInv, Pool
  <2> QED
    BY <1>5, <2>1 DEF Registered, AcceptClient
<1>9. Handlers' = Handlers
  BY DEF AcceptClient, Handlers, Handle
<1>10. Named'
  <2>1. netUp' /\ open' = open \cup {s}
    BY DEF AcceptClient
  <2>2. ASSUME NEW d \in Conn, sock'[d] # None, ~Closed(d)
        PROVE  /\ sock'[d] \in open'
               /\ \A e \in Conn : e # d /\ sock'[e] = sock'[d] => Closed(e)
    BY <1>5, <2>1, <2>2 DEF RInv, Named
  <2> QED
    BY <1>4, <2>1, <2>2 DEF Named
<1> QED
  BY <1>3, <1>6, <1>7, <1>8, <1>9, <1>10
     DEF Abs!Open, Name, Registered, Handlers

\* CreateSession registers the connection that was accepted.
LEMMA CreateSessionRegisters ==
  ASSUME RInv, CreateSession
  PROVE  Named' /\ \E c \in Conn : Abs!Register(c)
<1>c. PICK c \in Conn : c = acceptConn
  BY DEF CreateSession, RInv, IInv, TypeOK, Accepting
<1>1. sock[c] \in open /\ Receives(c) = {}
      /\ sessionMap[sock[c]] = None
  BY <1>c DEF CreateSession, RInv, IInv, TypeOK, Accepting
<1>2. sock[c] \in Socket /\ sock[c] # None /\ c # None
  BY <1>1, NoneAssumption DEF RInv, IInv, TypeOK
<1>3. sessionMap' = [sessionMap EXCEPT ![sock[c]] = c]
      /\ sessionMap \in [Socket -> Conn \cup {None}]
      /\ sock \in [Conn -> Socket \cup {None}]
  BY <1>c, <1>1 DEF CreateSession, Inserted, RInv, IInv, TypeOK
<1>4. Handlers[c] = {} /\ ~Closed(c)
  BY <1>1, Unhandled DEF RInv
<1>5. Named' /\ UNCHANGED <<Name, Handlers>>
  BY DEF CreateSession, RInv, Named, Name, Handlers, Closed, Handle
<1>6. Name[c] # None /\ c \notin Registered
  BY <1>1, <1>2, <1>4 DEF Name, Registered
<1>7. Registered' = Registered \cup {c}
  <2>1. sock' = sock
    BY DEF CreateSession
  <2>2. ASSUME NEW d \in Conn
        PROVE  d \in Registered' <=> d \in Registered \cup {c}
    <3>1. d \in Registered' <=> sock[d] # None /\ sessionMap'[sock[d]] = d
      BY <2>1 DEF Registered
    <3>2. CASE sock[d] = sock[c]
      BY <1>1, <1>2, <1>3, <3>1, <3>2, NoneAssumption DEF Registered
    <3>3. CASE sock[d] # sock[c]
      <4>1. sock[d] # None => sessionMap'[sock[d]] = sessionMap[sock[d]]
        BY <1>3, <3>3
      <4> QED
        BY <3>1, <3>3, <4>1 DEF Registered
    <3> QED
      BY <3>2, <3>3
  <2> QED
    BY <1>1, <2>2 DEF Registered
<1> QED
  BY <1>1, <1>4, <1>5, <1>6, <1>7
     DEF Abs!Register, Name, Registered, Handlers

\* A worker that takes up a receive begins to handle its connection, which is
\* registered and which no other worker handles.
LEMMA ReceiveBegins ==
  ASSUME RInv, NEW w \in Worker, NEW i \in batch[w],
         ProcReceive(w, i) \/ ProcDisconnect(w, i)
  PROVE  Named' /\ \E c \in Conn : Abs!Begin(c, w)
<1>1. i \in Io /\ Waiting(i) /\ io[i] # None /\ io[i].op = "recv"
  BY DEF RInv, IInv, TypeOK, Placed, Waiting, ProcReceive, ProcDisconnect
<1>c. PICK c \in Conn : c = io[i].conn
  BY <1>1 DEF RInv, IInv, TypeOK, Block
<1>2. i \in Receives(c)
  BY <1>c, <1>1 DEF RInv, IInv, TypeOK, Block, Receives, Blocks
<1>3. c \in Registered
  BY <1>c, <1>1, NoneAssumption DEF RInv, IInv, TypeOK, KeyAlive, Registered
<1>4. \A v \in Worker : cur[v] # None => Handle(v) # c
  <2>1. ASSUME NEW v \in Worker, cur[v] # None, Handle(v) = c
        PROVE  FALSE
    <3>1. cur[v] \in Receives(c)
      BY <2>1, HandleType DEF RInv, IInv, Holding, Receives, Blocks, Handle
    <3>2. cur[v] # i
      BY <1>1, <2>1, HeldElsewhere DEF RInv
    <3> QED
      BY <1>2, <3>1, <3>2 DEF RInv, IInv, OneReceive
  <2> QED
    BY <2>1
<1>5. cur[w] = None
  BY DEF RInv, IInv, Holding, ProcReceive, ProcDisconnect
<1>6. /\ UNCHANGED <<netUp, sock, open, sessionMap, io>>
      /\ cur' = [cur EXCEPT ![w] = i]
      /\ pc[w] # "free" /\ pc'[w] # "free"
      /\ \A v \in Worker \ {w} : pc'[v] = pc[v]
  BY DEF ProcReceive, ProcDisconnect, RInv, IInv, TypeOK
<1>7. cur \in [Worker -> Io \cup {None}] /\ i # None
  BY <1>1, NoneAssumption DEF RInv, IInv, TypeOK
<1>8. \A d \in Conn : Closed(d)' <=> Closed(d)
  BY <1>6, <1>7 DEF Closed, Handle
<1>9. Name' = Name /\ Registered' = Registered /\ Named'
  BY <1>6, <1>8 DEF Name, Registered, RInv, Named
<1>10. Handlers[c] = {} /\ \A d \in Conn : w \notin Handlers[d]
  BY <1>2, <1>4, <1>5 DEF Handlers
<1>11. Handlers' = [Handlers EXCEPT ![c] = {w}]
  <2>1. ASSUME NEW d \in Conn, NEW v \in Worker
        PROVE  v \in Handlers'[d] <=> v \in [Handlers EXCEPT ![c] = {w}][d]
    BY <1>c, <1>4, <1>5, <1>6, <1>7 DEF Handlers, Handle
  <2>2. \A d \in Conn : /\ Handlers'[d] \subseteq Worker
                       /\ [Handlers EXCEPT ![c] = {w}][d] \subseteq Worker
    BY DEF Handlers
  <2>3. \A d \in Conn : Handlers'[d] = [Handlers EXCEPT ![c] = {w}][d]
    BY <2>1, <2>2
  <2> QED
    BY <2>3 DEF Handlers
<1> QED
  BY <1>2, <1>3, <1>9, <1>10, <1>11
     DEF Abs!Begin, Abs!Idle, Name, Registered, Handlers

-----------------------------------------------------------------------------
\* WSARecv at the end of ProcCompletion, or its error, ends the handling of a
\* connection that is still registered.
LEMMA RearmEnds ==
  ASSUME RInv, NEW w \in Worker, Rearm(w) \/ RearmError(w)
  PROVE  Named' /\ \E c \in Conn : Abs!End(c, w)
<1>1. cur[w] # None /\ pc[w] = "rearm"
  BY DEF Rearm, RearmError, RInv, IInv, Holding
<1>c. PICK c \in Conn : c = Handle(w)
  BY <1>1, HandledBy DEF RInv
<1>2. Handlers[c] = {w} /\ ~Closed(c)
  BY <1>c, <1>1, HandledBy DEF RInv
<1>3. c \in Registered
  BY <1>c, <1>1, <1>2, NoneAssumption
     DEF RInv, IInv, TypeOK, Handling, Attended, Serving, Registered
<1>4. /\ UNCHANGED <<netUp, sock, open, sessionMap>>
      /\ cur' = [cur EXCEPT ![w] = None]
      /\ pc' = [pc EXCEPT ![w] = "next"]
      /\ \A v \in Worker : v # w /\ cur[v] # None => io'[cur[v]] = io[cur[v]]
  BY <1>1, SoleHandler, HandleType DEF Rearm, RearmError, RInv, IInv, TypeOK
<1>5. cur \in [Worker -> Io \cup {None}] /\ pc \in [Worker -> WorkerPc]
      /\ \A v \in Worker : pc[v] = "free" => cur[v] # None
  BY DEF RInv, IInv, TypeOK, Holding
<1>6. \A v \in Worker : v # w /\ cur[v] # None => Handle(v)' = Handle(v)
  BY <1>4, <1>5 DEF Handle
<1>7. \A d \in Conn : Closed(d)' <=> Closed(d)
  BY <1>1, <1>4, <1>5, <1>6 DEF Closed
<1>8. Name' = Name /\ Registered' = Registered /\ Named'
  BY <1>4, <1>7 DEF Name, Registered, RInv, Named
<1>9. Handlers' = [Handlers EXCEPT ![c] = {}]
  <2>1. ASSUME NEW d \in Conn, NEW v \in Worker
        PROVE  v \in Handlers'[d] <=> v \in Handlers[d] /\ d # c
    BY <1>c, <1>1, <1>2, <1>4, <1>5, <1>6, HandledBy DEF Handlers, RInv
  <2> QED
    BY <2>1 DEF Handlers
<1> QED
  BY <1>2, <1>3, <1>8, <1>9 DEF Abs!End, Name, Registered, Handlers

\* DeleteSession unregisters the connection its worker handles.
LEMMA EraseUnregisters ==
  ASSUME RInv, NEW w \in Worker, EraseSession(w)
  PROVE  Named' /\ \E c \in Conn : Abs!Unregister(c, w)
<1>1. cur[w] # None /\ pc[w] = "erase"
  BY DEF EraseSession, RInv, IInv, Holding
<1>c. PICK c \in Conn : c = Handle(w)
  BY <1>1, HandledBy DEF RInv
<1>2. Handlers[c] = {w}
  BY <1>c, <1>1, HandledBy DEF RInv
<1>3. sock[c] \in Socket /\ sessionMap[sock[c]] = c /\ c # None
      /\ sock[c] # None
  BY <1>c, <1>1, <1>2, NoneAssumption
     DEF RInv, IInv, TypeOK, Handling, Attended, Serving
<1>4. /\ UNCHANGED <<netUp, sock, open, cur, io>>
      /\ sessionMap' = [sessionMap EXCEPT ![sock[c]] = None]
      /\ \A v \in Worker : pc'[v] = "free" <=> pc[v] = "free"
  BY <1>c, <1>1 DEF EraseSession, RInv, IInv, TypeOK
<1>5. Name' = Name /\ Handlers' = Handlers /\ Named'
  BY <1>4 DEF Name, Handlers, RInv, Named, Closed, Handle
<1>6. Registered' = Registered \ {c}
  <2>1. ASSUME NEW d \in Conn
        PROVE  d \in Registered' <=> d \in Registered /\ d # c
    <3>1. d \in Registered' <=> sock[d] # None /\ sessionMap'[sock[d]] = d
      BY <1>4 DEF Registered
    <3>2. sock[d] # None => sock[d] \in Socket /\ d # None
      BY NoneAssumption DEF RInv, IInv, TypeOK
    <3>3. sessionMap \in [Socket -> Conn \cup {None}]
      BY DEF RInv, IInv, TypeOK
    <3>4. CASE sock[d] = sock[c]
      BY <1>3, <1>4, <3>1, <3>2, <3>3, <3>4 DEF Registered
    <3>5. CASE sock[d] # sock[c]
      BY <1>3, <1>4, <3>1, <3>2, <3>3, <3>5 DEF Registered
    <3> QED
      BY <3>4, <3>5
  <2> QED
    BY <2>1 DEF Registered
<1>7. c \in Registered
  BY <1>2, <1>3 DEF Registered
<1> QED
  BY <1>2, <1>5, <1>6, <1>7 DEF Abs!Unregister, Name, Registered, Handlers

\* closesocket gives up the name of a connection no longer registered.
LEMMA CloseCloses ==
  ASSUME RInv, NEW w \in Worker, CloseSocket(w)
  PROVE  Named' /\ \E c \in Conn : Abs!Close(c, w)
<1>1. cur[w] # None /\ pc[w] = "close"
  BY DEF CloseSocket, RInv, IInv, Holding
<1>c. PICK c \in Conn : c = Handle(w)
  BY <1>1, HandledBy DEF RInv
<1>2. Handlers[c] = {w} /\ ~Closed(c)
  BY <1>c, <1>1, HandledBy DEF RInv
<1>3. sock[c] \in open /\ sessionMap[sock[c]] = None /\ c # None
      /\ sock[c] # None
  BY <1>c, <1>1, <1>2, NoneAssumption
     DEF RInv, IInv, TypeOK, Handling, Attended, Closing
<1>4. /\ UNCHANGED <<netUp, sock, sessionMap, cur, io>>
      /\ open' = open \ {sock[c]}
      /\ pc' = [pc EXCEPT ![w] = "free"]
      /\ pc \in [Worker -> WorkerPc]
  BY <1>c DEF CloseSocket, RInv, IInv, TypeOK
<1>5. \A d \in Conn : Closed(d)' <=> Closed(d) \/ d = c
  BY <1>c, <1>1, <1>4 DEF Closed, Handle
<1>6. Registered' = Registered /\ Handlers' = Handlers
  BY <1>4 DEF Registered, Handlers, Handle
<1>7. Name' = [Name EXCEPT ![c] = None]
  BY <1>2, <1>4, <1>5 DEF Name
<1>8. Name[c] # None /\ c \notin Registered
  BY <1>c, <1>2, <1>3 DEF Name, Registered
<1>9. Named'
  <2>1. ASSUME NEW d \in Conn, sock[d] # None, ~Closed(d), d # c
        PROVE  sock[d] \in open'
    BY <1>2, <1>3, <1>4, <2>1 DEF RInv, Named
  <2> QED
    BY <1>4, <1>5, <2>1 DEF RInv, Named
<1> QED
  BY <1>2, <1>6, <1>7, <1>8, <1>9 DEF Abs!Close, Name, Registered, Handlers

\* The worker that closed a connection lets go of it when it deletes its blocks.
LEMMA FreeEnds ==
  ASSUME RInv, NEW w \in Worker, FreeHandle(w)
  PROVE  Named' /\ \E c \in Conn : Abs!End(c, w)
<1>1. cur[w] # None /\ pc[w] = "free"
  BY DEF FreeHandle, RInv, IInv, Holding
<1>c. PICK c \in Conn : c = Handle(w)
  BY <1>1, HandledBy DEF RInv
<1>2. Handlers[c] = {w} /\ Closed(c)
  BY <1>c, <1>1, HandledBy DEF RInv
<1>3. sessionMap[sock[c]] # c
  BY <1>c, <1>1 DEF RInv, IInv, Handling, Attended
<1>4. /\ UNCHANGED <<netUp, open, sessionMap>>
      /\ sock' = [sock EXCEPT ![c] = None]
      /\ cur' = [cur EXCEPT ![w] = None]
      /\ pc' = [pc EXCEPT ![w] = "next"]
      /\ \A v \in Worker : v # w /\ cur[v] # None => io'[cur[v]] = io[cur[v]]
  BY <1>c, <1>1, SoleHandler, HandleType DEF FreeHandle, RInv, IInv, TypeOK
<1>5. cur \in [Worker -> Io \cup {None}] /\ pc \in [Worker -> WorkerPc]
      /\ sock \in [Conn -> Socket \cup {None}]
      /\ \A v \in Worker : pc[v] = "free" => cur[v] # None
  BY DEF RInv, IInv, TypeOK, Holding
<1>6. \A v \in Worker : v # w /\ cur[v] # None =>
        Handle(v)' = Handle(v) /\ Handle(v) # c
  BY <1>c, <1>1, <1>4, <1>5, SoleHandler DEF Handle, RInv
<1>7. \A d \in Conn : Closed(d)' <=> Closed(d) /\ d # c
  BY <1>c, <1>1, <1>4, <1>5, <1>6 DEF Closed
<1>8. Name' = Name /\ Name[c] = None
  BY <1>c, <1>2, <1>4, <1>5, <1>7 DEF Name
<1>9. Registered' = Registered
  BY <1>c, <1>3, <1>4, <1>5 DEF Registered
<1>10. Handlers' = [Handlers EXCEPT ![c] = {}]
  <2>1. ASSUME NEW d \in Conn, NEW v \in Worker
        PROVE  v \in Handlers'[d] <=> v \in Handlers[d] /\ d # c
    BY <1>c, <1>1, <1>2, <1>4, <1>5, <1>6 DEF Handlers
  <2> QED
    BY <2>1 DEF Handlers
<1>11. Named'
  BY <1>c, <1>2, <1>4, <1>5, <1>7 DEF RInv, Named
<1> QED
  BY <1>2, <1>8, <1>9, <1>10, <1>11 DEF Abs!End, Name, Registered, Handlers

-----------------------------------------------------------------------------
(* The refinement. *)

\* No connection exists when the process starts.
LEMMA InitRefines == Init => RInv /\ Abs!Init
<1> SUFFICES ASSUME Init
             PROVE  RInv /\ Abs!Init
  OBVIOUS
<1>1. RInv
  BY InitInv DEF Init, RInv, Named
<1> QED
  BY <1>1 DEF Init, Abs!Init, Closed

\* Every step of CompletionPort is a step of Connections or one it does not see.
LEMMA NextRefines ==
  RInv /\ [Next]_vars => RInv' /\ [Abs!Next]_(Abs!vars)
<1> SUFFICES ASSUME RInv, [Next]_vars
             PROVE  Named' /\ [Abs!Next]_(Abs!vars)
  BY NextInv DEF RInv
<1>1. (UNCHANGED <<Name, Registered, Handlers>>) => UNCHANGED Abs!vars
  BY DEF Abs!vars, Name, Registered, Handlers
<1>2. CASE Main \/ Kernel
  BY <1>1, <1>2, MainUnseen, KernelUnseen
<1>3. CASE Accept
  <2>1. ASSUME NEW c \in Conn, NEW s \in Socket, AcceptClient(c, s)
        PROVE  Named' /\ Abs!Next
    BY <2>1, AcceptOpens DEF Abs!Next
  <2>2. CASE CreateSession
    BY <2>2, CreateSessionRegisters DEF Abs!Next
  <2> QED
    BY <1>1, <1>3, <2>1, <2>2, AcceptUnseen DEF Accept
<1>4. ASSUME NEW w \in Worker, ReadCompletionStatus(w)
      PROVE  Named' /\ [Abs!Next]_(Abs!vars)
  <2>1. ASSUME NEW i \in batch[w], ProcReceive(w, i) \/ ProcDisconnect(w, i)
        PROVE  Named' /\ Abs!Next
    BY <2>1, ReceiveBegins DEF Abs!Next
  <2>2. CASE Rearm(w) \/ RearmError(w)
    BY <2>2, RearmEnds DEF Abs!Next
  <2>3. CASE EraseSession(w)
    BY <2>3, EraseUnregisters DEF Abs!Next
  <2>4. CASE CloseSocket(w)
    BY <2>4, CloseCloses DEF Abs!Next
  <2>5. CASE FreeHandle(w)
    BY <2>5, FreeEnds DEF Abs!Next
  <2> QED
    BY <1>1, <1>4, <2>1, <2>2, <2>3, <2>4, <2>5, PortUnseen, SendingUnseen
       DEF ReadCompletionStatus, ProcCompletion
<1>5. CASE UNCHANGED vars
  BY <1>1, <1>5, Unseen DEF vars
<1> QED
  BY <1>2, <1>3, <1>4, <1>5 DEF Next

\* Whatever threads, kernel and peers do, the core keeps what Connections
\* promises: unique names, one handler at a time which finds its connection
\* registered, and a name that outlives the registration.
THEOREM Implementation == Spec => ImplementsConnections
<1>1. Spec => []RInv
  BY InitRefines, NextRefines, PTL DEF Spec
<1> QED
  BY <1>1, InitRefines, NextRefines, PTL
     DEF Spec, ImplementsConnections, Abs!Spec
=============================================================================
