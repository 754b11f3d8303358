------------------------ MODULE CompletionPortProofs ------------------------
(***************************************************************************)
(* Proofs about CompletionPort, for any number of connections, sockets,    *)
(* workers and blocks.                                                     *)
(***************************************************************************)
EXTENDS CompletionPort, TLAPS

\* A worker waits when its array is empty.  It holds a block from the moment it
\* takes up a receive until it posts or deletes it, and the bytes of that
\* receive decide what it does with it.
Holding ==
  \A w \in Worker :
    /\ pc[w] = "wait" => batch[w] = {}
    /\ cur[w] = None <=> pc[w] \in {"wait", "next"}
    /\ cur[w] # None => /\ io[cur[w]] # None
                        /\ io[cur[w]].op = "recv"
    /\ pc[w] \in {"parse", "rearm"} => io[cur[w]].bytes > 0
    /\ pc[w] \in {"erase", "announce", "close", "free"} => io[cur[w]].bytes = 0

\* Before the session of the connection it handles is erased ...
Serving(w) ==
  \/ pc[w] \in {"parse", "rearm", "erase"}
  \/ pc[w] = "send" /\ io[cur[w]].bytes > 0

\* ... and after that, until the socket is closed.
Closing(w) ==
  \/ pc[w] \in {"announce", "close"}
  \/ pc[w] = "send" /\ io[cur[w]].bytes = 0

Attended(w) ==
  /\ Serving(w) => /\ session[w] = Handle(w)
                   /\ sock[Handle(w)] \in open
                   /\ key[sock[Handle(w)]] = Handle(w)
                   /\ sessionMap[sock[Handle(w)]] = Handle(w)
  /\ Closing(w) => /\ sock[Handle(w)] \in open
                   /\ key[sock[Handle(w)]] = Handle(w)
                   /\ sessionMap[sock[Handle(w)]] = None
  /\ pc[w] = "free" => /\ sock[Handle(w)] # None
                       /\ sessionMap[sock[Handle(w)]] # Handle(w)

Handling == \A w \in Worker : Attended(w)

\* The connection the accept thread is setting up has no receive yet, and its
\* socket gets its session first and its key second.
Accepting ==
  /\ acceptConn # None <=> acceptPc \in {"session", "associate", "recv"}
  /\ acceptConn # None => /\ sock[acceptConn] \in open
                          /\ Receives(acceptConn) = {}
  /\ acceptPc \in {"session", "associate"} => key[sock[acceptConn]] = None
  /\ acceptPc = "session" => sessionMap[sock[acceptConn]] = None
  /\ acceptPc \in {"associate", "recv"} =>
       sessionMap[sock[acceptConn]] = acceptConn
  /\ acceptPc = "recv" => key[sock[acceptConn]] = acceptConn

\* A closed handle has no key left and no session.
Pool ==
  /\ \A s \in Socket : s \notin open => key[s] = None
  /\ \A s \in Socket :
       sessionMap[s] # None => s \in open /\ sock[sessionMap[s]] = s

\* Nobody is accepted before Start, and without the network nobody ever is.
Down ==
  /\ mainPc \in {"initialize", "start"} => acceptPc = "off"
  /\ mainPc = "initialize" => ~netUp
  /\ ~netUp => /\ acceptConn = None
               /\ \A i \in Io : io[i] = None

IInv ==
  /\ TypeOK
  /\ Holding
  /\ Placed
  /\ OneReceive
  /\ KeyAlive
  /\ Handling
  /\ Accepting
  /\ Pool
  /\ Down

-----------------------------------------------------------------------------
(* Workers and the connections they handle. *)

USE DEF mainVars, acceptVars, kernelVars, ioVars, workerVars

\* The block a worker holds is that of a receive, and its key is a connection.
LEMMA HandleType ==
  ASSUME IInv, NEW w \in Worker, cur[w] # None
  PROVE  /\ cur[w] \in Io
         /\ io[cur[w]] \in Block
         /\ Handle(w) \in Conn
<1>1. cur[w] \in Io
  BY DEF IInv, TypeOK
<1>2. io[cur[w]] \in Block
  BY <1>1 DEF IInv, TypeOK, Holding
<1> QED
  BY <1>1, <1>2 DEF Block, Handle

\* Two workers never hold the same block or handle the same connection.
LEMMA SoleHandler ==
  ASSUME IInv, NEW v \in Worker, NEW w \in Worker, v # w,
         cur[v] # None, cur[w] # None
  PROVE  cur[v] # cur[w] /\ Handle(v) # Handle(w)
<1>1. cur[v] # cur[w]
  BY DEF IInv, Placed
<1>2. cur[v] \in Receives(Handle(v)) /\ cur[w] \in Receives(Handle(w))
  BY HandleType DEF IInv, Holding, Receives, Blocks, Handle
<1> QED
  BY <1>1, <1>2, HandleType DEF IInv, OneReceive

\* The connection a worker handles keeps its socket until it is freed.
LEMMA SocketOfHandled ==
  ASSUME IInv, NEW w \in Worker, cur[w] # None
  PROVE  sock[Handle(w)] # None
<1>1. pc[w] \notin {"wait", "next"}
  BY DEF IInv, Holding
<1>2. Serving(w) \/ Closing(w) \/ pc[w] = "free"
  <2>1. pc[w] = "send" => io[cur[w]].bytes > 0 \/ io[cur[w]].bytes = 0
    BY HandleType DEF Block
  <2> QED
    BY <1>1, <2>1 DEF IInv, TypeOK, WorkerPc, Serving, Closing
<1> QED
  BY <1>2, NoneAssumption DEF IInv, TypeOK, Handling, Attended

\* A step that leaves a worker and its connection alone.
LEMMA AttendedStays ==
  ASSUME IInv, NEW v \in Worker,
         pc'[v] = pc[v], session'[v] = session[v], cur'[v] = cur[v],
         UNCHANGED <<open, key, sessionMap>>,
         cur[v] # None => /\ io'[cur[v]] = io[cur[v]]
                          /\ sock'[Handle(v)] = sock[Handle(v)]
  PROVE  Attended(v)'
<1>1. CASE cur[v] = None
  BY <1>1 DEF IInv, Holding, Attended, Serving, Closing
<1>2. CASE cur[v] # None
  <2>1. Handle(v)' = Handle(v)
    BY <1>2 DEF Handle
  <2>2. Serving(v)' = Serving(v) /\ Closing(v)' = Closing(v)
    BY <1>2 DEF Serving, Closing
  <2>3. Attended(v)
    BY DEF IInv, Handling
  <2> QED
    BY <1>2, <2>1, <2>2, <2>3 DEF Attended
<1> QED
  BY <1>1, <1>2

-----------------------------------------------------------------------------
(* Steps: each action preserves the invariant. *)

\* Before Initialize nothing is accepted and no block exists.
LEMMA InitializeStep ==
  ASSUME IInv, Initialize
  PROVE  IInv'
<1>1. TypeOK'
  BY DEF IInv, Initialize, TypeOK, MainPc
<1>2. Down'
  BY DEF IInv, Initialize, Down
<1>3. Handling'
  BY AttendedStays DEF Initialize, Handling
<1>4. Holding' /\ Placed' /\ OneReceive' /\ KeyAlive' /\ Accepting' /\ Pool'
  BY DEF IInv, Initialize, Holding, Placed, OneReceive, KeyAlive, Accepting,
         Pool, Waiting, Receives, Blocks
<1> QED
  BY <1>1, <1>2, <1>3, <1>4 DEF IInv

\* Start launches the accept thread, which holds no connection yet.
LEMMA StartStep ==
  ASSUME IInv, Start
  PROVE  IInv'
<1>1. TypeOK'
  BY DEF IInv, Start, TypeOK, MainPc, AcceptPc
<1>2. Accepting'
  BY DEF IInv, Start, Accepting, Down
<1>3. Down'
  BY DEF IInv, Start, Down
<1>4. Handling'
  BY AttendedStays DEF Start, Handling
<1>5. Holding' /\ Placed' /\ OneReceive' /\ KeyAlive' /\ Pool'
  BY DEF IInv, Start, Holding, Placed, OneReceive, KeyAlive, Pool, Waiting,
         Receives, Blocks
<1> QED
  BY <1>1, <1>2, <1>3, <1>4, <1>5 DEF IInv

\* Joining the accept thread moves the main thread only.
LEMMA JoinAcceptStep ==
  ASSUME IInv, JoinAccept
  PROVE  IInv'
<1>1. TypeOK'
  BY DEF IInv, JoinAccept, TypeOK, MainPc
<1>2. Down'
  BY DEF IInv, JoinAccept, Down
<1>3. Handling'
  BY AttendedStays DEF JoinAccept, Handling
<1>4. Holding' /\ Placed' /\ OneReceive' /\ KeyAlive' /\ Accepting' /\ Pool'
  BY DEF IInv, JoinAccept, Holding, Placed, OneReceive, KeyAlive, Accepting,
         Pool, Waiting, Receives, Blocks
<1> QED
  BY <1>1, <1>2, <1>3, <1>4 DEF IInv

\* The joins return only when the network did not come up, and then no block,
\* no session and no key is left behind for the invariant to speak of.
LEMMA JoinWorkersAndDestroyStep ==
  ASSUME IInv, JoinWorkersAndDestroy
  PROVE  IInv'
<1>1. TypeOK'
  BY DEF IInv, JoinWorkersAndDestroy, TypeOK, MainPc
<1>2. KeyAlive'
  BY DEF IInv, JoinWorkersAndDestroy, KeyAlive, Placed, Down, Waiting
<1>3. Handling'
  BY DEF IInv, JoinWorkersAndDestroy, TypeOK, Handling, Holding, Down, Serving,
         Closing, Attended
<1>4. Accepting'
  BY DEF IInv, JoinWorkersAndDestroy, Accepting, Down
<1>5. Pool'
  BY DEF IInv, JoinWorkersAndDestroy, Pool
<1>6. Down'
  BY DEF IInv, JoinWorkersAndDestroy, Down
<1>7. Holding' /\ Placed' /\ OneReceive'
  BY DEF IInv, JoinWorkersAndDestroy, Holding, Placed, OneReceive, Waiting,
         Receives, Blocks
<1> QED
  BY <1>1, <1>2, <1>3, <1>4, <1>5, <1>6, <1>7 DEF IInv

\* accept gives a fresh connection a handle that pool and port have forgotten.
LEMMA AcceptClientStep ==
  ASSUME IInv, NEW c \in Conn, NEW s \in Socket, AcceptClient(c, s)
  PROVE  IInv'
<1>1. TypeOK'
  BY DEF IInv, AcceptClient, TypeOK, AcceptPc
<1>2. KeyAlive'
  BY NoneAssumption DEF IInv, AcceptClient, TypeOK, KeyAlive, Waiting
<1>3. Handling'
  <2> SUFFICES ASSUME NEW v \in Worker
               PROVE  Attended(v)'
    BY DEF Handling
  <2>1. cur[v] # None => Handle(v) # c
    BY SocketOfHandled DEF AcceptClient
  <2>2. s \notin open /\ (Attended(v) /\ (Serving(v) \/ Closing(v))
                           => sock[Handle(v)] # s)
    BY DEF Attended, AcceptClient
  <2>3. Serving(v)' = Serving(v) /\ Closing(v)' = Closing(v)
        /\ Handle(v)' = Handle(v)
    BY DEF AcceptClient, Serving, Closing, Handle
  <2>4. Serving(v) \/ Closing(v) \/ pc[v] = "free" => cur[v] # None
    BY DEF IInv, Holding, Serving, Closing
  <2> QED
    BY <2>1, <2>2, <2>3, <2>4, NoneAssumption
       DEF IInv, TypeOK, Handling, Attended, AcceptClient
<1>4. Accepting'
  <2>1. /\ key[s] = None
        /\ sessionMap[s] = None
    BY DEF IInv, Pool, AcceptClient
  <2>2. Receives(c) = {}
    <3> SUFFICES ASSUME NEW i \in Receives(c)
                 PROVE  sock[c] # None
      BY DEF AcceptClient
    <3>1. i \in Io /\ io[i] # None /\ io[i].op = "recv" /\ io[i].conn = c
      BY DEF Receives, Blocks
    <3>2. CASE Waiting(i)
      BY <3>1, <3>2, NoneAssumption DEF IInv, TypeOK, KeyAlive
    <3>3. ASSUME NEW w \in Worker, cur[w] = i
          PROVE  sock[c] # None
      <4>1. cur[w] # None /\ Handle(w) = c
        BY <3>1, <3>3, NoneAssumption DEF Handle
      <4> QED
        BY <4>1, SocketOfHandled
    <3> QED
      BY <3>1, <3>2, <3>3 DEF IInv, Placed
  <2>3. Receives(c)' = {}
    BY <2>2 DEF AcceptClient, Receives, Blocks
  <2> QED
    BY <2>1, <2>3, NoneAssumption DEF IInv, TypeOK, AcceptClient, Accepting
<1>5. Pool'
  BY NoneAssumption DEF IInv, AcceptClient, Pool
<1>6. Down'
  BY DEF IInv, AcceptClient, Down
<1>7. Holding' /\ Placed' /\ OneReceive'
  BY DEF IInv, AcceptClient, Holding, Placed, OneReceive, Waiting, Receives,
         Blocks
<1> QED
  BY <1>1, <1>2, <1>3, <1>4, <1>5, <1>6, <1>7 DEF IInv

\* A failing accept ends the accept thread while it holds no connection.
LEMMA AcceptErrorStep ==
  ASSUME IInv, AcceptError
  PROVE  IInv'
<1>1. TypeOK'
  BY DEF IInv, AcceptError, TypeOK, AcceptPc
<1>2. Accepting'
  BY DEF IInv, AcceptError, Accepting
<1>3. Down'
  BY DEF IInv, AcceptError, Down
<1>4. Handling'
  BY AttendedStays DEF AcceptError, Handling
<1>5. Holding' /\ Placed' /\ OneReceive' /\ KeyAlive' /\ Pool'
  BY DEF IInv, AcceptError, Holding, Placed, OneReceive, KeyAlive, Pool,
         Waiting, Receives, Blocks
<1> QED
  BY <1>1, <1>2, <1>3, <1>4, <1>5 DEF IInv

\* The entry the accept thread makes is for a socket nobody has a session for.
LEMMA CreateSessionStep ==
  ASSUME IInv, CreateSession
  PROVE  IInv'
<1>1. TypeOK'
  BY DEF IInv, CreateSession, Inserted, TypeOK, AcceptPc
<1>2. KeyAlive'
  BY NoneAssumption
     DEF IInv, CreateSession, Inserted, TypeOK, KeyAlive, Placed, Block,
         Waiting
<1>3. Handling'
  <2> SUFFICES ASSUME NEW v \in Worker
               PROVE  Attended(v)'
    BY DEF Handling
  <2>1. /\ Serving(v)' = Serving(v) /\ Closing(v)' = Closing(v)
        /\ Handle(v)' = Handle(v)
    BY DEF CreateSession, Serving, Closing, Handle
  <2>2. Serving(v) \/ Closing(v) \/ pc[v] = "free" => cur[v] # None
    BY DEF IInv, Holding, Serving, Closing
  <2>3. cur[v] # None => Handle(v) # acceptConn
    BY HandleType DEF IInv, Holding, Accepting, CreateSession, Receives, Blocks,
                      Handle
  <2>4. Handle(v) \in Conn => Handle(v) # None
    BY NoneAssumption
  <2>5. key[sock[acceptConn]] = None /\ sessionMap[sock[acceptConn]] = None
    BY DEF IInv, Accepting, CreateSession
  <2> QED
    BY <2>1, <2>2, <2>3, <2>4, <2>5, HandleType
       DEF IInv, TypeOK, Handling, Attended, CreateSession, Inserted
<1>4. Accepting'
  BY DEF IInv, CreateSession, Inserted, TypeOK, Accepting, Receives, Blocks
<1>5. Pool'
  BY DEF IInv, CreateSession, Inserted, Pool, Accepting
<1>6. Down'
  BY DEF IInv, CreateSession, Down
<1>7. Holding' /\ Placed' /\ OneReceive'
  BY DEF IInv, CreateSession, Holding, Placed, OneReceive, Waiting, Receives,
         Blocks
<1> QED
  BY <1>1, <1>2, <1>3, <1>4, <1>5, <1>6, <1>7 DEF IInv

\* The key given to the port is the connection of the session just made.
LEMMA AssociateStep ==
  ASSUME IInv, Associate
  PROVE  IInv'
<1>1. TypeOK'
  BY DEF IInv, Associate, TypeOK, AcceptPc
<1>2. KeyAlive'
  BY DEF IInv, Associate, KeyAlive, Accepting, Waiting
<1>3. Handling'
  BY DEF IInv, Associate, Handling, Accepting, Serving, Closing, Handle,
         Attended
<1>4. Accepting'
  BY DEF IInv, Associate, TypeOK, Accepting, Receives, Blocks
<1>5. Pool'
  BY DEF IInv, Associate, Pool, Accepting
<1>6. Down'
  BY DEF IInv, Associate, Down
<1>7. Holding' /\ Placed' /\ OneReceive'
  BY DEF IInv, Associate, Holding, Placed, OneReceive, Waiting, Receives,
         Blocks
<1> QED
  BY <1>1, <1>2, <1>3, <1>4, <1>5, <1>6, <1>7 DEF IInv

\* The first receive finds no other one, and its key and session in place.
LEMMA FirstRecvStep ==
  ASSUME IInv, FirstRecv
  PROVE  IInv'
<1>1. TypeOK'
  BY DEF IInv, FirstRecv, TypeOK, Accepting, Block, AcceptPc
<1>2. Holding'
  BY DEF IInv, FirstRecv, Holding
<1>3. Placed'
  BY NoneAssumption
     DEF IInv, FirstRecv, TypeOK, Placed, Accepting, Block, Waiting
<1>4. OneReceive'
  BY DEF IInv, FirstRecv, OneReceive, Accepting, Receives, Blocks
<1>5. KeyAlive'
  BY DEF IInv, FirstRecv, TypeOK, KeyAlive, Accepting, Waiting
<1>6. Handling'
  BY AttendedStays DEF IInv, Holding, FirstRecv, Handling
<1>7. Accepting'
  BY DEF FirstRecv, Accepting
<1>8. Down'
  BY DEF IInv, FirstRecv, Down, Accepting
<1>9. Pool'
  BY DEF IInv, FirstRecv, Pool
<1> QED
  BY <1>1, <1>2, <1>3, <1>4, <1>5, <1>6, <1>7, <1>8, <1>9 DEF IInv

\* A failing first receive posts nothing; the connection is abandoned.
LEMMA FirstRecvErrorStep ==
  ASSUME IInv, FirstRecvError
  PROVE  IInv'
<1>1. TypeOK'
  BY DEF IInv, FirstRecvError, TypeOK, AcceptPc
<1>2. Accepting'
  BY DEF FirstRecvError, Accepting
<1>3. Down'
  BY DEF IInv, FirstRecvError, Down
<1>4. Handling'
  BY AttendedStays DEF FirstRecvError, Handling
<1>5. Holding' /\ Placed' /\ OneReceive' /\ KeyAlive' /\ Pool'
  BY DEF IInv, FirstRecvError, Holding, Placed, OneReceive, KeyAlive, Pool,
         Waiting, Receives, Blocks
<1> QED
  BY <1>1, <1>2, <1>3, <1>4, <1>5 DEF IInv

\* The peer closing its end changes nothing the server has.
LEMMA PeerClosesStep ==
  ASSUME IInv, NEW c \in Conn, PeerCloses(c)
  PROVE  IInv'
<1>1. TypeOK'
  BY DEF IInv, PeerCloses, TypeOK
<1>2. Handling'
  BY AttendedStays DEF PeerCloses, Handling
<1>3. /\ Holding'
      /\ Placed'
      /\ OneReceive'
      /\ KeyAlive'
      /\ Accepting'
      /\ Pool'
      /\ Down'
  BY DEF IInv, PeerCloses, Holding, Placed, OneReceive, KeyAlive, Accepting,
         Pool, Down, Waiting, Receives, Blocks
<1> QED
  BY <1>1, <1>2, <1>3 DEF IInv

\* A completion moves a block from the kernel to the port.
LEMMA RecvCompletesStep ==
  ASSUME IInv, NEW i \in Io, RecvCompletes(i)
  PROVE  IInv'
<1>1. TypeOK'
  BY DEF IInv, RecvCompletes, TypeOK, Placed, Block, Waiting
<1>2. Holding'
  BY DEF IInv, RecvCompletes, Holding, Placed, Waiting
<1>3. Placed'
  BY NoneAssumption DEF IInv, RecvCompletes, TypeOK, Placed, Block, Waiting
<1>4. OneReceive'
  BY DEF IInv, RecvCompletes, OneReceive, Placed, Receives, Blocks, Waiting
<1>5. KeyAlive'
  BY DEF IInv, RecvCompletes, KeyAlive, Waiting
<1>6. Handling'
  <2> SUFFICES ASSUME NEW v \in Worker
               PROVE  Attended(v)'
    BY DEF Handling
  <2>1. cur[v] # i
    BY NoneAssumption DEF IInv, Placed, Waiting, RecvCompletes
  <2> QED
    BY <2>1, AttendedStays DEF IInv, TypeOK, RecvCompletes
<1>7. Accepting'
  BY DEF IInv, RecvCompletes, Accepting, Placed, Receives, Blocks, Waiting
<1>8. Down'
  BY DEF IInv, RecvCompletes, Down, Placed, Waiting
<1>9. Pool'
  BY DEF IInv, RecvCompletes, Pool
<1> QED
  BY <1>1, <1>2, <1>3, <1>4, <1>5, <1>6, <1>7, <1>8, <1>9 DEF IInv

\* So does the completion of a send, which is nobody's receive.
LEMMA SendCompletesStep ==
  ASSUME IInv, NEW i \in Io, SendCompletes(i)
  PROVE  IInv'
<1>1. TypeOK'
  BY DEF IInv, SendCompletes, TypeOK
<1>2. Placed'
  BY DEF IInv, SendCompletes, Placed, Waiting
<1>3. KeyAlive'
  BY DEF IInv, SendCompletes, KeyAlive, Waiting
<1>4. Handling'
  BY AttendedStays DEF SendCompletes, Handling
<1>5. Holding' /\ OneReceive' /\ Accepting' /\ Pool' /\ Down'
  BY DEF IInv, SendCompletes, Holding, OneReceive, Accepting, Pool, Down,
         Receives, Blocks
<1> QED
  BY <1>1, <1>2, <1>3, <1>4, <1>5 DEF IInv

\* A worker takes blocks nobody else has from the port.
LEMMA DequeueStep ==
  ASSUME IInv, NEW w \in Worker, NEW B \in SUBSET port, Dequeue(w, B)
  PROVE  IInv'
<1>1. TypeOK'
  BY DEF IInv, Dequeue, TypeOK, WorkerPc
<1>2. Holding'
  BY DEF IInv, Dequeue, TypeOK, Holding
<1>3. Placed'
  BY DEF IInv, Dequeue, TypeOK, Holding, Placed, KeyAlive, Handling, Accepting,
         Waiting
<1>4. KeyAlive'
  BY DEF IInv, Dequeue, KeyAlive, Waiting
<1>5. Handling'
  BY DEF IInv, Dequeue, Handling, Serving, Closing, Handle, Attended
<1>6. OneReceive' /\ Accepting' /\ Pool' /\ Down'
  BY DEF IInv, Dequeue, OneReceive, Accepting, Pool, Down, Receives, Blocks
<1> QED
  BY <1>1, <1>2, <1>3, <1>4, <1>5, <1>6 DEF IInv

\* A worker with nothing left in its array waits again.
LEMMA BatchDoneStep ==
  ASSUME IInv, NEW w \in Worker, BatchDone(w)
  PROVE  IInv'
<1>1. TypeOK'
  BY DEF IInv, BatchDone, TypeOK, WorkerPc
<1>2. Holding'
  BY DEF IInv, BatchDone, Holding
<1>3. Handling'
  <2> SUFFICES ASSUME NEW v \in Worker
               PROVE  Attended(v)'
    BY DEF Handling
  <2>1. CASE v = w
    BY <2>1 DEF IInv, TypeOK, BatchDone, Attended, Serving, Closing
  <2>2. CASE v # w
    BY <2>2, AttendedStays DEF IInv, TypeOK, BatchDone
  <2> QED
    BY <2>1, <2>2
<1>4. Placed' /\ OneReceive' /\ KeyAlive' /\ Accepting' /\ Pool' /\ Down'
  BY DEF IInv, BatchDone, Placed, OneReceive, KeyAlive, Accepting, Pool, Down,
         Waiting, Receives, Blocks
<1> QED
  BY <1>1, <1>2, <1>3, <1>4 DEF IInv

\* A completed send is freed by the worker that took it.
LEMMA ProcSendStep ==
  ASSUME IInv, NEW w \in Worker, NEW i \in Io, ProcSend(w, i)
  PROVE  IInv'
<1>1. TypeOK'
  BY DEF IInv, ProcSend, TypeOK
<1>2. Holding'
  BY DEF IInv, ProcSend, Holding
<1>3. Placed'
  BY NoneAssumption DEF IInv, ProcSend, TypeOK, Placed, Waiting
<1>4. OneReceive'
  BY DEF IInv, ProcSend, OneReceive, Receives, Blocks
<1>5. KeyAlive'
  BY DEF IInv, ProcSend, TypeOK, KeyAlive, Placed, Waiting
<1>6. Handling'
  BY AttendedStays DEF IInv, Holding, ProcSend, Handling
<1>7. Accepting'
  BY DEF IInv, ProcSend, Accepting, Receives, Blocks
<1>8. Down'
  BY DEF IInv, ProcSend, Down
<1>9. Pool'
  BY DEF IInv, ProcSend, Pool
<1> QED
  BY <1>1, <1>2, <1>3, <1>4, <1>5, <1>6, <1>7, <1>8, <1>9 DEF IInv

\* The worker that takes up a receive finds its connection alive.
LEMMA ProcReceiveStep ==
  ASSUME IInv, NEW w \in Worker, NEW i \in Io, ProcReceive(w, i)
  PROVE  IInv'
<1>1. TypeOK'
  BY DEF IInv, ProcReceive, TypeOK, KeyAlive, WorkerPc, Waiting
<1>2. Holding'
  BY NoneAssumption DEF IInv, ProcReceive, TypeOK, Holding, Placed, Waiting
<1>3. Placed'
  BY NoneAssumption DEF IInv, ProcReceive, TypeOK, Placed, Holding, Waiting
<1>4. KeyAlive'
  BY DEF IInv, ProcReceive, KeyAlive, Waiting
<1>5. Handling'
  <2> SUFFICES ASSUME NEW v \in Worker
               PROVE  Attended(v)'
    BY DEF Handling
  <2>1. CASE v = w
    <3>1. Waiting(i) /\ io[i] # None
      BY DEF IInv, Placed, ProcReceive, Waiting
    <3>2. cur'[w] = i /\ Handle(w)' = io[i].conn
      BY DEF IInv, TypeOK, ProcReceive, Handle
    <3>3. io[i].conn \in Conn /\ io[i].conn # None
      BY <3>1, NoneAssumption DEF IInv, TypeOK, Block
    <3> QED
      BY <2>1, <3>1, <3>2, <3>3
         DEF IInv, TypeOK, KeyAlive, ProcReceive, Attended, Serving, Closing
  <2>2. CASE v # w
    BY <2>2, AttendedStays DEF IInv, TypeOK, ProcReceive
  <2> QED
    BY <2>1, <2>2
<1>6. OneReceive' /\ Accepting' /\ Pool' /\ Down'
  BY DEF IInv, ProcReceive, OneReceive, Accepting, Pool, Down, Receives, Blocks
<1> QED
  BY <1>1, <1>2, <1>3, <1>4, <1>5, <1>6 DEF IInv

\* So does the one that takes up the end of a connection.
LEMMA ProcDisconnectStep ==
  ASSUME IInv, NEW w \in Worker, NEW i \in Io, ProcDisconnect(w, i)
  PROVE  IInv'
<1>1. TypeOK'
  BY DEF IInv, ProcDisconnect, TypeOK, KeyAlive, WorkerPc, Waiting
<1>2. Holding'
  BY NoneAssumption DEF IInv, ProcDisconnect, TypeOK, Holding, Placed, Waiting
<1>3. Placed'
  BY NoneAssumption DEF IInv, ProcDisconnect, TypeOK, Placed, Holding, Waiting
<1>4. KeyAlive'
  BY DEF IInv, ProcDisconnect, KeyAlive, Waiting
<1>5. Handling'
  <2> SUFFICES ASSUME NEW v \in Worker
               PROVE  Attended(v)'
    BY DEF Handling
  <2>1. CASE v = w
    <3>1. Waiting(i) /\ io[i] # None
      BY DEF IInv, Placed, ProcDisconnect, Waiting
    <3>2. cur'[w] = i /\ Handle(w)' = io[i].conn
      BY DEF IInv, TypeOK, ProcDisconnect, Handle
    <3>3. io[i].conn \in Conn /\ io[i].conn # None
      BY <3>1, NoneAssumption DEF IInv, TypeOK, Block
    <3> QED
      BY <2>1, <3>1, <3>2, <3>3
         DEF IInv, TypeOK, KeyAlive, ProcDisconnect, Attended, Serving, Closing
  <2>2. CASE v # w
    BY <2>2, AttendedStays DEF IInv, TypeOK, ProcDisconnect
  <2> QED
    BY <2>1, <2>2
<1>6. OneReceive' /\ Accepting' /\ Pool' /\ Down'
  BY DEF IInv, ProcDisconnect, OneReceive, Accepting, Pool, Down, Receives,
         Blocks
<1> QED
  BY <1>1, <1>2, <1>3, <1>4, <1>5, <1>6 DEF IInv

\* Preparing an answer touches neither blocks nor connections.
LEMMA RespondStep ==
  ASSUME IInv, NEW w \in Worker, Respond(w)
  PROVE  IInv'
<1>1. TypeOK'
  BY DEF IInv, Respond, CastGroup, Sessions, TypeOK, Handling, WorkerPc,
         Serving, Attended
<1>2. Holding'
  BY DEF IInv, Respond, Holding
<1>3. Handling'
  BY DEF IInv, Respond, Holding, Handling, Serving, Closing, Handle, Attended
<1>4. Placed' /\ OneReceive' /\ KeyAlive' /\ Accepting' /\ Pool' /\ Down'
  BY DEF IInv, Respond, Placed, OneReceive, KeyAlive, Accepting, Pool, Down,
         Waiting, Receives, Blocks
<1> QED
  BY <1>1, <1>2, <1>3, <1>4 DEF IInv

\* Nor does the end of the parsing.
LEMMA ParseDoneStep ==
  ASSUME IInv, NEW w \in Worker, ParseDone(w)
  PROVE  IInv'
<1>1. TypeOK'
  BY DEF IInv, ParseDone, TypeOK, WorkerPc
<1>2. Holding'
  BY DEF IInv, ParseDone, Holding
<1>3. Handling'
  BY DEF IInv, ParseDone, Handling, Serving, Closing, Handle, Attended
<1>4. Placed' /\ OneReceive' /\ KeyAlive' /\ Accepting' /\ Pool' /\ Down'
  BY DEF IInv, ParseDone, Placed, OneReceive, KeyAlive, Accepting, Pool, Down,
         Waiting, Receives, Blocks
<1> QED
  BY <1>1, <1>2, <1>3, <1>4 DEF IInv

\* A send takes an unused block, which is no receive.
LEMMA SendOneStep ==
  ASSUME IInv, NEW w \in Worker, NEW s \in Socket, SendOne(w, s)
  PROVE  IInv'
<1>1. TypeOK'
  BY DEF IInv, SendOne, TypeOK, Block
<1>2. Holding'
  BY DEF IInv, SendOne, Holding
<1>3. Placed'
  BY NoneAssumption DEF IInv, SendOne, TypeOK, Placed, Block, Waiting
<1>4. OneReceive'
  BY DEF IInv, SendOne, OneReceive, Receives, Blocks
<1>5. KeyAlive'
  BY DEF IInv, SendOne, TypeOK, KeyAlive, Waiting
<1>6. Handling'
  BY AttendedStays DEF IInv, Holding, SendOne, Handling
<1>7. Accepting'
  BY DEF IInv, SendOne, Accepting, Receives, Blocks
<1>8. Down'
  BY DEF IInv, SendOne, TypeOK, Down, Holding
<1>9. Pool'
  BY DEF IInv, SendOne, Pool
<1> QED
  BY <1>1, <1>2, <1>3, <1>4, <1>5, <1>6, <1>7, <1>8, <1>9 DEF IInv

\* A failing send leaves its target alone.
LEMMA SendOneLeaksStep ==
  ASSUME IInv, NEW w \in Worker, NEW s \in Socket, SendOneLeaks(w, s)
  PROVE  IInv'
<1>1. TypeOK'
  BY DEF IInv, SendOneLeaks, TypeOK
<1>2. Handling'
  BY AttendedStays DEF SendOneLeaks, Handling
<1>3. /\ Holding'
      /\ Placed'
      /\ OneReceive'
      /\ KeyAlive'
      /\ Accepting'
      /\ Pool'
      /\ Down'
  BY DEF IInv, SendOneLeaks, Holding, Placed, OneReceive, KeyAlive, Accepting,
         Pool, Down, Waiting, Receives, Blocks
<1> QED
  BY <1>1, <1>2, <1>3 DEF IInv

\* After the sends the bytes of the receive decide how the worker goes on.
LEMMA SendDoneStep ==
  ASSUME IInv, NEW w \in Worker, SendDone(w)
  PROVE  IInv'
<1>1. TypeOK'
  BY DEF IInv, SendDone, TypeOK, WorkerPc
<1>2. Holding'
  BY DEF IInv, SendDone, TypeOK, Holding, Block
<1>3. Handling'
  <2> SUFFICES ASSUME NEW v \in Worker
               PROVE  Attended(v)'
    BY DEF Handling
  <2>1. CASE v = w
    <3>1. io[cur[w]].bytes > 0 \/ io[cur[w]].bytes = 0
      BY HandleType DEF IInv, Holding, Block, SendDone
    <3>2. Attended(w)
      BY DEF IInv, Handling
    <3>3. Handle(w)' = Handle(w)
      BY DEF SendDone, Handle
    <3> QED
      BY <2>1, <3>1, <3>2, <3>3
         DEF IInv, TypeOK, SendDone, Attended, Serving, Closing
  <2>2. CASE v # w
    BY <2>2, AttendedStays DEF IInv, TypeOK, SendDone
  <2> QED
    BY <2>1, <2>2
<1>4. Placed' /\ OneReceive' /\ KeyAlive' /\ Accepting' /\ Pool' /\ Down'
  BY DEF IInv, SendDone, Placed, OneReceive, KeyAlive, Accepting, Pool, Down,
         Waiting, Receives, Blocks
<1> QED
  BY <1>1, <1>2, <1>3, <1>4 DEF IInv

\* The worker posts its own block again, for a connection that is still alive,
\* and drops it.
LEMMA RearmStep ==
  ASSUME IInv, NEW w \in Worker, Rearm(w)
  PROVE  IInv'
<1>1. /\ cur[w] \in Io
      /\ io[cur[w]].op = "recv"
      /\ io' = [io EXCEPT ![cur[w]] =
                  [op |-> "recv", conn |-> Handle(w), bytes |-> 0]]
      /\ Handle(w) \in Conn
  <2>1. cur[w] # None
    BY DEF IInv, Holding, Rearm
  <2>2. key[sock[Handle(w)]] = Handle(w)
    BY DEF IInv, Handling, Attended, Serving, Rearm
  <2> QED
    BY <2>1, <2>2, HandleType DEF IInv, Holding, Rearm
<1>2. ASSUME NEW c \in Conn
      PROVE  Receives(c)' = Receives(c)
  <2>1. io[cur[w]] # None /\ io'[cur[w]] # None
    BY <1>1, NoneAssumption DEF IInv, TypeOK, Holding, Block, Rearm
  <2>2. \A i \in Io : i # cur[w] => io'[i] = io[i]
    BY <1>1 DEF IInv, TypeOK
  <2>3. io'[cur[w]].op = "recv" /\ io'[cur[w]].conn = Handle(w)
    BY <1>1 DEF IInv, TypeOK
  <2> QED
    BY <1>1, <2>1, <2>2, <2>3 DEF Receives, Blocks, Handle
<1>3. TypeOK'
  BY <1>1 DEF IInv, Rearm, TypeOK, Block, WorkerPc
<1>4. Holding'
  BY DEF IInv, Rearm, TypeOK, Holding, Placed
<1>5. Placed'
  <2>1. io'[cur[w]] # None
    BY <1>1, NoneAssumption DEF IInv, TypeOK, Block
  <2>2. \A i \in Io : Waiting(i)' <=> Waiting(i) \/ i = cur[w]
    BY DEF Waiting, Rearm
  <2>3. \A i \in Io : (\E v \in Worker : cur'[v] = i) <=>
                      i # cur[w] /\ \E v \in Worker : cur[v] = i
    BY <1>1, NoneAssumption DEF IInv, TypeOK, Placed, Rearm
  <2>4. ~Waiting(cur[w])
    BY <1>1, NoneAssumption DEF IInv, Placed
  <2>5. \A i \in Io :
          io'[i] # None <=> Waiting(i)' \/ \E v \in Worker : cur'[v] = i
    BY <1>1, <2>1, <2>2, <2>3 DEF IInv, TypeOK, Placed
  <2>6. \A v \in Worker : (cur[v] # None => ~Waiting(cur[v]))'
    <3> SUFFICES ASSUME NEW v \in Worker, cur'[v] # None
                 PROVE  ~Waiting(cur[v])'
      OBVIOUS
    <3>1. v # w /\ cur'[v] = cur[v] /\ cur[v] \in Io /\ cur[v] # None
      BY DEF IInv, TypeOK, Rearm
    <3>2. cur[v] # cur[w] /\ ~Waiting(cur[v])
      BY <3>1 DEF IInv, Placed
    <3> QED
      BY <3>1, <3>2 DEF Waiting, Rearm
  <2>7. \A u, v \in Worker : u # v /\ cur'[u] = cur'[v] => cur'[v] = None
    BY DEF IInv, TypeOK, Placed, Rearm
  <2> QED
    BY <2>4, <2>5, <2>6, <2>7 DEF IInv, Placed, Waiting, Rearm
<1>6. OneReceive'
  BY <1>2 DEF IInv, OneReceive
<1>7. KeyAlive'
  <2> SUFFICES ASSUME NEW i \in Io, Waiting(i)', io'[i].op = "recv"
               PROVE  LET c == io'[i].conn IN
                        /\ sock[c] \in open
                        /\ key[sock[c]] = c
                        /\ sessionMap[sock[c]] = c
    BY DEF KeyAlive, Rearm
  <2>1. CASE i = cur[w]
    <3>1. io'[i].conn = Handle(w)
      BY <2>1, <1>1 DEF IInv, TypeOK
    <3> QED
      BY <3>1 DEF IInv, Handling, Attended, Serving, Rearm
  <2>2. CASE i # cur[w]
    <3>1. io'[i] = io[i] /\ Waiting(i)
      BY <2>2 DEF Waiting, Rearm
    <3> QED
      BY <3>1 DEF IInv, KeyAlive
  <2> QED
    BY <2>1, <2>2
<1>8. Handling'
  <2> SUFFICES ASSUME NEW v \in Worker
               PROVE  Attended(v)'
    BY DEF Handling
  <2>1. CASE v = w
    BY <2>1 DEF IInv, TypeOK, Rearm, Attended, Serving, Closing
  <2>2. CASE v # w
    <3>1. cur[w] # None
      BY DEF IInv, Holding, Rearm
    <3>2. cur[v] # None => cur[v] # cur[w]
      BY <2>2, <3>1, SoleHandler
    <3> QED
      BY <2>2, <3>2, AttendedStays DEF Rearm
  <2> QED
    BY <2>1, <2>2
<1>9. Accepting'
  BY <1>2 DEF IInv, TypeOK, Rearm, Accepting
<1>30. Down'
  BY DEF IInv, Rearm, Down, Holding
<1>31. Pool'
  BY DEF IInv, Rearm, Pool
<1> QED
  BY <1>3, <1>4, <1>5, <1>6, <1>7, <1>8, <1>9, <1>30, <1>31 DEF IInv

\* When that fails the worker drops its block all the same.
LEMMA RearmErrorStep ==
  ASSUME IInv, NEW w \in Worker, RearmError(w)
  PROVE  IInv'
<1>1. TypeOK'
  BY DEF IInv, RearmError, TypeOK, WorkerPc
<1>2. Holding'
  BY DEF IInv, RearmError, TypeOK, Holding, Placed
<1>3. Placed'
  BY NoneAssumption DEF IInv, RearmError, TypeOK, Placed, Waiting
<1>4. OneReceive'
  BY DEF IInv, RearmError, OneReceive, Receives, Blocks
<1>5. KeyAlive'
  BY NoneAssumption DEF IInv, RearmError, KeyAlive, Placed, Waiting
<1>6. Handling'
  <2> SUFFICES ASSUME NEW v \in Worker
               PROVE  Attended(v)'
    BY DEF Handling
  <2>1. CASE v = w
    BY <2>1 DEF IInv, TypeOK, RearmError, Attended, Serving, Closing
  <2>2. CASE v # w
    <3>1. cur[w] # None
      BY DEF IInv, Holding, RearmError
    <3>2. cur[v] # None => cur[v] # cur[w]
      BY <2>2, <3>1, SoleHandler
    <3> QED
      BY <2>2, <3>2, AttendedStays DEF RearmError
  <2> QED
    BY <2>1, <2>2
<1>7. Accepting'
  BY DEF IInv, RearmError, Accepting, Receives, Blocks
<1>8. Down'
  BY DEF IInv, RearmError, Down
<1>9. Pool'
  BY DEF IInv, RearmError, Pool
<1> QED
  BY <1>1, <1>2, <1>3, <1>4, <1>5, <1>6, <1>7, <1>8, <1>9 DEF IInv

\* Only the handler of a connection erases its session, while no receive of the
\* connection is waiting.
LEMMA EraseSessionStep ==
  ASSUME IInv, NEW w \in Worker, EraseSession(w)
  PROVE  IInv'
<1>1. TypeOK'
  BY DEF IInv, EraseSession, TypeOK, WorkerPc
<1>2. Holding'
  BY DEF IInv, EraseSession, Holding
<1>3. KeyAlive'
  BY DEF IInv, EraseSession, Handle, TypeOK, KeyAlive, Holding, OneReceive,
         Handling, Placed, Waiting, Receives, Blocks, Serving, Attended
<1>4. Handling'
  <2> SUFFICES ASSUME NEW v \in Worker
               PROVE  Attended(v)'
    BY DEF Handling
  <2>1. /\ pc'[v] = pc[v] <=> v # w
        /\ v # w => session'[v] = session[v]
        /\ cur' = cur /\ io' = io /\ sock' = sock
        /\ Handle(v)' = Handle(v)
    BY DEF IInv, TypeOK, EraseSession, Handle
  <2>2. Attended(v) /\ Attended(w)
    BY DEF IInv, Handling
  <2>3. CASE v = w
    BY <2>3, <2>1, <2>2, SocketOfHandled, NoneAssumption
       DEF IInv, TypeOK, Holding, Attended, Serving, Closing, EraseSession
  <2>4. CASE v # w /\ cur[v] = None
    BY <2>4, <2>1 DEF IInv, Holding, Attended, Serving, Closing
  <2>5. CASE v # w /\ cur[v] # None
    <3>1. Serving(v)' = Serving(v) /\ Closing(v)' = Closing(v)
      BY <2>5, <2>1 DEF Serving, Closing
    <3>2. Serving(v) \/ Closing(v) => sock[Handle(v)] # sock[Handle(w)]
      <4>1. Handle(v) # Handle(w)
        BY <2>5, SoleHandler DEF IInv, Holding, EraseSession
      <4> QED
        BY <4>1, <2>2 DEF Attended, Serving, Closing, EraseSession
    <3>3. Handle(v) \in Conn
      BY <2>5, HandleType
    <3> QED
      BY <2>5, <2>1, <2>2, <3>1, <3>2, <3>3, NoneAssumption
         DEF IInv, TypeOK, Attended, EraseSession
  <2> QED
    BY <2>3, <2>4, <2>5
<1>5. Accepting'
  BY DEF IInv, EraseSession, Handle, TypeOK, Accepting, Holding, Handling,
         Receives, Blocks, Serving, Attended
<1>6. Pool'
  BY DEF IInv, EraseSession, Pool
<1>7. Placed' /\ OneReceive' /\ Down'
  BY DEF IInv, EraseSession, Placed, OneReceive, Down, Waiting, Receives,
         Blocks
<1> QED
  BY <1>1, <1>2, <1>3, <1>4, <1>5, <1>6, <1>7 DEF IInv

\* The broadcast of an exit is prepared for others.
LEMMA AnnounceExitStep ==
  ASSUME IInv, NEW w \in Worker, AnnounceExit(w)
  PROVE  IInv'
<1>1. TypeOK'
  BY DEF IInv, AnnounceExit, Sessions, TypeOK, WorkerPc
<1>2. Holding'
  BY DEF IInv, AnnounceExit, Holding
<1>3. Handling'
  <2> SUFFICES ASSUME NEW v \in Worker
               PROVE  Attended(v)'
    BY DEF Handling
  <2>1. CASE v = w
    <3>1. Closing(w) /\ io[cur[w]].bytes = 0
      BY DEF IInv, Holding, AnnounceExit, Closing
    <3>2. pc'[w] = "send" /\ Handle(w)' = Handle(w)
      BY DEF IInv, TypeOK, AnnounceExit, Handle
    <3>3. Attended(w)
      BY DEF IInv, Handling
    <3> QED
      BY <2>1, <3>1, <3>2, <3>3 DEF AnnounceExit, Attended, Serving, Closing
  <2>2. CASE v # w
    BY <2>2, AttendedStays DEF IInv, TypeOK, AnnounceExit
  <2> QED
    BY <2>1, <2>2
<1>4. Placed' /\ OneReceive' /\ KeyAlive' /\ Accepting' /\ Pool' /\ Down'
  BY DEF IInv, AnnounceExit, Placed, OneReceive, KeyAlive, Accepting, Pool,
         Down, Waiting, Receives, Blocks
<1> QED
  BY <1>1, <1>2, <1>3, <1>4 DEF IInv

\* A handle is closed by its only handler, after its session is gone.
LEMMA CloseSocketStep ==
  ASSUME IInv, NEW w \in Worker, CloseSocket(w)
  PROVE  IInv'
<1>1. TypeOK'
  BY DEF IInv, CloseSocket, TypeOK, WorkerPc
<1>2. Holding'
  BY DEF IInv, CloseSocket, Holding
<1>3. KeyAlive'
  BY NoneAssumption
     DEF IInv, CloseSocket, Handle, TypeOK, KeyAlive, Holding, Handling, Block,
         Waiting, Closing, Attended
<1>4. Handling'
  <2> SUFFICES ASSUME NEW v \in Worker
               PROVE  Attended(v)'
    BY DEF Handling
  <2>1. /\ pc'[v] = pc[v] <=> v # w
        /\ v # w => session'[v] = session[v]
        /\ cur' = cur /\ io' = io /\ sock' = sock
        /\ Handle(v)' = Handle(v)
    BY DEF IInv, TypeOK, CloseSocket, Handle
  <2>2. Attended(v) /\ Attended(w)
    BY DEF IInv, Handling
  <2>3. CASE v = w
    <3>1. cur[w] # None /\ Closing(w)
      BY DEF IInv, Holding, CloseSocket, Closing
    <3>2. sock[Handle(w)] # None
      BY <3>1, SocketOfHandled
    <3>3. sessionMap[sock[Handle(w)]] # Handle(w)
      BY <2>2, <3>1, HandleType, NoneAssumption DEF Attended
    <3>4. pc'[w] = "free" /\ sessionMap' = sessionMap
      BY DEF IInv, TypeOK, CloseSocket
    <3> QED
      BY <2>3, <2>1, <3>2, <3>3, <3>4 DEF Attended, Serving, Closing
  <2>4. CASE v # w /\ cur[v] = None
    BY <2>4, <2>1 DEF IInv, Holding, Attended, Serving, Closing
  <2>5. CASE v # w /\ cur[v] # None
    <3>1. Serving(v)' = Serving(v) /\ Closing(v)' = Closing(v)
      BY <2>5, <2>1 DEF Serving, Closing
    <3>2. Serving(v) \/ Closing(v) => sock[Handle(v)] # sock[Handle(w)]
      <4>1. Handle(v) # Handle(w)
        BY <2>5, SoleHandler DEF IInv, Holding, CloseSocket
      <4> QED
        BY <4>1, <2>2 DEF Attended, Serving, Closing, CloseSocket
    <3>3. Handle(v) \in Conn
      BY <2>5, HandleType
    <3> QED
      BY <2>5, <2>1, <2>2, <3>1, <3>2, <3>3, NoneAssumption
         DEF IInv, TypeOK, Attended, CloseSocket
  <2> QED
    BY <2>3, <2>4, <2>5
<1>5. Accepting'
  BY NoneAssumption
     DEF IInv, CloseSocket, Handle, TypeOK, Accepting, Holding, Handling,
         Block, AcceptPc, Receives, Blocks, Closing, Attended
<1>6. Pool'
  BY DEF IInv, CloseSocket, TypeOK, Pool, Handling, Closing, Attended
<1>7. Placed' /\ OneReceive' /\ Down'
  BY DEF IInv, CloseSocket, Placed, OneReceive, Down, Waiting, Receives, Blocks
<1> QED
  BY <1>1, <1>2, <1>3, <1>4, <1>5, <1>6, <1>7 DEF IInv

\* A connection is freed when it has no key, no session and no other handler.
LEMMA FreeHandleStep ==
  ASSUME IInv, NEW w \in Worker, FreeHandle(w)
  PROVE  IInv'
<1>1. TypeOK'
  BY DEF IInv, FreeHandle, TypeOK, WorkerPc
<1>2. Holding'
  BY DEF IInv, FreeHandle, TypeOK, Holding, Placed
<1>3. Placed'
  BY NoneAssumption DEF IInv, FreeHandle, TypeOK, Placed, Waiting
<1>4. OneReceive'
  BY DEF IInv, FreeHandle, OneReceive, Receives, Blocks
<1>5. KeyAlive'
  BY DEF IInv, FreeHandle, Handle, KeyAlive, Holding, Handling, Waiting,
         Attended
<1>6. Handling'
  <2> SUFFICES ASSUME NEW v \in Worker
               PROVE  Attended(v)'
    BY DEF Handling
  <2>1. CASE v = w
    BY <2>1 DEF IInv, TypeOK, FreeHandle, Attended, Serving, Closing
  <2>2. CASE v # w
    <3>1. cur[w] # None
      BY DEF IInv, Holding, FreeHandle
    <3>2. cur[v] # None => cur[v] # cur[w] /\ Handle(v) # Handle(w)
      BY <2>2, <3>1, SoleHandler
    <3> QED
      BY <2>2, <3>2, AttendedStays DEF FreeHandle
  <2> QED
    BY <2>1, <2>2
<1>7. Accepting'
  BY DEF IInv, FreeHandle, Handle, TypeOK, Accepting, Holding, Receives, Blocks
<1>8. Pool'
  BY DEF IInv, FreeHandle, Pool, Handling, Attended
<1>9. Down'
  BY DEF IInv, FreeHandle, Down
<1> QED
  BY <1>1, <1>2, <1>3, <1>4, <1>5, <1>6, <1>7, <1>8, <1>9 DEF IInv

-----------------------------------------------------------------------------
(* The invariant. *)

\* IInv holds when the process starts.
LEMMA InitInv == Init => IInv
<1> SUFFICES ASSUME Init
             PROVE  IInv
  OBVIOUS
<1>1. TypeOK
  BY DEF Init, TypeOK, MainPc, AcceptPc, WorkerPc
<1>2. Holding /\ Handling
  BY DEF Init, Holding, Handling, Attended, Serving, Closing
<1>3. Placed /\ KeyAlive
  BY NoneAssumption DEF Init, Placed, KeyAlive, Waiting
<1>4. OneReceive /\ Accepting
  BY DEF Init, OneReceive, Accepting, Receives, Blocks
<1>5. Pool /\ Down
  BY DEF Init, Pool, Down
<1> QED
  BY <1>1, <1>2, <1>3, <1>4, <1>5 DEF IInv

\* No step of any thread, of the kernel or of a peer breaks IInv.
LEMMA NextInv == IInv /\ [Next]_vars => IInv'
<1> SUFFICES ASSUME IInv, [Next]_vars
             PROVE  IInv'
  OBVIOUS
<1>1. CASE Main
  BY <1>1, InitializeStep, StartStep, JoinAcceptStep, JoinWorkersAndDestroyStep
     DEF Main
<1>2. CASE Accept
  BY <1>2, AcceptClientStep, AcceptErrorStep, CreateSessionStep, AssociateStep,
     FirstRecvStep, FirstRecvErrorStep
     DEF Accept
<1>3. CASE Kernel
  BY <1>3, PeerClosesStep, RecvCompletesStep, SendCompletesStep DEF Kernel
<1>4. ASSUME NEW w \in Worker, ReadCompletionStatus(w)
      PROVE  IInv'
  <2>1. ASSUME NEW i \in batch[w],
               ProcSend(w, i) \/ ProcReceive(w, i) \/ ProcDisconnect(w, i)
        PROVE  IInv'
    <3>1. i \in Io
      BY DEF IInv, TypeOK
    <3> QED
      BY <2>1, <3>1, ProcSendStep, ProcReceiveStep, ProcDisconnectStep
  <2>2. ASSUME NEW s \in Socket, SendOne(w, s) \/ SendOneLeaks(w, s)
        PROVE  IInv'
    BY <2>2, SendOneStep, SendOneLeaksStep
  <2>3. ASSUME NEW B \in SUBSET port, Dequeue(w, B)
        PROVE  IInv'
    BY <2>3, DequeueStep
  <2> QED
    BY <1>4, <2>1, <2>2, <2>3, BatchDoneStep, RespondStep, ParseDoneStep,
       SendDoneStep, RearmStep, RearmErrorStep, EraseSessionStep,
       AnnounceExitStep, CloseSocketStep, FreeHandleStep
       DEF ReadCompletionStatus, ProcCompletion
<1>5. CASE UNCHANGED vars
  <2>1. Handling'
    BY <1>5, AttendedStays DEF vars, Handling
  <2>2. TypeOK' /\ Holding' /\ Accepting' /\ Pool' /\ Down'
    BY <1>5
       DEF vars, IInv, TypeOK, Holding, Accepting, Pool, Down, Receives, Blocks
  <2>3. Placed' /\ OneReceive' /\ KeyAlive'
    BY <1>5
       DEF vars, IInv, Placed, OneReceive, KeyAlive, Waiting, Receives, Blocks
  <2> QED
    BY <2>1, <2>2, <2>3 DEF IInv
<1> QED
  BY <1>1, <1>2, <1>3, <1>4, <1>5 DEF Next

\* IInv holds in every reachable state.
THEOREM Invariance == Spec => []IInv
  BY InitInv, NextInv, PTL DEF Spec

-----------------------------------------------------------------------------
(* What it says of Core/TPServer.cpp and SessionPool. *)

\* Every variable keeps its type; in particular the key a socket is associated
\* with and the session in the pool are always connections or None.
THEOREM TypeCorrect == Spec => []TypeOK
<1>1. IInv => TypeOK
  BY DEF IInv
<1> QED
  BY <1>1, Invariance, PTL

\* Each PER_IO_DATA in use is with the kernel, at the port or with exactly one
\* worker, so ProcCompletion never deletes or posts a block somebody else uses.
THEOREM BlocksPlaced == Spec => []Placed
<1>1. IInv => Placed
  BY DEF IInv
<1> QED
  BY <1>1, Invariance, PTL

\* However many workers there are, a connection has one receive at most, from
\* WSARecv to the WSARecv at the end of ProcCompletion.
THEOREM ReceivesAreSequential == Spec => []OneReceive
<1>1. IInv => OneReceive
  BY DEF IInv
<1> QED
  BY <1>1, Invariance, PTL

\* The key of a receive that is waiting is a live PER_HANDLE_DATA with an open,
\* associated socket and a session: ProcCompletion dereferences no freed block.
THEOREM KeysAlive == Spec => []KeyAlive
<1>1. IInv => KeyAlive
  BY DEF IInv
<1> QED
  BY <1>1, Invariance, PTL

\* The Session a worker got from GetSession is not deleted while it uses it.
THEOREM SessionsStay == Spec => []SessionStays
<1>1. IInv => SessionStays
  BY DEF IInv, Handling, Attended, Serving, SessionStays
<1> QED
  BY <1>1, Invariance, PTL

\* The pool holds no session under a handle that is closed or has been given to
\* another client, and CreateSession never finds an entry in its way.
THEOREM PoolFresh == Spec => []NoStaleEntry
<1>1. IInv => NoStaleEntry
  BY DEF IInv, Pool, Accepting, NoStaleEntry
<1> QED
  BY <1>1, Invariance, PTL

\* A connection is handled by one worker at a time.
OneHandler ==
  \A v, w \in Worker :
    v # w /\ cur[v] # None /\ cur[w] # None => Handle(v) # Handle(w)

\* No two workers run ProcCompletion for receives of one client: this is the
\* only mutual exclusion the unlocked Session has.
THEOREM HandlersExclude == Spec => []OneHandler
<1>1. IInv => OneHandler
  BY SoleHandler DEF OneHandler
<1> QED
  BY <1>1, Invariance, PTL
=============================================================================
