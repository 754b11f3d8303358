--------------------------- MODULE CompletionPort ---------------------------
(***************************************************************************)
(* The input/output core of TPServer (Core/TPServer.cpp) with the part of  *)
(* SessionPool it calls: the main thread, the accept thread, one worker    *)
(* thread per processor that takes completions from one completion port,   *)
(* the kernel that completes receives and sends, and the clients.          *)
(*                                                                         *)
(* A connection c \in Conn is a PER_HANDLE_DATA block together with the    *)
(* TCP connection it was allocated for and the Session created for it; the *)
(* block is reused for a later connection once it is freed, as an          *)
(* allocator may.  A block i \in Io is a PER_IO_DATA.  A block that no     *)
(* completion will ever return (WSASend or WSARecv failed) is leaked by    *)
(* the program; the model forgets it, since nothing can reach it again.    *)
(*                                                                         *)
(* The completion port and a worker's array of completions are sets: the   *)
(* port hands out completions of different operations in the order they    *)
(* happened to complete, which is any order, and no code depends on it.    *)
(***************************************************************************)
EXTENDS Naturals, FiniteSets

CONSTANTS
  Conn,    \* PER_HANDLE_DATA blocks
  Socket,  \* socket handle values
  Worker,  \* completion threads, one per processor
  Io,      \* PER_IO_DATA blocks in use at once
  None,    \* no connection, no block, no socket
  MAX_OVERLAPPED_ENTRY  \* size of a worker's array of completions

ASSUME EntryAssumption == MAX_OVERLAPPED_ENTRY \in Nat \ {0}

VARIABLES
  mainPc,      \* where TPServer::Play is
  netUp,       \* WSAStartup succeeded, so the workers were started
  acceptPc,    \* where TPServer::Accept is
  acceptConn,  \* its perHandleData
  sock,        \* PER_HANDLE_DATA.hClntSock, None when the block is free
  open,        \* kernel: the open client sockets
  key,         \* kernel: the completion key a socket is associated with
  peerClosed,  \* kernel: connections whose stream has ended
  sessionMap,  \* SessionPool::sessionMap, a Session named by its connection
  io,          \* PER_IO_DATA and the completion it carries, None when free
  pending,     \* kernel: the blocks of receives and sends in progress
  port,        \* kernel: the blocks queued at the completion port
  pc,          \* where a worker is in ReadCompletionStatus and its callees
  batch,       \* the completions of a worker's array it has not finished
  cur,         \* perIoData of the completion it is processing
  session,     \* the Session pointer GetSession or find returned to it
  targets      \* sockets its SendPacketAll has still to send to

mainVars   == <<mainPc, netUp>>
acceptVars == <<acceptPc, acceptConn>>
kernelVars == <<open, key, peerClosed>>
ioVars     == <<io, pending, port>>
workerVars == <<pc, batch, cur, session, targets>>
vars == <<mainVars, acceptVars, sock, kernelVars, sessionMap, ioVars,
          workerVars>>

Block == [op : {"recv", "send"}, conn : Conn, bytes : {0, 1}]

ASSUME NoneAssumption == None \notin Conn \cup Socket \cup Io \cup Block

MainPc   == {"initialize", "start", "joinAccept", "joinWorkers", "exit"}
AcceptPc == {"off", "accept", "session", "associate", "recv", "exit"}
WorkerPc == {"wait", "next", "parse", "send", "rearm", "erase", "announce",
             "close", "free"}

TypeOK ==
  /\ mainPc \in MainPc
  /\ netUp \in BOOLEAN
  /\ acceptPc \in AcceptPc
  /\ acceptConn \in Conn \cup {None}
  /\ sock \in [Conn -> Socket \cup {None}]
  /\ open \subseteq Socket
  /\ key \in [Socket -> Conn \cup {None}]
  /\ peerClosed \subseteq Conn
  /\ sessionMap \in [Socket -> Conn \cup {None}]
  /\ io \in [Io -> Block \cup {None}]
  /\ pending \subseteq Io
  /\ port \subseteq Io
  /\ pc \in [Worker -> WorkerPc]
  /\ batch \in [Worker -> SUBSET Io]
  /\ cur \in [Worker -> Io \cup {None}]
  /\ session \in [Worker -> Conn \cup {None}]
  /\ targets \in [Worker -> SUBSET Socket]

Init ==
  /\ mainPc = "initialize"
  /\ netUp = FALSE
  /\ acceptPc = "off"
  /\ acceptConn = None
  /\ sock = [c \in Conn |-> None]
  /\ open = {}
  /\ key = [s \in Socket |-> None]
  /\ peerClosed = {}
  /\ sessionMap = [s \in Socket |-> None]
  /\ io = [i \in Io |-> None]
  /\ pending = {}
  /\ port = {}
  /\ pc = [w \in Worker |-> "wait"]
  /\ batch = [w \in Worker |-> {}]
  /\ cur = [w \in Worker |-> None]
  /\ session = [w \in Worker |-> None]
  /\ targets = [w \in Worker |-> {}]

-----------------------------------------------------------------------------
(* The main thread: TPServer::Play. *)

\* WSAStartup may fail, and then Initialize returns before it starts workers.
Initialize ==
  /\ mainPc = "initialize"
  /\ netUp' \in BOOLEAN
  /\ mainPc' = "start"
  /\ UNCHANGED <<acceptVars, sock, kernelVars, sessionMap, ioVars, workerVars>>

Start ==
  /\ mainPc = "start"
  /\ acceptPc' = "accept"
  /\ mainPc' = "joinAccept"
  /\ UNCHANGED <<netUp, acceptConn, sock, kernelVars, sessionMap, ioVars,
                 workerVars>>

JoinAccept ==
  /\ mainPc = "joinAccept"
  /\ acceptPc = "exit"
  /\ mainPc' = "joinWorkers"
  /\ UNCHANGED <<netUp, acceptVars, sock, kernelVars, sessionMap, ioVars,
                 workerVars>>

\* A worker loops forever, so the joins return only when there is no worker.
JoinWorkersAndDestroy ==
  /\ mainPc = "joinWorkers"
  /\ ~netUp
  /\ sessionMap' = [s \in Socket |-> None]
  /\ mainPc' = "exit"
  /\ UNCHANGED <<netUp, acceptVars, sock, kernelVars, ioVars, workerVars>>

-----------------------------------------------------------------------------
(* The accept thread: TPServer::Accept. *)

\* Mutant: the first receive is posted without a session in the pool.
AcceptClient_NoSession(c, s) ==
  /\ acceptPc = "accept"
  /\ netUp
  /\ s \notin open
  /\ sock[c] = None
  /\ sock' = [sock EXCEPT ![c] = s]
  /\ open' = open \cup {s}
  /\ acceptConn' = c
  /\ acceptPc' = "associate"
  /\ UNCHANGED <<mainVars, key, peerClosed, sessionMap, ioVars, workerVars>>

\* WSAAccept returns handle s, unused by any open socket; c is the new block.
AcceptClient(c, s) ==
  /\ acceptPc = "accept"
  /\ netUp
  /\ s \notin open
  /\ sock[c] = None
  /\ sock' = [sock EXCEPT ![c] = s]
  /\ open' = open \cup {s}
  /\ acceptConn' = c
  /\ acceptPc' = "session"
  /\ UNCHANGED <<mainVars, key, peerClosed, sessionMap, ioVars, workerVars>>

\* Any error of WSAAccept ends the loop, and with it the thread.
AcceptError ==
  /\ acceptPc = "accept"
  /\ acceptPc' = "exit"
  /\ UNCHANGED <<mainVars, acceptConn, sock, kernelVars, sessionMap, ioVars,
                 workerVars>>

\* std::map::insert keeps the entry that is already there.
Inserted(s, c) ==
  IF sessionMap[s] = None THEN [sessionMap EXCEPT ![s] = c] ELSE sessionMap

\* Mutant: the socket is never associated with the port.
CreateSession_NoAssociate ==
  /\ acceptPc = "session"
  /\ sessionMap' = Inserted(sock[acceptConn], acceptConn)
  /\ acceptPc' = "recv"
  /\ UNCHANGED <<mainVars, acceptConn, sock, kernelVars, ioVars, workerVars>>

CreateSession ==
  /\ acceptPc = "session"
  /\ sessionMap' = Inserted(sock[acceptConn], acceptConn)
  /\ acceptPc' = "associate"
  /\ UNCHANGED <<mainVars, acceptConn, sock, kernelVars, ioVars, workerVars>>

Associate ==
  /\ acceptPc = "associate"
  /\ key' = [key EXCEPT ![sock[acceptConn]] = acceptConn]
  /\ acceptPc' = "recv"
  /\ UNCHANGED <<mainVars, acceptConn, sock, open, peerClosed, sessionMap,
                 ioVars, workerVars>>

\* WSARecv with a fresh block; its completion carries the socket's key.
FirstRecv ==
  /\ acceptPc = "recv"
  /\ \E i \in Io :
       /\ io[i] = None
       /\ io' = [io EXCEPT ![i] =
                  [op |-> "recv", conn |-> key[sock[acceptConn]], bytes |-> 0]]
       /\ pending' = pending \cup {i}
  /\ acceptConn' = None
  /\ acceptPc' = "accept"
  /\ UNCHANGED <<mainVars, sock, kernelVars, sessionMap, port, workerVars>>

\* WSARecv fails: the error is printed and the loop goes on.
FirstRecvError ==
  /\ acceptPc = "recv"
  /\ acceptConn' = None
  /\ acceptPc' = "accept"
  /\ UNCHANGED <<mainVars, sock, kernelVars, sessionMap, ioVars, workerVars>>

-----------------------------------------------------------------------------
(* The clients and the kernel. *)

\* The client has closed or reset, and all it sent before has been received.
PeerCloses(c) ==
  /\ sock[c] \in open
  /\ c \notin peerClosed
  /\ peerClosed' = peerClosed \cup {c}
  /\ UNCHANGED <<mainVars, acceptVars, sock, open, key, sessionMap, ioVars,
                 workerVars>>

\* A receive completes with bytes, or with none once the stream has ended.
RecvCompletes(i) ==
  /\ i \in pending
  /\ io[i].op = "recv"
  /\ io' = [io EXCEPT ![i].bytes =
              IF io[i].conn \in peerClosed THEN 0 ELSE 1]
  /\ pending' = pending \ {i}
  /\ port' = port \cup {i}
  /\ UNCHANGED <<mainVars, acceptVars, sock, kernelVars, sessionMap,
                 workerVars>>

\* A send completes, with success or an error the program does not look at.
SendCompletes(i) ==
  /\ i \in pending
  /\ io[i].op = "send"
  /\ pending' = pending \ {i}
  /\ port' = port \cup {i}
  /\ UNCHANGED <<mainVars, acceptVars, sock, kernelVars, sessionMap, io,
                 workerVars>>

-----------------------------------------------------------------------------
(* A worker: ReadCompletionStatus and ProcCompletion.  Handle(w) is its    *)
(* perHandleData, the key of the completion it is processing.              *)

Handle(w) == io[cur[w]].conn

\* Mutant: a completion taken by one worker can be taken by another.
Dequeue_Shared(w, B) ==
  /\ netUp
  /\ pc[w] = "wait"
  /\ B # {} /\ B \subseteq port
  /\ Cardinality(B) <= MAX_OVERLAPPED_ENTRY
  /\ batch' = [batch EXCEPT ![w] = B]
  /\ pc' = [pc EXCEPT ![w] = "next"]
  /\ UNCHANGED <<mainVars, acceptVars, sock, kernelVars, sessionMap, io,
                 pending, port, cur, session, targets>>

\* GetQueuedCompletionStatusEx: some of the queued completions, at most as
\* many as the array holds.
Dequeue(w, B) ==
  /\ netUp
  /\ pc[w] = "wait"
  /\ B # {} /\ B \subseteq port
  /\ Cardinality(B) <= MAX_OVERLAPPED_ENTRY
  /\ port' = port \ B
  /\ batch' = [batch EXCEPT ![w] = B]
  /\ pc' = [pc EXCEPT ![w] = "next"]
  /\ UNCHANGED <<mainVars, acceptVars, sock, kernelVars, sessionMap, io,
                 pending, cur, session, targets>>

BatchDone(w) ==
  /\ pc[w] = "next"
  /\ batch[w] = {}
  /\ pc' = [pc EXCEPT ![w] = "wait"]
  /\ UNCHANGED <<mainVars, acceptVars, sock, kernelVars, sessionMap, ioVars,
                 batch, cur, session, targets>>

\* A send completed: its block is deleted; perHandleData is not touched.
ProcSend(w, i) ==
  /\ pc[w] = "next"
  /\ i \in batch[w]
  /\ io[i].op = "send"
  /\ batch' = [batch EXCEPT ![w] = @ \ {i}]
  /\ io' = [io EXCEPT ![i] = None]
  /\ UNCHANGED <<mainVars, acceptVars, sock, kernelVars, sessionMap, pending,
                 port, pc, cur, session, targets>>

\* Mutant: the next receive is posted, with a fresh block, before this one is
\* parsed.
ProcReceive_PostsNext(w, i) ==
  /\ pc[w] = "next"
  /\ i \in batch[w]
  /\ io[i].op = "recv"
  /\ io[i].bytes > 0
  /\ \E j \in Io :
       /\ io[j] = None
       /\ io' = [io EXCEPT ![j] =
                  [op |-> "recv", conn |-> io[i].conn, bytes |-> 0]]
       /\ pending' = pending \cup {j}
  /\ LET found == sessionMap[sock[io[i].conn]] IN
       /\ session' = [session EXCEPT ![w] = found]
       /\ pc' = [pc EXCEPT ![w] = IF found # None THEN "parse" ELSE "rearm"]
  /\ batch' = [batch EXCEPT ![w] = @ \ {i}]
  /\ cur' = [cur EXCEPT ![w] = i]
  /\ UNCHANGED <<mainVars, acceptVars, sock, kernelVars, sessionMap, port,
                 targets>>

\* A receive completed with data: GetSession, then Parse or NOT_FOUND_SESSION.
ProcReceive(w, i) ==
  /\ pc[w] = "next"
  /\ i \in batch[w]
  /\ io[i].op = "recv"
  /\ io[i].bytes > 0
  /\ LET found == sessionMap[sock[io[i].conn]] IN
       /\ session' = [session EXCEPT ![w] = found]
       /\ pc' = [pc EXCEPT ![w] = IF found # None THEN "parse" ELSE "rearm"]
  /\ batch' = [batch EXCEPT ![w] = @ \ {i}]
  /\ cur' = [cur EXCEPT ![w] = i]
  /\ UNCHANGED <<mainVars, acceptVars, sock, kernelVars, sessionMap, ioVars,
                 targets>>

\* Mutant: the socket is closed before its session is deleted.
ProcDisconnect_ClosesFirst(w, i) ==
  /\ pc[w] = "next"
  /\ i \in batch[w]
  /\ io[i].op = "recv"
  /\ io[i].bytes = 0
  /\ LET found == sessionMap[sock[io[i].conn]] IN
       /\ session' = [session EXCEPT ![w] = found]
       /\ pc' = [pc EXCEPT ![w] = IF found # None THEN "erase" ELSE "close"]
  /\ open' = open \ {sock[io[i].conn]}
  /\ key' = [key EXCEPT ![sock[io[i].conn]] = None]
  /\ batch' = [batch EXCEPT ![w] = @ \ {i}]
  /\ cur' = [cur EXCEPT ![w] = i]
  /\ UNCHANGED <<mainVars, acceptVars, sock, peerClosed, sessionMap, ioVars,
                 targets>>

\* A receive completed with no bytes: DeleteSession looks the session up.
ProcDisconnect(w, i) ==
  /\ pc[w] = "next"
  /\ i \in batch[w]
  /\ io[i].op = "recv"
  /\ io[i].bytes = 0
  /\ LET found == sessionMap[sock[io[i].conn]] IN
       /\ session' = [session EXCEPT ![w] = found]
       /\ pc' = [pc EXCEPT ![w] = IF found # None THEN "erase" ELSE "close"]
  /\ batch' = [batch EXCEPT ![w] = @ \ {i}]
  /\ cur' = [cur EXCEPT ![w] = i]
  /\ UNCHANGED <<mainVars, acceptVars, sock, kernelVars, sessionMap, ioVars,
                 targets>>

\* SendPacketAll copies the map: to everyone, to all but the cast group (the
\* sender), or SendPacket to the owner alone.
Sessions == {s \in Socket : sessionMap[s] # None}
CastGroup(w) == {Sessions, Sessions \ {sock[session[w]]}, {sock[session[w]]}}

\* Some packet among the bytes is answered or broadcast.
Respond(w) ==
  /\ pc[w] = "parse"
  /\ \E T \in CastGroup(w) : targets' = [targets EXCEPT ![w] = T]
  /\ pc' = [pc EXCEPT ![w] = "send"]
  /\ UNCHANGED <<mainVars, acceptVars, sock, kernelVars, sessionMap, ioVars,
                 batch, cur, session>>

\* Mutant: ProcCompletion returns after Parse without the next WSARecv.
ParseDone_Returns(w) ==
  /\ pc[w] = "parse"
  /\ pc' = [pc EXCEPT ![w] = "next"]
  /\ cur' = [cur EXCEPT ![w] = None]
  /\ session' = [session EXCEPT ![w] = None]
  /\ UNCHANGED <<mainVars, acceptVars, sock, kernelVars, sessionMap, ioVars,
                 batch, targets>>

\* Parse returns: no (further) packet among the bytes has an answer.
ParseDone(w) ==
  /\ pc[w] = "parse"
  /\ pc' = [pc EXCEPT ![w] = "rearm"]
  /\ UNCHANGED <<mainVars, acceptVars, sock, kernelVars, sessionMap, ioVars,
                 batch, cur, session, targets>>

\* WSASend on the handle in the copy, whoever has that handle now.  A socket
\* not yet associated with the port sends but never reports completion.
SendOne(w, s) ==
  /\ pc[w] = "send"
  /\ s \in targets[w]
  /\ s \in open
  /\ key[s] # None
  /\ \E i \in Io :
       /\ io[i] = None
       /\ io' = [io EXCEPT ![i] =
                  [op |-> "send", conn |-> key[s], bytes |-> 0]]
       /\ pending' = pending \cup {i}
  /\ targets' = [targets EXCEPT ![w] = @ \ {s}]
  /\ UNCHANGED <<mainVars, acceptVars, sock, kernelVars, sessionMap, port, pc,
                 batch, cur, session>>

\* Mutant: a send that fails takes the session of its target out of the pool.
SendOneLeaks_DropsSession(w, s) ==
  /\ pc[w] = "send"
  /\ s \in targets[w]
  /\ targets' = [targets EXCEPT ![w] = @ \ {s}]
  /\ sessionMap' = [sessionMap EXCEPT ![s] = None]
  /\ UNCHANGED <<mainVars, acceptVars, sock, kernelVars, ioVars, pc, batch,
                 cur, session>>

\* WSASend fails or reports nothing: the block is leaked, the loop goes on.
SendOneLeaks(w, s) ==
  /\ pc[w] = "send"
  /\ s \in targets[w]
  /\ targets' = [targets EXCEPT ![w] = @ \ {s}]
  /\ UNCHANGED <<mainVars, acceptVars, sock, kernelVars, sessionMap, ioVars,
                 pc, batch, cur, session>>

SendDone(w) ==
  /\ pc[w] = "send"
  /\ targets[w] = {}
  /\ pc' = [pc EXCEPT ![w] = IF io[cur[w]].bytes > 0 THEN "parse" ELSE "close"]
  /\ UNCHANGED <<mainVars, acceptVars, sock, kernelVars, sessionMap, ioVars,
                 batch, cur, session, targets>>

\* WSARecv again, with the same block.
Rearm(w) ==
  /\ pc[w] = "rearm"
  /\ io' = [io EXCEPT ![cur[w]] =
              [op |-> "recv", conn |-> key[sock[Handle(w)]], bytes |-> 0]]
  /\ pending' = pending \cup {cur[w]}
  /\ cur' = [cur EXCEPT ![w] = None]
  /\ session' = [session EXCEPT ![w] = None]
  /\ pc' = [pc EXCEPT ![w] = "next"]
  /\ UNCHANGED <<mainVars, acceptVars, sock, kernelVars, sessionMap, port,
                 batch, targets>>

\* WSARecv fails: no completion will come for this connection again.
RearmError(w) ==
  /\ pc[w] = "rearm"
  /\ io' = [io EXCEPT ![cur[w]] = None]
  /\ cur' = [cur EXCEPT ![w] = None]
  /\ session' = [session EXCEPT ![w] = None]
  /\ pc' = [pc EXCEPT ![w] = "next"]
  /\ UNCHANGED <<mainVars, acceptVars, sock, kernelVars, sessionMap, pending,
                 port, batch, targets>>

\* DeleteSession erases what it found, and announces the exit of a player.
EraseSession(w) ==
  /\ pc[w] = "erase"
  /\ sessionMap' = [sessionMap EXCEPT ![sock[Handle(w)]] = None]
  /\ session' = [session EXCEPT ![w] = None]
  /\ \E after \in {"announce", "close"} : pc' = [pc EXCEPT ![w] = after]
  /\ UNCHANGED <<mainVars, acceptVars, sock, kernelVars, ioVars, batch, cur,
                 targets>>

AnnounceExit(w) ==
  /\ pc[w] = "announce"
  /\ targets' = [targets EXCEPT ![w] = Sessions]
  /\ pc' = [pc EXCEPT ![w] = "send"]
  /\ UNCHANGED <<mainVars, acceptVars, sock, kernelVars, sessionMap, ioVars,
                 batch, cur, session>>

CloseSocket(w) ==
  /\ pc[w] = "close"
  /\ open' = open \ {sock[Handle(w)]}
  /\ key' = [key EXCEPT ![sock[Handle(w)]] = None]
  /\ pc' = [pc EXCEPT ![w] = "free"]
  /\ UNCHANGED <<mainVars, acceptVars, sock, peerClosed, sessionMap, ioVars,
                 batch, cur, session, targets>>

\* Mutant: perIoData is not deleted with perHandleData.
FreeHandle_KeepsBlock(w) ==
  /\ pc[w] = "free"
  /\ sock' = [sock EXCEPT ![Handle(w)] = None]
  /\ peerClosed' = peerClosed \ {Handle(w)}
  /\ cur' = [cur EXCEPT ![w] = None]
  /\ pc' = [pc EXCEPT ![w] = "next"]
  /\ UNCHANGED <<mainVars, acceptVars, open, key, sessionMap, ioVars, batch,
                 session, targets>>

\* delete perHandleData, delete perIoData.
FreeHandle(w) ==
  /\ pc[w] = "free"
  /\ sock' = [sock EXCEPT ![Handle(w)] = None]
  /\ peerClosed' = peerClosed \ {Handle(w)}
  /\ io' = [io EXCEPT ![cur[w]] = None]
  /\ cur' = [cur EXCEPT ![w] = None]
  /\ pc' = [pc EXCEPT ![w] = "next"]
  /\ UNCHANGED <<mainVars, acceptVars, open, key, sessionMap, pending, port,
                 batch, session, targets>>

-----------------------------------------------------------------------------
Main == Initialize \/ Start \/ JoinAccept \/ JoinWorkersAndDestroy

Accept ==
  \/ \E c \in Conn, s \in Socket : AcceptClient(c, s)
  \/ AcceptError
  \/ CreateSession
  \/ Associate
  \/ FirstRecv
  \/ FirstRecvError

Kernel ==
  \/ \E c \in Conn : PeerCloses(c)
  \/ \E i \in Io : RecvCompletes(i) \/ SendCompletes(i)

ProcCompletion(w) ==
  \/ \E i \in batch[w] :
       ProcSend(w, i) \/ ProcReceive(w, i) \/ ProcDisconnect(w, i)
  \/ Respond(w)
  \/ ParseDone(w)
  \/ \E s \in Socket : SendOne(w, s) \/ SendOneLeaks(w, s)
  \/ SendDone(w)
  \/ Rearm(w)
  \/ RearmError(w)
  \/ EraseSession(w)
  \/ AnnounceExit(w)
  \/ CloseSocket(w)
  \/ FreeHandle(w)

ReadCompletionStatus(w) ==
  \/ \E B \in SUBSET port : Dequeue(w, B)
  \/ BatchDone(w)
  \/ ProcCompletion(w)

Next ==
  \/ Main
  \/ Accept
  \/ Kernel
  \/ \E w \in Worker : ReadCompletionStatus(w)

Spec == Init /\ [][Next]_vars

(***************************************************************************)
(* Fairness.  Threads that can step are scheduled (weak fairness of each   *)
(* worker and of the accept thread once it has a client: nobody has to     *)
(* connect), the kernel completes what it accepted, the port serves each   *)
(* completion in its turn (strong fairness per block: a queued completion  *)
(* is passed over only finitely often), and the bytes of one receive hold  *)
(* finitely many packets (strong fairness of ParseDone).                   *)
(***************************************************************************)
Fairness ==
  /\ WF_vars(Main)
  /\ WF_vars(CreateSession \/ Associate \/ FirstRecv \/ FirstRecvError)
  /\ \A i \in Io : WF_vars(RecvCompletes(i) \/ SendCompletes(i))
  /\ \A i \in Io :
       SF_vars(\E w \in Worker, B \in SUBSET port : i \in B /\ Dequeue(w, B))
  /\ \A w \in Worker : WF_vars(BatchDone(w) \/ ProcCompletion(w))
  /\ \A w \in Worker : SF_vars(ParseDone(w))

FairSpec == Spec /\ Fairness

-----------------------------------------------------------------------------
(* Properties. *)

Blocks == {i \in Io : io[i] # None}
Receives(c) == {i \in Blocks : io[i].op = "recv" /\ io[i].conn = c}

\* A block whose completion no worker has taken up yet.
Waiting(i) == i \in pending \/ i \in port \/ \E w \in Worker : i \in batch[w]

\* A PER_IO_DATA in use is in exactly one place: the kernel has it, it is
\* queued at the port, or one worker has it.  So no block is completed,
\* deleted or posted again while someone else still uses it.
Placed ==
  /\ pending \cap port = {}
  /\ \A w \in Worker : batch[w] \cap (pending \cup port) = {}
  /\ \A v, w \in Worker : v # w => batch[v] \cap batch[w] = {}
  /\ \A w \in Worker : cur[w] # None => ~Waiting(cur[w])
  /\ \A v, w \in Worker : v # w /\ cur[v] = cur[w] => cur[w] = None
  /\ \A i \in Io :
       io[i] # None <=> Waiting(i) \/ \E w \in Worker : cur[w] = i

\* A connection has at most one receive in use, whoever holds it.  This is
\* what makes the handling of one client sequential without any lock: the
\* next receive is posted only when ProcCompletion is done with the last.
OneReceive == \A c \in Conn : \A i, j \in Receives(c) : i = j

\* Until a worker takes it up, a receive belongs to a connection whose
\* PER_HANDLE_DATA is allocated, whose socket is open and associated, and
\* whose session is in the pool: the key ProcCompletion dereferences is alive
\* and NOT_FOUND_SESSION is never printed.
KeyAlive ==
  \A i \in Io :
    Waiting(i) /\ io[i].op = "recv" =>
      LET c == io[i].conn IN
        /\ sock[c] \in open
        /\ key[sock[c]] = c
        /\ sessionMap[sock[c]] = c

\* While a worker parses and answers a client's bytes, the Session pointer it
\* got from GetSession stays in the pool, whatever the other workers delete.
SessionStays ==
  \A w \in Worker :
    pc[w] \in {"parse", "rearm", "erase"}
      \/ (pc[w] = "send" /\ io[cur[w]].bytes > 0)
    => /\ session[w] = Handle(w)
       /\ sessionMap[sock[Handle(w)]] = Handle(w)

\* The pool never holds a closed or reused handle: every entry is the session
\* of the connection that has that socket open, so the insert of CreateSession
\* never meets the entry of an earlier connection.  It depends on closesocket
\* coming after DeleteSession.
NoStaleEntry ==
  /\ \A s \in Socket :
       sessionMap[s] # None => s \in open /\ sock[sessionMap[s]] = s
  /\ acceptPc = "session" => sessionMap[sock[acceptConn]] = None

\* A connection no completion will ever wake: its WSARecv failed, and the
\* session stays in the pool until the process ends.
Lost(c) == sock[c] # None /\ c # acceptConn /\ Receives(c) = {}

\* A client that has gone is cleaned up: its session erased, its socket
\* closed and its block freed, unless a WSARecv failed for it.
Disconnected ==
  \A c \in Conn : c \in peerClosed ~> (sock[c] = None \/ Lost(c))

\* The core keeps what Connections promises.  The name of a connection is its
\* socket until closesocket; it is handled by the workers that process one of
\* its receives.
Closed(c) == \E w \in Worker : pc[w] = "free" /\ Handle(w) = c

Abs == INSTANCE Connections WITH
  name <- [c \in Conn |-> IF Closed(c) THEN None ELSE sock[c]],
  registered <- {c \in Conn : sock[c] # None /\ sessionMap[sock[c]] = c},
  handler <- [c \in Conn |->
                {w \in Worker : cur[w] # None /\ Handle(w) = c}]

ImplementsConnections == Abs!Spec
=============================================================================
