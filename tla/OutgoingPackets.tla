-------------------------- MODULE OutgoingPackets --------------------------
(***************************************************************************)
(* Who owns the bytes of a packet, from the constructor that allocates     *)
(* them to the destructor that frees them: a Packet is received by         *)
(* PacketProcessor::Parse, or built by a Create... of the generator,       *)
(* copied into a TPResult and out of it (PacketService::Process), and sent *)
(* to one or all sessions while it is alive.  Workers share one heap, so a *)
(* block one frees is soon another's.                                      *)
(*                                                                         *)
(* Every packet with bytes was built with isDAllocBuf set, so it owns them *)
(* and copies are deep.  IsValid is false of a cleared packet and of one   *)
(* longer than MAX_BUFF_SIZE: the latter is neither copied nor freed.      *)
(*                                                                         *)
(* The copy constructor tests fields nobody has set, and what they hold is *)
(* undefined: nothing that looks like a valid packet, or any one at all,   *)
(* such as the last one that was in that place of the stack.  Its block is *)
(* then freed or sent, whoever has it; "stale" records that.               *)
(***************************************************************************)
EXTENDS Integers, FiniteSets

CONSTANTS
  Worker,     \* completion threads
  Buf,        \* heap blocks
  None,       \* no packet, no block, a free block
  MaxPending  \* bound: sends in progress

ASSUME PendingAssumption == MaxPending \in Nat

VARIABLES
  heap,     \* what a block holds: the bytes of a packet, or None
  packet,   \* the packets of a worker's handler, by the name of the variable
  pc,       \* where its handler is
  pending,  \* sends the kernel has not finished: the block, the bytes meant
  damaged,  \* history: whether something else than the packet has been sent,
            \* within WSASend or after it
  stale,    \* history: workers whose copy constructor has found a valid packet
            \* on its stack
  owed,     \* history: answers its handler owes, less those it has sent
  refused   \* history: workers whose answer WSASend has refused

historyVars == <<stale, owed, refused>>
vars == <<heap, packet, pc, pending, damaged, historyVars>>

\* The bytes of a packet, as far as they matter here; "long" is a size above
\* MAX_BUFF_SIZE.
Bytes == [by : Worker, what : {"request", "answer", "error", "broadcast"},
          long : BOOLEAN]
Packet == [buffer : Buf, bytes : Bytes]
Cleared == [buffer |-> None, bytes |-> None]

ASSUME NoneAssumption == None \notin Buf \cup Bytes \cup Packet \cup {Cleared}

Variable == {"request", "response", "broadcast", "result", "resultPacket"}

TypeOK ==
  /\ heap \in [Buf -> Bytes \cup {None}]
  /\ packet \in [Worker -> [Variable -> Packet \cup {Cleared, None}]]
  /\ pc \in [Worker -> {"idle", "process", "enter", "cast", "error", "set",
                        "scope", "return", "get", "answer", "delete", "end",
                        "finish"}]
  /\ pending \subseteq Packet
  /\ damaged \subseteq {"within", "after"}
  /\ stale \subseteq Worker
  /\ owed \in [Worker -> Int]
  /\ refused \subseteq Worker

Init ==
  /\ heap = [b \in Buf |-> None]
  /\ packet = [w \in Worker |-> [v \in Variable |-> None]]
  /\ pc = [w \in Worker |-> "idle"]
  /\ pending = {}
  /\ damaged = {}
  /\ stale = {}
  /\ owed = [w \in Worker |-> 0]
  /\ refused = {}

-----------------------------------------------------------------------------
(* Packets. *)

Step(w, from, to) == pc[w] = from /\ pc' = [pc EXCEPT ![w] = to]

IsValid(p) == p \notin {None, Cleared} /\ ~p.bytes.long

\* CreatePacket, or Parse for a packet received: a new block for the bytes, and
\* the variable v of the worker's variables vs for the packet.
New(w, v, vs, what, long) ==
  \E b \in Buf :
    LET p == [buffer |-> b,
              bytes |-> [by |-> w, what |-> what, long |-> long]] IN
      /\ heap[b] = None
      /\ heap' = [heap EXCEPT ![b] = p.bytes]
      /\ packet' = [packet EXCEPT ![w] = [vs EXCEPT ![v] = p]]

\* The variable v becomes a copy of rhs, once what it was, old, is freed.
Copied(w, v, old, rhs) ==
  LET freed == IF IsValid(old) THEN [heap EXCEPT ![old.buffer] = None]
               ELSE heap IN
  \E b \in Buf :
    /\ freed[b] = None
    /\ heap' = [freed EXCEPT ![b] = freed[rhs.buffer]]
    /\ packet' = [packet EXCEPT ![w][v] = [buffer |-> b, bytes |-> rhs.bytes]]

Kept(w, v, old) == packet' = [packet EXCEPT ![w][v] = old] /\ UNCHANGED heap

\* Mutant: the copy has the block of the original.
Alloc_Shallow(w, v, old, rhs) == Kept(w, v, IF IsValid(rhs) THEN rhs ELSE old)

\* Mutant: the size of an invalid packet is taken over without its bytes.
Alloc_CopiesSize(w, v, old, rhs) ==
  IF IsValid(rhs) THEN Copied(w, v, old, rhs)
  ELSE Kept(w, v, [old EXCEPT !.bytes = rhs.bytes])

\* Packet::Alloc: an invalid rhs is not copied.
Alloc(w, v, old, rhs) ==
  IF IsValid(rhs) THEN Copied(w, v, old, rhs) ELSE Kept(w, v, old)

\* ~Packet
Destroy(w, v) ==
  LET p == packet[w][v] IN
    /\ packet' = [packet EXCEPT ![w][v] = None]
    /\ heap' = IF IsValid(p) THEN [heap EXCEPT ![p.buffer] = None] ELSE heap

\* The network takes what the block holds.
Take(p, when) ==
  damaged' = IF heap[p.buffer] = p.bytes THEN damaged ELSE damaged \cup {when}

\* PacketProcessor::SendPacket: WSASend takes the bytes at once; it returns with
\* WSA_IO_PENDING and they are taken later; or it fails, which is only logged.
Send(p, sent) ==
  \/ sent /\ Take(p, "within") /\ UNCHANGED pending
  \/ /\ sent
     /\ Cardinality(pending) < MaxPending
     /\ pending' = pending \cup {p}
     /\ UNCHANGED damaged
  \/ ~sent /\ UNCHANGED <<pending, damaged>>

SendCompletes(p) ==
  /\ p \in pending
  /\ pending' = pending \ {p}
  /\ Take(p, "after")
  /\ UNCHANGED <<heap, packet, pc, historyVars>>

-----------------------------------------------------------------------------
(* A packet is received, and a handler of PacketService builds what it sends. *)

\* new TPResult, whose packet is cleared.
WithResult(w) == [packet[w] EXCEPT !.result = Cleared]

\* The histories of a handler start when it does.
Begins(w) ==
  /\ owed' = [owed EXCEPT ![w] = 0]
  /\ refused' = refused \ {w}
  /\ UNCHANGED stale

Owes(w, n) == owed' = [owed EXCEPT ![w] = n] /\ UNCHANGED <<stale, refused>>

\* PacketProcessor::Parse.
Receive(w, long) ==
  /\ Step(w, "idle", "process")
  /\ New(w, "request", packet[w], "request", long)
  /\ Begins(w)
  /\ UNCHANGED <<pending, damaged>>

\* ProcReqLogin builds its answer, which is long in a full room ...
LoginResponse(w, long) ==
  /\ Step(w, "process", "enter")
  /\ New(w, "response", WithResult(w), "answer", long)
  /\ Owes(w, IF long THEN 0 ELSE 1)
  /\ UNCHANGED <<pending, damaged>>

\* ... and the enter broadcast.
EnterBroadcast(w) ==
  /\ Step(w, "enter", "cast")
  /\ New(w, "broadcast", packet[w], "broadcast", FALSE)
  /\ UNCHANGED <<pending, damaged, historyVars>>

\* ProcReqRoundTripTime.
RoundTripResponse(w) ==
  /\ Step(w, "process", "set")
  /\ New(w, "response", WithResult(w), "answer", FALSE)
  /\ Owes(w, 1)
  /\ UNCHANGED <<pending, damaged>>

\* A handler that fails returns a result with a message and no packet.
Fails(w) ==
  /\ Step(w, "process", "error")
  /\ packet' = [packet EXCEPT ![w] = WithResult(w)]
  /\ Owes(w, 1)
  /\ UNCHANGED <<heap, pending, damaged>>

\* The other requests are passed on to the other clients; a session that ends is
\* announced.  The text of an action and a list of hit players may be long.
Relay(w, long) ==
  /\ Step(w, "process", "cast")
  /\ New(w, "broadcast", packet[w], "broadcast", long)
  /\ UNCHANGED <<pending, damaged, historyVars>>

AnnounceExit(w) ==
  /\ Step(w, "idle", "cast")
  /\ New(w, "broadcast", packet[w], "broadcast", FALSE)
  /\ Begins(w)
  /\ UNCHANGED <<pending, damaged>>

\* An attack that hits nobody, or a header Process has no handler for.
NothingToSend(w) ==
  /\ Step(w, "process", "finish")
  /\ UNCHANGED <<heap, packet, pending, damaged, historyVars>>

\* SendPacketAll, to one session after the other.
SendBroadcast(w) ==
  /\ Step(w, "cast", "cast")
  /\ \E sent \in BOOLEAN : Send(packet[w].broadcast, sent)
  /\ UNCHANGED <<heap, packet, historyVars>>

BroadcastDone(w) ==
  /\ Step(w, "cast", IF packet[w].response = None THEN "scope" ELSE "set")
  /\ UNCHANGED <<heap, packet, pending, damaged, historyVars>>

-----------------------------------------------------------------------------
(* PacketService::Process with the result, and the end of each scope. *)

CreateError(w) ==
  /\ Step(w, "error", "set")
  /\ New(w, "response", packet[w], "error", FALSE)
  /\ UNCHANGED <<pending, damaged, historyVars>>

\* Mutant: the result is returned without its packet.
SetPacket_Dropped(w) ==
  /\ Step(w, "set", "scope")
  /\ UNCHANGED <<heap, packet, pending, damaged, historyVars>>

\* TPResult::SetPacket assigns.
SetPacket(w) ==
  /\ Step(w, "set", "scope")
  /\ Alloc(w, "result", packet[w].result, packet[w].response)
  /\ UNCHANGED <<pending, damaged, historyVars>>

DestroyBroadcast(w) ==
  /\ Step(w, "scope", "return")
  /\ Destroy(w, "broadcast")
  /\ UNCHANGED <<pending, damaged, historyVars>>

DestroyResponse(w) ==
  /\ Step(w, "return", IF packet[w].result = None THEN "finish" ELSE "get")
  /\ Destroy(w, "response")
  /\ UNCHANGED <<pending, damaged, historyVars>>

\* TPResult::GetPacket copy-constructs resultPacket, and Alloc looks at fields
\* no constructor has set: old is what it finds.
GetPacket(w) ==
  /\ Step(w, "get", "answer")
  /\ \E old \in {Cleared} \cup {p \in Packet : IsValid(p)} :
       /\ Alloc(w, "resultPacket", old, packet[w].result)
       /\ stale' = IF IsValid(old) THEN stale \cup {w} ELSE stale
  /\ UNCHANGED <<pending, damaged, owed, refused>>

\* A result packet that is not valid is not sent, and its result is lost.
Answer(w) ==
  \/ /\ IsValid(packet[w].resultPacket)
     /\ Step(w, "answer", "delete")
     /\ \E sent \in BOOLEAN :
          /\ Send(packet[w].resultPacket, sent)
          /\ owed' = IF sent THEN [owed EXCEPT ![w] = @ - 1] ELSE owed
          /\ refused' = IF sent THEN refused ELSE refused \cup {w}
     /\ UNCHANGED <<heap, packet, stale>>
  \/ /\ ~IsValid(packet[w].resultPacket)
     /\ Step(w, "answer", "end")
     /\ packet' = [packet EXCEPT ![w].result = None]
     /\ UNCHANGED <<heap, pending, damaged, historyVars>>

\* Mutant: the result is forgotten when it has been sent.
DeleteResult_Forgotten(w) ==
  /\ Step(w, "delete", "end")
  /\ packet' = [packet EXCEPT ![w].result = None]
  /\ UNCHANGED <<heap, pending, damaged, historyVars>>

DeleteResult(w) ==
  /\ Step(w, "delete", "end")
  /\ Destroy(w, "result")
  /\ UNCHANGED <<pending, damaged, historyVars>>

DestroyResultPacket(w) ==
  /\ Step(w, "end", "finish")
  /\ Destroy(w, "resultPacket")
  /\ UNCHANGED <<pending, damaged, historyVars>>

\* delete packet, in PacketProcessor::Parse.
DeletePacket(w) ==
  /\ Step(w, "finish", "idle")
  /\ Destroy(w, "request")
  /\ UNCHANGED <<pending, damaged, historyVars>>

Handler(w) ==
  \/ \E long \in BOOLEAN : Receive(w, long)
  \/ \E long \in BOOLEAN : LoginResponse(w, long)
  \/ EnterBroadcast(w)
  \/ RoundTripResponse(w)
  \/ Fails(w)
  \/ \E long \in BOOLEAN : Relay(w, long)
  \/ AnnounceExit(w)
  \/ NothingToSend(w)
  \/ SendBroadcast(w)
  \/ BroadcastDone(w)

Process(w) ==
  \/ CreateError(w)
  \/ SetPacket(w)
  \/ DestroyBroadcast(w)
  \/ DestroyResponse(w)
  \/ GetPacket(w)
  \/ Answer(w)
  \/ DeleteResult(w)
  \/ DestroyResultPacket(w)
  \/ DeletePacket(w)

Next ==
  \/ \E w \in Worker : Handler(w) \/ Process(w)
  \/ \E p \in pending : SendCompletes(p)

Spec == Init /\ [][Next]_vars

-----------------------------------------------------------------------------
(* Properties. *)

\* The packets that own the block b.
Owners(b) ==
  {o \in Worker \X Variable :
     /\ IsValid(packet[o[1]][o[2]])
     /\ packet[o[1]][o[2]].buffer = b}

\* Until a copy constructor has found a valid packet on its stack, blocks are
\* freed exactly once: every packet that is alive has a block of its own with
\* its bytes in it, and every block in use belongs to a packet, unless it is
\* longer than MAX_BUFF_SIZE, when the destructor leaves it behind.
Owned ==
  stale = {} =>
    \A b \in Buf :
      /\ heap[b] # None => heap[b].long \/ Cardinality(Owners(b)) = 1
      /\ \A o \in Owners(b) : heap[b] = packet[o[1]][o[2]].bytes

\* As long as that has not happened either, what WSASend takes while the packet
\* is alive is what was built, through every copy and destructor on the way.
SentAsBuilt == stale = {} => "within" \notin damaged

\* What it takes after it has returned is what was built, too: ProcReqLogin,
\* "send the room entry packet".
PendingAsBuilt == "after" \notin damaged

\* A request with an answer is answered once, also when it fails: Process hands
\* the result to WSASend once before it goes on, and unless WSASend refuses it,
\* when nobody tries again, it is sent.  An answer longer than MAX_BUFF_SIZE is
\* not; a worker that has found a valid packet on its stack may send that.
AnsweredOnce ==
  \A w \in Worker \ stale :
    pc[w] \in {"finish", "idle"} =>
      owed[w] = IF w \in refused THEN 1 ELSE 0
=============================================================================
