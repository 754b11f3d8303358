----------------------- MODULE OutgoingPacketsProofs -----------------------
(***************************************************************************)
(* Proofs about OutgoingPackets, for any number of workers and blocks and  *)
(* whatever a copy constructor finds on its stack: what is said of blocks  *)
(* and bytes holds until that is a valid packet, what is said of a handler *)
(* as long as its own worker has not found one.                            *)
(***************************************************************************)
EXTENDS OutgoingPackets, FiniteSetTheorems, TLAPS

USE DEF historyVars

\* A packet, also one too long, has its bytes in its block.
Holding ==
  \A w \in Worker, v \in Variable :
    packet[w][v] \in Packet =>
      heap[packet[w][v].buffer] = packet[w][v].bytes

\* No two packets that are valid share a block.
Distinct ==
  \A w, x \in Worker, v, u \in Variable :
    /\ IsValid(packet[w][v]) /\ IsValid(packet[x][u])
    /\ packet[w][v].buffer = packet[x][u].buffer
    => w = x /\ v = u

\* A block in use that is not too long is some packet's.
Used ==
  \A b \in Buf :
    heap[b] # None /\ ~heap[b].long =>
      \E w \in Worker, v \in Variable :
        IsValid(packet[w][v]) /\ packet[w][v].buffer = b

Heap == Holding /\ Distinct /\ Used

\* Which packets there are where the handler is.
Absent(w, V) == \A v \in V : packet[w][v] = None

Present(w) ==
  /\ pc[w] = "idle" => Absent(w, {"request"})
  /\ pc[w] \in {"idle", "process", "error", "get", "answer", "delete", "end",
                "finish"} => Absent(w, {"response"})
  /\ pc[w] \notin {"cast", "set", "scope"} => Absent(w, {"broadcast"})
  /\ pc[w] \in {"idle", "process", "end", "finish"} => Absent(w, {"result"})
  /\ IF pc[w] \in {"answer", "delete", "end"}
     THEN packet[w].resultPacket # None ELSE packet[w].resultPacket = None
  /\ pc[w] \in {"enter", "error", "set"} => packet[w].result = Cleared
  /\ pc[w] \in {"get", "answer", "delete"} => packet[w].result # None
  /\ pc[w] = "cast" =>
       /\ packet[w].broadcast \in Packet
       /\ packet[w].response \in Packet \cup {None}
       /\ packet[w].result =
            IF packet[w].response = None THEN None ELSE Cleared
  /\ pc[w] \in {"enter", "set"} => packet[w].response \in Packet

One(p) == IF IsValid(p) THEN 1 ELSE 0

\* An answer is owed for a valid packet, wherever it has been copied to, and in
\* the end for one that WSASend has refused.
Answering(w) ==
  /\ pc[w] \in {"idle", "delete", "end", "finish"} =>
       owed[w] = IF w \in refused THEN 1 ELSE 0
  /\ pc[w] \notin {"idle", "delete", "end", "finish"} => w \notin refused
  /\ pc[w] = "process" => owed[w] = 0
  /\ pc[w] = "error" => owed[w] = 1
  /\ pc[w] \in {"enter", "cast", "set"} => owed[w] = One(packet[w].response)
  /\ pc[w] \in {"scope", "return", "get", "answer"} =>
       owed[w] = One(packet[w].result)
  /\ pc[w] = "answer" => owed[w] = One(packet[w].resultPacket)

Handling == \A w \in Worker : Present(w) /\ (w \notin stale => Answering(w))

Intact == Heap /\ "within" \notin damaged

IInv == TypeOK /\ Handling /\ (stale = {} => Intact)

\* The packets of the workers are what the type invariant says.
Packets == [Worker -> [Variable -> Packet \cup {Cleared, None}]]

-----------------------------------------------------------------------------
(* What the operations on packets do to the heap. *)

\* A packet that is alive is none of the values for no packet.
LEMMA PacketIsValid ==
  ASSUME NEW p \in Packet \cup {Cleared, None}
  PROVE  IsValid(p) <=> p \in Packet /\ ~p.bytes.long
  BY NoneAssumption DEF IsValid, Packet, Cleared

\* The packets of w, of which some that were absent may be cleared by now.
Filled(w, vs) ==
  \A u \in Variable :
    \/ vs[u] = packet[w][u]
    \/ vs[u] = Cleared /\ packet[w][u] = None

\* A constructor that allocates takes a block nobody has.
LEMMA NewHeap ==
  ASSUME IInv, NEW w \in Worker, NEW v \in Variable,
         NEW vs \in [Variable -> Packet \cup {Cleared, None}],
         NEW what \in {"request", "answer", "error", "broadcast"},
         NEW long \in BOOLEAN,
         packet[w][v] = None,
         Filled(w, vs), New(w, v, vs, what, long)
  PROVE  /\ heap' \in [Buf -> Bytes \cup {None}]
         /\ packet' \in Packets
         /\ stale = {} => Heap'
         /\ packet'[w][v] \in Packet /\ (IsValid(packet'[w][v]) <=> ~long)
         /\ \A u \in Variable \ {v} : packet'[w][u] = vs[u]
         /\ \A x \in Worker \ {w} : packet'[x] = packet[x]
<1> DEFINE bytes == [by |-> w, what |-> what, long |-> long]
<1>1. PICK b \in Buf :
        /\ heap[b] = None
        /\ heap' = [heap EXCEPT ![b] = bytes]
        /\ packet' = [packet EXCEPT ![w] =
                        [vs EXCEPT ![v] = [buffer |-> b, bytes |-> bytes]]]
  BY DEF New
<1>2. bytes \in Bytes /\ bytes.long = long
  BY DEF Bytes
<1> HIDE DEF bytes
<1> DEFINE new == [buffer |-> b, bytes |-> bytes]
<1>3. /\ new \in Packet /\ new.buffer = b /\ new.bytes = bytes
      /\ IsValid(new) <=> ~long
  BY <1>2, PacketIsValid DEF Packet
<1>4. packet' = [packet EXCEPT ![w] = [vs EXCEPT ![v] = new]]
  BY <1>1
<1> HIDE DEF new
<1>5. heap' \in [Buf -> Bytes \cup {None}] /\ packet' \in Packets
  BY <1>1, <1>2, <1>3, <1>4 DEF IInv, TypeOK, Packets
<1>6. /\ packet'[w][v] = new
      /\ \A u \in Variable \ {v} : packet'[w][u] = vs[u]
      /\ \A x \in Worker \ {w} : packet'[x] = packet[x]
  BY <1>4 DEF IInv, TypeOK
\* A packet of before is still there, with a block other than b.
<1>7. ASSUME stale = {},
             NEW x \in Worker, NEW u \in Variable, x # w \/ u # v,
             packet'[x][u] \in Packet
      PROVE  /\ packet[x][u] = packet'[x][u]
             /\ packet[x][u].buffer # b
             /\ heap'[packet[x][u].buffer] = heap[packet[x][u].buffer]
  <2>1. packet'[x][u] = packet[x][u]
    <3>1. Cleared \notin Packet
      BY NoneAssumption DEF Packet, Cleared
    <3> QED
      BY <1>6, <1>7, <3>1 DEF Filled
  <2>2. heap[packet[x][u].buffer] \in Bytes /\ packet[x][u].buffer \in Buf
    BY <1>7, <2>1 DEF IInv, Intact, Heap, Holding, Packet
  <2> QED
    BY <1>1, <2>1, <2>2, NoneAssumption DEF IInv, TypeOK
<1>8. ASSUME NEW x \in Worker, NEW u \in Variable, IsValid(packet'[x][u])
      PROVE  packet'[x][u] \in Packet
  BY <1>5, <1>8, PacketIsValid DEF Packets
<1>9. ASSUME stale = {} PROVE Holding'
  <2> SUFFICES ASSUME NEW x \in Worker, NEW u \in Variable,
                      packet'[x][u] \in Packet
               PROVE  heap'[packet'[x][u].buffer] = packet'[x][u].bytes
    BY DEF Holding
  <2>1. CASE x = w /\ u = v
    BY <1>1, <1>3, <1>6, <2>1 DEF IInv, TypeOK
  <2>2. CASE x # w \/ u # v
    BY <1>7, <1>9, <2>2 DEF IInv, Intact, Heap, Holding
  <2> QED
    BY <2>1, <2>2
<1>10. ASSUME stale = {} PROVE Distinct'
  <2> SUFFICES ASSUME NEW x \in Worker, NEW u \in Variable,
                      NEW y \in Worker, NEW t \in Variable,
                      IsValid(packet'[x][u]), IsValid(packet'[y][t]),
                      packet'[x][u].buffer = packet'[y][t].buffer
               PROVE  x = y /\ u = t
    BY DEF Distinct
  <2> QED
    BY <1>3, <1>6, <1>7, <1>8, <1>10 DEF IInv, Intact, Heap, Distinct
<1>11. ASSUME stale = {} PROVE Used'
  <2> SUFFICES ASSUME NEW c \in Buf, heap'[c] # None, ~heap'[c].long
               PROVE  \E x \in Worker, u \in Variable :
                        IsValid(packet'[x][u]) /\ packet'[x][u].buffer = c
    BY DEF Used
  <2>1. CASE c = b
    BY <1>1, <1>2, <1>3, <1>6, <2>1 DEF IInv, TypeOK
  <2>2. CASE c # b
    <3>1. PICK x \in Worker, u \in Variable :
            IsValid(packet[x][u]) /\ packet[x][u].buffer = c
      BY <1>1, <1>11, <2>2 DEF IInv, TypeOK, Intact, Heap, Used
    <3>2. packet'[x][u] = packet[x][u]
      <4>1. packet[x][u] # None
        BY <3>1 DEF IsValid
      <4> QED
        BY <1>6, <4>1 DEF Filled
    <3> QED
      BY <3>1, <3>2
  <2> QED
    BY <2>1, <2>2
<1> QED
  BY <1>3, <1>5, <1>6, <1>9, <1>10, <1>11 DEF Heap

\* A packet that is not valid can be cleared, or go, without its block.
LEMMA BlankHeap ==
  ASSUME IInv, NEW w \in Worker, NEW v \in Variable,
         NEW new \in {Cleared, None}, ~IsValid(packet[w][v]),
         packet' = [packet EXCEPT ![w][v] = new], UNCHANGED heap
  PROVE  /\ heap' \in [Buf -> Bytes \cup {None}]
         /\ packet' \in Packets
         /\ stale = {} => Heap'
         /\ packet'[w][v] = new
         /\ \A u \in Variable \ {v} : packet'[w][u] = packet[w][u]
         /\ \A x \in Worker \ {w} : packet'[x] = packet[x]
<1>1. /\ packet'[w][v] = new
      /\ \A u \in Variable \ {v} : packet'[w][u] = packet[w][u]
      /\ \A x \in Worker \ {w} : packet'[x] = packet[x]
  BY DEF IInv, TypeOK
<1>2. heap' \in [Buf -> Bytes \cup {None}] /\ packet' \in Packets
  BY DEF IInv, TypeOK, Packets
<1>3. ~IsValid(new) /\ new \notin Packet
  BY NoneAssumption DEF IsValid, Packet, Cleared
<1>4. ASSUME stale = {} PROVE Holding'
  BY <1>1, <1>3, <1>4 DEF IInv, Intact, Heap, Holding
<1>5. ASSUME stale = {} PROVE Distinct'
  BY <1>1, <1>3, <1>5 DEF IInv, Intact, Heap, Distinct
<1>6. ASSUME stale = {} PROVE Used'
  BY <1>1, <1>6 DEF IInv, Intact, Heap, Used
<1> QED
  BY <1>1, <1>2, <1>4, <1>5, <1>6 DEF Heap

\* Alloc gives the packet v what rhs has, or leaves it what it has found there.
LEMMA AllocTypes ==
  ASSUME IInv, NEW w \in Worker, NEW v \in Variable, NEW r \in Variable,
         r # v, NEW old \in {Cleared} \cup {p \in Packet : IsValid(p)},
         Alloc(w, v, old, packet[w][r])
  PROVE  /\ heap' \in [Buf -> Bytes \cup {None}]
         /\ packet' \in Packets
         /\ packet'[w][v] \in Packet \cup {Cleared}
         /\ old = Cleared =>
              (IsValid(packet'[w][v]) <=> IsValid(packet[w][r]))
         /\ \A u \in Variable \ {v} : packet'[w][u] = packet[w][u]
         /\ \A x \in Worker \ {w} : packet'[x] = packet[x]
<1>1. PICK rhs : rhs = packet[w][r]
  OBVIOUS
<1>2. rhs \in Packet \cup {Cleared, None} /\ old \in Packet \cup {Cleared}
  BY <1>1 DEF IInv, TypeOK
<1>3. Alloc(w, v, old, rhs)
  BY <1>1
\* In either case it is one packet of the worker that changes.
<1>4. ASSUME NEW new \in Packet \cup {Cleared},
             packet' = [packet EXCEPT ![w][v] = new]
      PROVE  /\ packet' \in Packets
             /\ packet'[w][v] = new
             /\ \A u \in Variable \ {v} : packet'[w][u] = packet[w][u]
             /\ \A x \in Worker \ {w} : packet'[x] = packet[x]
  BY <1>4 DEF IInv, TypeOK, Packets
<1>5. CASE IsValid(rhs)
  <2>1. rhs \in Packet /\ ~rhs.bytes.long
    BY <1>2, <1>5, PacketIsValid
  <2>2. PICK freed \in [Buf -> Bytes \cup {None}], b \in Buf :
          /\ heap' = [freed EXCEPT ![b] = freed[rhs.buffer]]
          /\ packet' = [packet EXCEPT ![w][v] =
                          [buffer |-> b, bytes |-> rhs.bytes]]
    <3> DEFINE freed == IF IsValid(old) THEN [heap EXCEPT ![old.buffer] = None]
                        ELSE heap
    <3>1. freed \in [Buf -> Bytes \cup {None}]
      BY DEF IInv, TypeOK
    <3>2. PICK b \in Buf :
            /\ heap' = [freed EXCEPT ![b] = freed[rhs.buffer]]
            /\ packet' = [packet EXCEPT ![w][v] =
                            [buffer |-> b, bytes |-> rhs.bytes]]
      BY <1>3, <1>5 DEF Alloc, Copied
    <3> HIDE DEF freed
    <3> QED
      BY <3>1, <3>2
  <2>3. PICK new : new = [buffer |-> b, bytes |-> rhs.bytes]
    OBVIOUS
  <2>4. new \in Packet /\ IsValid(new)
    <3>1. new \in Packet /\ new.bytes = rhs.bytes
      BY <2>1, <2>3 DEF Packet
    <3> QED
      BY <2>1, <3>1, PacketIsValid
  <2>5. heap' \in [Buf -> Bytes \cup {None}]
    <3>1. freed[rhs.buffer] \in Bytes \cup {None}
      BY <2>1 DEF Packet
    <3> QED
      BY <2>2, <3>1
  <2> QED
    BY <1>1, <1>4, <1>5, <2>2, <2>3, <2>4, <2>5
<1>6. CASE ~IsValid(rhs)
  <2>1. packet' = [packet EXCEPT ![w][v] = old] /\ heap' = heap
    BY <1>3, <1>6 DEF Alloc, Kept
  <2>2. ~IsValid(Cleared)
    BY DEF IsValid
  <2> QED
    BY <1>1, <1>2, <1>4, <1>6, <2>1, <2>2 DEF IInv, TypeOK
<1> QED
  BY <1>5, <1>6

\* A copy onto a packet that has nothing takes a block of its own and leaves
\* the others theirs.
LEMMA AllocHeap ==
  ASSUME IInv, stale = {},
         NEW w \in Worker, NEW v \in Variable, NEW r \in Variable,
         r # v, packet[w][v] \in {Cleared, None},
         Alloc(w, v, Cleared, packet[w][r])
  PROVE  Heap'
<1> DEFINE rhs == packet[w][r]
<1>1. rhs \in Packet \cup {Cleared, None} /\ ~IsValid(Cleared)
  BY DEF IInv, TypeOK, IsValid
<1>2. CASE IsValid(rhs)
  <2>1. rhs \in Packet /\ ~rhs.bytes.long
    BY <1>1, <1>2, PacketIsValid
  <2>2. rhs.bytes \in Bytes /\ heap[rhs.buffer] = rhs.bytes
    BY <2>1 DEF IInv, Intact, Heap, Holding, Packet
  <2>3. PICK b \in Buf :
          /\ heap[b] = None
          /\ heap' = [heap EXCEPT ![b] = rhs.bytes]
          /\ packet' = [packet EXCEPT ![w][v] =
                          [buffer |-> b, bytes |-> rhs.bytes]]
    BY <1>1, <1>2, <2>2 DEF Alloc, Copied
  <2> DEFINE new == [buffer |-> b, bytes |-> rhs.bytes]
  <2>4. new \in Packet /\ new.buffer = b /\ new.bytes = rhs.bytes
    BY <2>2 DEF Packet
  <2>5. IsValid(new)
    BY <2>1, <2>4, PacketIsValid
  <2>6. packet' = [packet EXCEPT ![w][v] = new]
    BY <2>3
  <2> HIDE DEF new
  <2>7. heap' \in [Buf -> Bytes \cup {None}] /\ packet' \in Packets
    BY <2>2, <2>3, <2>4, <2>6 DEF IInv, TypeOK, Packets
  <2>8. /\ packet'[w][v] = new
        /\ \A u \in Variable \ {v} : packet'[w][u] = packet[w][u]
        /\ \A x \in Worker \ {w} : packet'[x] = packet[x]
    BY <2>6 DEF IInv, TypeOK
  <2>9. ASSUME NEW x \in Worker, NEW u \in Variable, x # w \/ u # v,
               packet'[x][u] \in Packet
        PROVE  /\ packet[x][u] = packet'[x][u]
               /\ packet[x][u].buffer # b
               /\ heap'[packet[x][u].buffer] = heap[packet[x][u].buffer]
    <3>1. packet'[x][u] = packet[x][u]
      BY <2>8, <2>9
    <3>2. heap[packet[x][u].buffer] \in Bytes /\ packet[x][u].buffer \in Buf
      BY <2>9, <3>1 DEF IInv, Intact, Heap, Holding, Packet
    <3> QED
      BY <2>3, <3>1, <3>2, NoneAssumption DEF IInv, TypeOK
  <2>10. ASSUME NEW x \in Worker, NEW u \in Variable, IsValid(packet'[x][u])
         PROVE  packet'[x][u] \in Packet
    BY <2>7, <2>10, PacketIsValid DEF Packets
  <2>11. Holding'
    <3> SUFFICES ASSUME NEW x \in Worker, NEW u \in Variable,
                        packet'[x][u] \in Packet
                 PROVE  heap'[packet'[x][u].buffer] = packet'[x][u].bytes
      BY DEF Holding
    <3>1. CASE x = w /\ u = v
      BY <2>3, <2>4, <2>8, <3>1 DEF IInv, TypeOK
    <3>2. CASE x # w \/ u # v
      BY <2>9, <3>2 DEF IInv, Intact, Heap, Holding
    <3> QED
      BY <3>1, <3>2
  <2>12. Distinct'
    <3> SUFFICES ASSUME NEW x \in Worker, NEW u \in Variable,
                        NEW y \in Worker, NEW t \in Variable,
                        IsValid(packet'[x][u]), IsValid(packet'[y][t]),
                        packet'[x][u].buffer = packet'[y][t].buffer
                 PROVE  x = y /\ u = t
      BY DEF Distinct
    <3> QED
      BY <2>4, <2>8, <2>9, <2>10 DEF IInv, Intact, Heap, Distinct
  <2>13. Used'
    <3> SUFFICES ASSUME NEW c \in Buf, heap'[c] # None, ~heap'[c].long
                 PROVE  \E x \in Worker, u \in Variable :
                          IsValid(packet'[x][u]) /\ packet'[x][u].buffer = c
      BY DEF Used
    <3>1. CASE c = b
      BY <2>4, <2>5, <2>8, <3>1
    <3>2. CASE c # b
      <4>1. PICK x \in Worker, u \in Variable :
              IsValid(packet[x][u]) /\ packet[x][u].buffer = c
        BY <2>3, <3>2 DEF IInv, TypeOK, Intact, Heap, Used
      <4>2. packet[x][u] \notin {Cleared, None}
        BY <4>1 DEF IsValid
      <4> QED
        BY <2>8, <4>1, <4>2
    <3> QED
      BY <3>1, <3>2
  <2> QED
    BY <1>2, <2>4, <2>5, <2>7, <2>8, <2>11, <2>12, <2>13 DEF Heap
<1>3. CASE ~IsValid(rhs)
  <2>1. packet' = [packet EXCEPT ![w][v] = Cleared] /\ heap' = heap
    BY <1>3 DEF Alloc, Kept
  <2>2. ~IsValid(packet[w][v])
    BY DEF IsValid
  <2> QED
    BY <1>1, <1>3, <2>1, <2>2, BlankHeap
<1> QED
  BY <1>2, <1>3

\* A destructor frees the block of a valid packet, which is nobody else's.
LEMMA DestroyHeap ==
  ASSUME IInv, NEW w \in Worker, NEW v \in Variable, Destroy(w, v)
  PROVE  /\ heap' \in [Buf -> Bytes \cup {None}]
         /\ packet' \in Packets
         /\ stale = {} => Heap'
         /\ packet'[w][v] = None
         /\ \A u \in Variable \ {v} : packet'[w][u] = packet[w][u]
         /\ \A x \in Worker \ {w} : packet'[x] = packet[x]
<1> DEFINE p == packet[w][v]
<1>1. p \in Packet \cup {Cleared, None}
  BY DEF IInv, TypeOK
<1>2. /\ packet'[w][v] = None
      /\ \A u \in Variable \ {v} : packet'[w][u] = packet[w][u]
      /\ \A x \in Worker \ {w} : packet'[x] = packet[x]
  BY DEF IInv, TypeOK, Destroy
<1>3. packet' \in Packets /\ heap' \in [Buf -> Bytes \cup {None}]
  BY DEF IInv, TypeOK, Packets, Destroy
<1>4. ~IsValid(None) /\ None \notin Packet
  BY NoneAssumption DEF IsValid
<1>5. ASSUME stale = {} PROVE Distinct'
  BY <1>2, <1>4, <1>5 DEF IInv, Intact, Heap, Distinct
<1>6. ASSUME stale = {}, NEW x \in Worker, NEW u \in Variable, x # w \/ u # v,
             packet[x][u] \in Packet
      PROVE  heap'[packet[x][u].buffer] = heap[packet[x][u].buffer]
  <2>1. CASE ~IsValid(p)
    BY <2>1 DEF Destroy
  <2>2. CASE IsValid(p)
    <3>1. p \in Packet /\ ~p.bytes.long /\ heap[p.buffer] = p.bytes
      BY <1>1, <1>6, <2>2, PacketIsValid DEF IInv, Intact, Heap, Holding
    <3>2. heap[packet[x][u].buffer] = packet[x][u].bytes
      BY <1>6 DEF IInv, Intact, Heap, Holding
    <3>3. packet[x][u].buffer # p.buffer
      <4>1. SUFFICES ASSUME packet[x][u].buffer = p.buffer PROVE FALSE
        OBVIOUS
      <4>2. IsValid(packet[x][u])
        BY <1>6, <3>1, <3>2, <4>1, PacketIsValid
      <4> QED
        BY <1>6, <2>2, <4>1, <4>2 DEF IInv, Intact, Heap, Distinct
    <3>4. heap' = [heap EXCEPT ![p.buffer] = None]
      BY <2>2 DEF Destroy
    <3> QED
      BY <1>6, <3>1, <3>3, <3>4 DEF IInv, TypeOK, Packet
  <2> QED
    BY <2>1, <2>2
<1>7. ASSUME stale = {} PROVE Holding'
  BY <1>2, <1>4, <1>6, <1>7 DEF IInv, Intact, Heap, Holding
<1>8. ASSUME stale = {} PROVE Used'
  <2> SUFFICES ASSUME NEW c \in Buf, heap'[c] # None, ~heap'[c].long
               PROVE  \E x \in Worker, u \in Variable :
                        IsValid(packet'[x][u]) /\ packet'[x][u].buffer = c
    BY DEF Used
  <2>1. heap'[c] = heap[c] /\ (IsValid(p) => p.buffer # c)
    <3>1. CASE ~IsValid(p)
      BY <3>1 DEF Destroy
    <3>2. CASE IsValid(p)
      BY <3>2 DEF IInv, TypeOK, Destroy
    <3> QED
      BY <3>1, <3>2
  <2>2. PICK x \in Worker, u \in Variable :
          IsValid(packet[x][u]) /\ packet[x][u].buffer = c
    BY <1>8, <2>1 DEF IInv, Intact, Heap, Used
  <2> QED
    BY <1>2, <2>1, <2>2
<1> QED
  BY <1>2, <1>3, <1>5, <1>7, <1>8 DEF Heap

\* What NewHeap says of a packet built among those the handler has.
LEMMA BuildHeap ==
  ASSUME IInv, NEW w \in Worker, NEW v \in Variable,
         NEW what \in {"request", "answer", "error", "broadcast"},
         NEW long \in BOOLEAN, packet[w][v] = None,
         New(w, v, packet[w], what, long)
  PROVE  /\ heap' \in [Buf -> Bytes \cup {None}]
         /\ packet' \in Packets
         /\ stale = {} => Heap'
         /\ packet'[w][v] \in Packet /\ (IsValid(packet'[w][v]) <=> ~long)
         /\ \A u \in Variable \ {v} : packet'[w][u] = packet[w][u]
         /\ \A x \in Worker \ {w} : packet'[x] = packet[x]
<1>1. PICK vs : vs = packet[w]
  OBVIOUS
<1>2. vs \in [Variable -> Packet \cup {Cleared, None}]
  BY <1>1 DEF IInv, TypeOK
<1>3. New(w, v, vs, what, long)
  BY <1>1 DEF New
<1>4. Filled(w, vs)
  BY <1>1 DEF Filled
<1> QED
  BY <1>1, <1>2, <1>3, <1>4, NewHeap

\* And of one built together with the result of its handler.
LEMMA BuildResultHeap ==
  ASSUME IInv, NEW w \in Worker, NEW what \in {"answer"},
         NEW long \in BOOLEAN,
         packet[w]["response"] = None, packet[w]["result"] = None,
         New(w, "response", WithResult(w), what, long)
  PROVE  /\ heap' \in [Buf -> Bytes \cup {None}]
         /\ packet' \in Packets
         /\ stale = {} => Heap'
         /\ packet'[w]["response"] \in Packet
         /\ IsValid(packet'[w]["response"]) <=> ~long
         /\ packet'[w]["result"] = Cleared
         /\ \A u \in Variable \ {"response", "result"} :
              packet'[w][u] = packet[w][u]
         /\ \A x \in Worker \ {w} : packet'[x] = packet[x]
<1>1. PICK vs : vs = WithResult(w)
  OBVIOUS
<1>2. /\ vs \in [Variable -> Packet \cup {Cleared, None}]
      /\ \A u \in Variable \ {"result"} : vs[u] = packet[w][u]
      /\ vs["result"] = Cleared
  BY <1>1 DEF IInv, TypeOK, Variable, WithResult
<1>3. New(w, "response", vs, what, long)
  BY <1>1 DEF New
<1>4. Filled(w, vs)
  BY <1>2 DEF Filled
<1>5. "response" \in Variable /\ "result" \in Variable
  BY DEF Variable
<1> QED
  BY <1>2, <1>3, <1>4, <1>5, NewHeap

-----------------------------------------------------------------------------
(* One lemma for each action. *)

\* A step of w is nothing to the others' handlers.
LEMMA Others ==
  ASSUME IInv, NEW w \in Worker, NEW from, NEW to, Step(w, from, to),
         \A x \in Worker \ {w} :
           /\ packet'[x] = packet[x] /\ owed'[x] = owed[x]
           /\ x \in refused' <=> x \in refused,
         stale \subseteq stale',
         Present(w)', w \notin stale' => Answering(w)'
  PROVE  Handling'
<1>1. ASSUME NEW x \in Worker \ {w}
      PROVE  Present(x)' /\ (x \notin stale' => Answering(x)')
  <2>1. /\ pc'[x] = pc[x] /\ packet'[x] = packet[x] /\ owed'[x] = owed[x]
        /\ x \in refused' <=> x \in refused
    BY <1>1 DEF IInv, TypeOK, Step
  <2>2. Present(x)'
    BY <1>1, <2>1 DEF IInv, Handling, Present, Absent
  <2>3. ASSUME x \notin stale' PROVE Answering(x)'
    <3>1. Answering(x)
      BY <1>1, <2>3 DEF IInv, Handling
    <3> QED
      BY <2>1, <3>1 DEF Answering
  <2> QED
    BY <2>2, <2>3
<1> QED
  BY <1>1 DEF Handling

\* A request is received by a handler that had no packets.
LEMMA ReceiveStep ==
  ASSUME IInv, NEW w \in Worker, NEW long \in BOOLEAN, Receive(w, long)
  PROVE  IInv'
<1>1. packet[w].request = None
  BY DEF IInv, Handling, Present, Absent, Receive, Step
<1>2. /\ heap' \in [Buf -> Bytes \cup {None}]
      /\ packet' \in Packets
      /\ stale = {} => Heap'
      /\ \A u \in Variable \ {"request"} : packet'[w][u] = packet[w][u]
      /\ \A x \in Worker \ {w} : packet'[x] = packet[x]
  BY <1>1, BuildHeap DEF Variable, Receive
<1>3. TypeOK'
  <2>1. /\ owed' \in [Worker -> Int]
        /\ refused' \subseteq Worker /\ stale' = stale
    BY DEF IInv, TypeOK, Receive, Begins
  <2> QED
    BY <1>2, <2>1 DEF IInv, TypeOK, Packets, Receive, Step
<1>4. pc[w] = "idle" /\ pc'[w] = "process"
      /\ owed'[w] = 0 /\ w \notin refused' /\ stale' = stale
      /\ \A x \in Worker \ {w} : /\ owed'[x] = owed[x]
                                 /\ x \in refused' <=> x \in refused
  BY DEF IInv, TypeOK, Receive, Begins, Step
<1>5. Present(w)'
  BY <1>2, <1>4 DEF IInv, Handling, Variable, Present, Absent
<1>6. w \notin stale' => Answering(w)'
  BY <1>4 DEF Answering
<1> QED
  BY <1>2, <1>3, <1>4, <1>5, <1>6, Others DEF IInv, Intact, Receive

\* The answer to a login is owed unless it is too long.
LEMMA LoginResponseStep ==
  ASSUME IInv, NEW w \in Worker, NEW long \in BOOLEAN,
         LoginResponse(w, long)
  PROVE  IInv'
<1>1. packet[w]["response"] = None /\ packet[w]["result"] = None
  BY DEF IInv, TypeOK, Handling, Present, Absent, Answering, LoginResponse,
         Step
<1>2. /\ heap' \in [Buf -> Bytes \cup {None}]
      /\ packet' \in Packets
      /\ stale = {} => Heap'
      /\ packet'[w]["response"] \in Packet
      /\ IsValid(packet'[w]["response"]) <=> ~long
      /\ packet'[w]["result"] = Cleared
      /\ \A u \in Variable \ {"response", "result"} :
           packet'[w][u] = packet[w][u]
      /\ \A x \in Worker \ {w} : packet'[x] = packet[x]
  BY <1>1, BuildResultHeap DEF Variable, LoginResponse
<1>3. TypeOK'
  <2>1. owed' \in [Worker -> Int]
    BY DEF IInv, TypeOK, LoginResponse, Owes
  <2> QED
    BY <1>2, <2>1 DEF IInv, TypeOK, Packets, LoginResponse, Owes, Step
<1>4. pc[w] = "process" /\ pc'[w] = "enter"
      /\ owed'[w] = One(packet'[w].response)
      /\ stale' = stale /\ refused' = refused
      /\ \A x \in Worker \ {w} : owed'[x] = owed[x]
  BY <1>1, <1>2 DEF IInv, TypeOK, LoginResponse, Owes, Step,
     One, Variable
<1>5. Present(w)'
  BY <1>1, <1>2, <1>4 DEF IInv, Handling, Variable, Present, Absent
<1>6. w \notin stale' => Answering(w)'
  BY <1>1, <1>2, <1>4 DEF IInv, Handling, Variable, Answering, One
<1> QED
  BY <1>2, <1>3, <1>4, <1>5, <1>6, Others
     DEF IInv, TypeOK, Intact, LoginResponse

\* The enter broadcast goes out beside the answer.
LEMMA EnterBroadcastStep ==
  ASSUME IInv, NEW w \in Worker, EnterBroadcast(w)
  PROVE  IInv'
<1>1. packet[w]["broadcast"] = None
  BY DEF IInv, TypeOK, Handling, Present, Absent, Answering, EnterBroadcast,
         Step
<1>2. /\ heap' \in [Buf -> Bytes \cup {None}]
      /\ packet' \in Packets
      /\ stale = {} => Heap'
      /\ packet'[w]["broadcast"] \in Packet
      /\ \A u \in Variable \ {"broadcast"} : packet'[w][u] = packet[w][u]
      /\ \A x \in Worker \ {w} : packet'[x] = packet[x]
  BY <1>1, BuildHeap DEF Variable, EnterBroadcast
<1>3. TypeOK'
  BY <1>2 DEF IInv, TypeOK, Packets, EnterBroadcast, Step
<1>4. pc[w] = "enter" /\ pc'[w] = "cast"
      /\ UNCHANGED historyVars
  BY <1>1, <1>2 DEF IInv, TypeOK, EnterBroadcast, Step
<1>5. Present(w)'
  BY <1>1, <1>2, <1>4, NoneAssumption
     DEF IInv, Handling, Variable, Present, Absent
<1>6. w \notin stale' => Answering(w)'
  BY <1>1, <1>2, <1>4 DEF IInv, Handling, Variable, Answering, One, IsValid
<1> QED
  BY <1>2, <1>3, <1>4, <1>5, <1>6, Others
     DEF IInv, TypeOK, Intact, EnterBroadcast

\* The answer to a round trip is owed.
LEMMA RoundTripResponseStep ==
  ASSUME IInv, NEW w \in Worker, RoundTripResponse(w)
  PROVE  IInv'
<1>1. packet[w]["response"] = None /\ packet[w]["result"] = None
  BY DEF IInv, TypeOK, Handling, Present, Absent, Answering,
         RoundTripResponse, Step
<1>2. /\ heap' \in [Buf -> Bytes \cup {None}]
      /\ packet' \in Packets
      /\ stale = {} => Heap'
      /\ packet'[w]["response"] \in Packet
      /\ IsValid(packet'[w]["response"]) <=> ~FALSE
      /\ packet'[w]["result"] = Cleared
      /\ \A u \in Variable \ {"response", "result"} :
           packet'[w][u] = packet[w][u]
      /\ \A x \in Worker \ {w} : packet'[x] = packet[x]
  BY <1>1, BuildResultHeap DEF Variable, RoundTripResponse
<1>3. TypeOK'
  <2>1. owed' \in [Worker -> Int]
    BY DEF IInv, TypeOK, RoundTripResponse, Owes
  <2> QED
    BY <1>2, <2>1 DEF IInv, TypeOK, Packets, RoundTripResponse, Owes, Step
<1>4. pc[w] = "process" /\ pc'[w] = "set"
      /\ owed'[w] = One(packet'[w].response)
      /\ stale' = stale /\ refused' = refused
      /\ \A x \in Worker \ {w} : owed'[x] = owed[x]
  BY <1>1, <1>2 DEF IInv, TypeOK, RoundTripResponse, Owes, Step,
     One, Variable
<1>5. Present(w)'
  BY <1>1, <1>2, <1>4 DEF IInv, Handling, Variable, Present, Absent
<1>6. w \notin stale' => Answering(w)'
  BY <1>1, <1>2, <1>4 DEF IInv, Handling, Variable, Answering, One
<1> QED
  BY <1>2, <1>3, <1>4, <1>5, <1>6, Others
     DEF IInv, TypeOK, Intact, RoundTripResponse

\* What is passed on to the others has no answer.
LEMMA RelayStep ==
  ASSUME IInv, NEW w \in Worker, NEW long \in BOOLEAN, Relay(w, long)
  PROVE  IInv'
<1>1. packet[w]["broadcast"] = None /\ packet[w]["response"] = None
  BY DEF IInv, TypeOK, Handling, Present, Absent, Answering, Relay, Step
<1>2. /\ heap' \in [Buf -> Bytes \cup {None}]
      /\ packet' \in Packets
      /\ stale = {} => Heap'
      /\ packet'[w]["broadcast"] \in Packet
      /\ \A u \in Variable \ {"broadcast"} : packet'[w][u] = packet[w][u]
      /\ \A x \in Worker \ {w} : packet'[x] = packet[x]
  BY <1>1, BuildHeap DEF Variable, Relay
<1>3. TypeOK'
  BY <1>2 DEF IInv, TypeOK, Packets, Relay, Step
<1>4. pc[w] = "process" /\ pc'[w] = "cast"
      /\ UNCHANGED historyVars
  BY <1>1, <1>2 DEF IInv, TypeOK, Relay, Step
<1>5. Present(w)'
  BY <1>1, <1>2, <1>4, NoneAssumption
     DEF IInv, Handling, Variable, Present, Absent
<1>6. w \notin stale' => Answering(w)'
  BY <1>1, <1>2, <1>4 DEF IInv, Handling, Variable, Answering, One, IsValid
<1> QED
  BY <1>2, <1>3, <1>4, <1>5, <1>6, Others DEF IInv, TypeOK, Intact, Relay

\* Nor has the end of a session.
LEMMA AnnounceExitStep ==
  ASSUME IInv, NEW w \in Worker, AnnounceExit(w)
  PROVE  IInv'
<1>1. packet[w]["broadcast"] = None /\ packet[w]["response"] = None
  BY DEF IInv, TypeOK, Handling, Present, Absent, Answering, AnnounceExit, Step
<1>2. /\ heap' \in [Buf -> Bytes \cup {None}]
      /\ packet' \in Packets
      /\ stale = {} => Heap'
      /\ packet'[w]["broadcast"] \in Packet
      /\ \A u \in Variable \ {"broadcast"} : packet'[w][u] = packet[w][u]
      /\ \A x \in Worker \ {w} : packet'[x] = packet[x]
  BY <1>1, BuildHeap DEF Variable, AnnounceExit
<1>3. TypeOK'
  <2>1. /\ owed' \in [Worker -> Int]
        /\ refused' \subseteq Worker /\ stale' = stale
    BY DEF IInv, TypeOK, AnnounceExit, Begins
  <2> QED
    BY <1>2, <2>1 DEF IInv, TypeOK, Packets, AnnounceExit, Step
<1>4. pc[w] = "idle" /\ pc'[w] = "cast"
      /\ owed'[w] = 0 /\ w \notin refused' /\ stale' = stale
      /\ \A x \in Worker \ {w} : /\ owed'[x] = owed[x]
                                 /\ x \in refused' <=> x \in refused
  BY <1>1, <1>2 DEF IInv, TypeOK, AnnounceExit, Begins, Step
<1>5. Present(w)'
  BY <1>1, <1>2, <1>4, NoneAssumption
     DEF IInv, Handling, Variable, Present, Absent
<1>6. w \notin stale' => Answering(w)'
  BY <1>1, <1>2, <1>4 DEF IInv, Handling, Variable, Answering, One, IsValid
<1> QED
  BY <1>2, <1>3, <1>4, <1>5, <1>6, Others
     DEF IInv, TypeOK, Intact, AnnounceExit

\* An error is the answer that is owed.
LEMMA CreateErrorStep ==
  ASSUME IInv, NEW w \in Worker, CreateError(w)
  PROVE  IInv'
<1>1. packet[w]["response"] = None
  BY DEF IInv, TypeOK, Handling, Present, Absent, Answering, CreateError, Step
<1>2. /\ heap' \in [Buf -> Bytes \cup {None}]
      /\ packet' \in Packets
      /\ stale = {} => Heap'
      /\ packet'[w]["response"] \in Packet
      /\ IsValid(packet'[w]["response"])
      /\ \A u \in Variable \ {"response"} : packet'[w][u] = packet[w][u]
      /\ \A x \in Worker \ {w} : packet'[x] = packet[x]
  BY <1>1, BuildHeap DEF Variable, CreateError
<1>3. TypeOK'
  BY <1>2 DEF IInv, TypeOK, Packets, CreateError, Step
<1>4. pc[w] = "error" /\ pc'[w] = "set"
      /\ UNCHANGED historyVars
  BY <1>1, <1>2 DEF IInv, TypeOK, CreateError, Step
<1>5. Present(w)'
  BY <1>1, <1>2, <1>4 DEF IInv, Handling, Variable, Present, Absent
<1>6. w \notin stale' => Answering(w)'
  BY <1>1, <1>2, <1>4 DEF IInv, Handling, Variable, Answering, One
<1> QED
  BY <1>2, <1>3, <1>4, <1>5, <1>6, Others
     DEF IInv, TypeOK, Intact, CreateError

\* A handler that fails owes an answer and has no packet for it yet.
LEMMA FailsStep ==
  ASSUME IInv, NEW w \in Worker, Fails(w)
  PROVE  IInv'
<1>1. /\ packet[w]["response"] = None /\ packet[w]["result"] = None
      /\ packet' = [packet EXCEPT ![w]["result"] = Cleared]
  BY DEF IInv, Handling, Present, Absent, Fails, Step, WithResult
<1>2. /\ heap' \in [Buf -> Bytes \cup {None}]
      /\ packet' \in Packets
      /\ stale = {} => Heap'
      /\ packet'[w]["result"] = Cleared
      /\ \A u \in Variable \ {"result"} : packet'[w][u] = packet[w][u]
      /\ \A x \in Worker \ {w} : packet'[x] = packet[x]
  <2>1. ~IsValid(packet[w]["result"])
    BY <1>1 DEF IsValid
  <2> QED
    BY <1>1, <2>1, BlankHeap DEF Variable, Fails
<1>3. TypeOK'
  <2>1. owed' \in [Worker -> Int]
    BY DEF IInv, TypeOK, Fails, Owes
  <2> QED
    BY <1>2, <2>1 DEF IInv, TypeOK, Packets, Fails, Owes, Step
<1>4. pc[w] = "process" /\ pc'[w] = "error"
      /\ owed'[w] = 1
      /\ stale' = stale /\ refused' = refused
      /\ \A x \in Worker \ {w} : owed'[x] = owed[x]
  BY DEF IInv, TypeOK, Fails, Owes, Step
<1>5. Present(w)'
  BY <1>1, <1>2, <1>4 DEF IInv, Handling, Variable, Present, Absent
<1>6. w \notin stale' => Answering(w)'
  BY <1>4 DEF IInv, Handling, Answering
<1> QED
  BY <1>2, <1>3, <1>4, <1>5, <1>6, Others DEF IInv, TypeOK, Intact, Fails

\* A step that leaves the packets and their blocks alone keeps them in order.
LEMMA SameHeap ==
  ASSUME IInv, stale = {}, UNCHANGED <<heap, packet>>
  PROVE  Heap'
  BY DEF IInv, Intact, Heap, Holding, Distinct, Used

\* A handler may have nothing to send, and owes nothing.
LEMMA NothingToSendStep ==
  ASSUME IInv, NEW w \in Worker, NothingToSend(w)
  PROVE  IInv'
<1>1. TypeOK'
  BY DEF IInv, TypeOK, NothingToSend, Step
<1>2. Present(w)' /\ (w \notin stale' => Answering(w)')
  BY DEF IInv, TypeOK, Handling, NothingToSend, Step,
         Present, Absent, Answering
<1> QED
  BY <1>1, <1>2, SameHeap, Others DEF IInv, Intact, NothingToSend

\* What is sent at once is in its block.
LEMMA SendKeeps ==
  ASSUME NEW p \in Packet, NEW sent \in BOOLEAN, heap[p.buffer] = p.bytes,
         Send(p, sent)
  PROVE  damaged' = damaged
  BY DEF Send, Take

\* The broadcast is sent as it was built, also when it is too long to copy.
LEMMA SendBroadcastStep ==
  ASSUME IInv, NEW w \in Worker, SendBroadcast(w)
  PROVE  IInv'
<1>1. PICK p \in Packet : p = packet[w]["broadcast"]
  BY DEF IInv, Handling, Present, SendBroadcast, Step
<1>2. PICK sent \in BOOLEAN : Send(p, sent)
  BY <1>1 DEF SendBroadcast, Send, Take
<1>3. ASSUME stale = {} PROVE Intact'
  <2>1. heap[p.buffer] = p.bytes
    BY <1>1, <1>3 DEF IInv, Intact, Heap, Holding, Variable
  <2> QED
    BY <1>2, <1>3, <2>1, SendKeeps, SameHeap DEF IInv, Intact, SendBroadcast
<1>4. TypeOK'
  <2>1. pending' \subseteq Packet /\ damaged' \subseteq {"within", "after"}
    BY <1>2 DEF IInv, TypeOK, Send, Take
  <2> QED
    BY <2>1 DEF IInv, TypeOK, SendBroadcast, Step
<1>5. Present(w)' /\ (w \notin stale' => Answering(w)')
  <2>1. pc' = pc /\ UNCHANGED <<packet, historyVars>>
    BY DEF IInv, TypeOK, SendBroadcast, Step
  <2> QED
    BY <2>1 DEF IInv, Handling, Present, Absent, Answering
<1> QED
  BY <1>3, <1>4, <1>5, Others DEF IInv, SendBroadcast

\* Then the answer is set, if there is one.
LEMMA BroadcastDoneStep ==
  ASSUME IInv, NEW w \in Worker, BroadcastDone(w)
  PROVE  IInv'
<1>1. TypeOK'
  BY DEF IInv, TypeOK, BroadcastDone, Step
<1>2. /\ pc[w] = "cast" /\ UNCHANGED <<packet, historyVars>>
      /\ pc'[w] = IF packet[w].response = None THEN "scope" ELSE "set"
  BY DEF IInv, TypeOK, BroadcastDone, Step
<1>3. Present(w)'
  BY <1>2 DEF IInv, Handling, Present, Absent
<1>4. w \notin stale' => Answering(w)'
  BY <1>2 DEF IInv, Handling, Present, Answering, One, IsValid
<1> QED
  BY <1>1, <1>2, <1>3, <1>4, SameHeap, Others
     DEF IInv, Intact, BroadcastDone

\* The result has a copy of the answer when the answer is valid.
LEMMA SetPacketStep ==
  ASSUME IInv, NEW w \in Worker, SetPacket(w)
  PROVE  IInv'
<1>1. packet[w]["result"] = Cleared /\ packet[w].result = Cleared
  BY DEF IInv, TypeOK, Handling, Present, Absent, Answering, SetPacket, Step
<1>2. /\ heap' \in [Buf -> Bytes \cup {None}]
      /\ packet' \in Packets
      /\ packet'[w]["result"] \in Packet \cup {Cleared}
      /\ IsValid(packet'[w]["result"]) <=> IsValid(packet[w]["response"])
      /\ \A u \in Variable \ {"result"} : packet'[w][u] = packet[w][u]
      /\ \A x \in Worker \ {w} : packet'[x] = packet[x]
  BY <1>1, AllocTypes DEF Variable, SetPacket
<1>7. ASSUME stale = {} PROVE Heap'
  BY <1>1, <1>7, AllocHeap DEF Variable, SetPacket
<1>3. TypeOK'
  BY <1>2 DEF IInv, TypeOK, Packets, SetPacket, Step
<1>4. pc[w] = "set" /\ pc'[w] = "scope"
      /\ UNCHANGED historyVars
  BY <1>1, <1>2 DEF IInv, TypeOK, SetPacket, Step
<1>5. Present(w)'
  BY <1>1, <1>2, <1>4, NoneAssumption
     DEF IInv, Handling, Variable, Present, Absent
<1>6. w \notin stale' => Answering(w)'
  BY <1>1, <1>2, <1>4 DEF IInv, Handling, Variable, Answering, One
<1> QED
  BY <1>2, <1>3, <1>4, <1>5, <1>6, <1>7, Others
     DEF IInv, TypeOK, Intact, SetPacket

\* The broadcast goes at the end of its scope.
LEMMA DestroyBroadcastStep ==
  ASSUME IInv, NEW w \in Worker, DestroyBroadcast(w)
  PROVE  IInv'
<1>1. pc[w] = "scope"
  BY DEF IInv, TypeOK, Handling, Present, Absent, Answering, DestroyBroadcast,
         Step
<1>2. /\ heap' \in [Buf -> Bytes \cup {None}]
      /\ packet' \in Packets
      /\ stale = {} => Heap'
      /\ packet'[w]["broadcast"] = None
      /\ \A u \in Variable \ {"broadcast"} : packet'[w][u] = packet[w][u]
      /\ \A x \in Worker \ {w} : packet'[x] = packet[x]
  BY <1>1, DestroyHeap DEF Variable, DestroyBroadcast
<1>3. TypeOK'
  BY <1>2 DEF IInv, TypeOK, Packets, DestroyBroadcast, Step
<1>4. pc'[w] = "return" /\ UNCHANGED historyVars
  BY <1>1, <1>2 DEF IInv, TypeOK, DestroyBroadcast, Step
<1>5. Present(w)'
  BY <1>1, <1>2, <1>4 DEF IInv, Handling, Variable, Present, Absent
<1>6. w \notin stale' => Answering(w)'
  BY <1>1, <1>2, <1>4 DEF IInv, Handling, Variable, Answering, One
<1> QED
  BY <1>2, <1>3, <1>4, <1>5, <1>6, Others
     DEF IInv, TypeOK, Intact, DestroyBroadcast

\* So does the answer, of which the result has a copy by now.
LEMMA DestroyResponseStep ==
  ASSUME IInv, NEW w \in Worker, DestroyResponse(w)
  PROVE  IInv'
<1>1. pc[w] = "return"
  BY DEF IInv, TypeOK, Handling, Present, Absent, Answering, DestroyResponse,
         Step
<1>2. /\ heap' \in [Buf -> Bytes \cup {None}]
      /\ packet' \in Packets
      /\ stale = {} => Heap'
      /\ packet'[w]["response"] = None
      /\ \A u \in Variable \ {"response"} : packet'[w][u] = packet[w][u]
      /\ \A x \in Worker \ {w} : packet'[x] = packet[x]
  BY <1>1, DestroyHeap DEF Variable, DestroyResponse
<1>3. TypeOK'
  BY <1>2 DEF IInv, TypeOK, Packets, DestroyResponse, Step
<1>4. /\ pc' = [pc EXCEPT ![w] = IF packet[w].result = None
                                THEN "finish" ELSE "get"]
      /\ UNCHANGED historyVars
  BY DEF DestroyResponse, Step
<1>5. /\ packet'[w].result = packet[w].result
      /\ packet'[w].response = None
      /\ packet'[w].broadcast = None
      /\ packet'[w].resultPacket = None
  BY <1>1, <1>2 DEF IInv, Handling, Variable, Present, Absent
<1>6. w \notin stale => owed[w] = One(packet[w].result) /\ w \notin refused
  BY <1>1 DEF IInv, Handling, Answering
<1>7. ASSUME packet[w].result = None
      PROVE  Present(w)' /\ (w \notin stale' => Answering(w)')
  <2>1. pc'[w] = "finish"
    BY <1>4, <1>7 DEF IInv, TypeOK
  <2>2. w \notin stale => owed[w] = 0
    BY <1>6, <1>7 DEF One, IsValid
  <2> QED
    BY <1>4, <1>5, <1>6, <1>7, <2>1, <2>2 DEF Present, Absent, Answering
<1>8. ASSUME packet[w].result # None
      PROVE  Present(w)' /\ (w \notin stale' => Answering(w)')
  <2>1. pc'[w] = "get"
    BY <1>4, <1>8 DEF IInv, TypeOK
  <2> QED
    BY <1>4, <1>5, <1>6, <1>8, <2>1 DEF Present, Absent, Answering
<1> QED
  BY <1>2, <1>3, <1>4, <1>7, <1>8, Others
     DEF IInv, TypeOK, Intact, DestroyResponse

\* The packet that is sent is a copy of the one in the result, or, if that is
\* not valid, what the copy constructor has found.
LEMMA GetPacketStep ==
  ASSUME IInv, NEW w \in Worker, GetPacket(w)
  PROVE  IInv'
<1>1. packet[w]["resultPacket"] = None /\ pc[w] = "get"
  BY DEF IInv, Handling, Present, GetPacket, Step
<1>2. PICK old \in {Cleared} \cup {p \in Packet : IsValid(p)} :
        /\ Alloc(w, "resultPacket", old, packet[w]["result"])
        /\ stale' = IF IsValid(old) THEN stale \cup {w} ELSE stale
  BY DEF GetPacket
<1>3. /\ heap' \in [Buf -> Bytes \cup {None}]
      /\ packet' \in Packets
      /\ packet'[w]["resultPacket"] \in Packet \cup {Cleared}
      /\ old = Cleared =>
           (IsValid(packet'[w]["resultPacket"])
              <=> IsValid(packet[w]["result"]))
      /\ \A u \in Variable \ {"resultPacket"} : packet'[w][u] = packet[w][u]
      /\ \A x \in Worker \ {w} : packet'[x] = packet[x]
  BY <1>2, AllocTypes DEF Variable
<1>4. /\ stale \subseteq stale' /\ stale' \subseteq Worker
      /\ w \notin stale' => w \notin stale /\ old = Cleared
  BY <1>2 DEF IInv, TypeOK, IsValid
<1>5. ASSUME stale' = {} PROVE Heap'
  BY <1>1, <1>2, <1>4, <1>5, AllocHeap DEF Variable
<1>6. TypeOK'
  BY <1>3, <1>4 DEF IInv, TypeOK, Packets, GetPacket, Step
<1>7. pc'[w] = "answer" /\ owed' = owed /\ refused' = refused
  BY DEF IInv, TypeOK, GetPacket, Step
<1>8. Present(w)'
  BY <1>1, <1>3, <1>7, NoneAssumption
     DEF IInv, Handling, Variable, Present, Absent
<1>9. ASSUME w \notin stale' PROVE Answering(w)'
  <2>1. Answering(w)
    BY <1>4, <1>9 DEF IInv, Handling
  <2> QED
    BY <1>1, <1>3, <1>4, <1>7, <1>9, <2>1 DEF Variable, Answering, One
<1>10. Handling'
  BY <1>3, <1>4, <1>7, <1>8, <1>9, Others DEF GetPacket
<1> QED
  BY <1>4, <1>5, <1>6, <1>10 DEF IInv, Intact, GetPacket

\* A valid answer is sent and no longer owed, or it is refused; another one
\* never was owed.
LEMMA AnswerStep ==
  ASSUME IInv, NEW w \in Worker, Answer(w)
  PROVE  IInv'
<1>1. /\ pc[w] = "answer"
      /\ w \notin stale => /\ owed[w] = One(packet[w].result)
                           /\ owed[w] = One(packet[w].resultPacket)
                           /\ w \notin refused
  BY DEF IInv, Handling, Answering, Answer, Step
<1>2. CASE IsValid(packet[w].resultPacket)
  <2>1. PICK sent \in BOOLEAN :
          /\ Send(packet[w].resultPacket, sent)
          /\ owed' = IF sent THEN [owed EXCEPT ![w] = @ - 1] ELSE owed
          /\ refused' = IF sent THEN refused ELSE refused \cup {w}
    BY <1>2 DEF Answer
  <2>2. /\ pc' = [pc EXCEPT ![w] = "delete"]
        /\ UNCHANGED <<heap, packet, stale>>
    BY <1>2 DEF Answer, Step
  <2>3. PICK p \in Packet : p = packet[w]["resultPacket"]
    BY <1>2, PacketIsValid DEF IInv, TypeOK, Variable
  <2>4. Send(p, sent)
    BY <2>1, <2>3 DEF Send, Take
  <2>5. pending' \subseteq Packet /\ damaged' \subseteq {"within", "after"}
    BY <2>4 DEF IInv, TypeOK, Send, Take
  <2>6. ASSUME stale = {} PROVE Intact'
    <3>1. heap[p.buffer] = p.bytes
      BY <2>3, <2>6 DEF IInv, Intact, Heap, Holding, Variable
    <3> QED
      BY <2>2, <2>4, <2>6, <3>1, SendKeeps, SameHeap DEF IInv, Intact
  <2>7. owed' \in [Worker -> Int] /\ refused' \subseteq Worker
    BY <2>1 DEF IInv, TypeOK
  <2>8. TypeOK'
    BY <2>2, <2>5, <2>7 DEF IInv, TypeOK
  <2>9. Present(w)'
    BY <1>1, <2>2 DEF IInv, TypeOK, Handling, Present, Absent
  <2>10. ASSUME w \notin stale' PROVE Answering(w)'
    <3>1. owed[w] = 1 /\ w \notin refused /\ w \notin stale
      BY <1>1, <1>2, <2>2, <2>10 DEF One
    <3>2. owed'[w] = IF w \in refused' THEN 1 ELSE 0
      BY <2>1, <3>1 DEF IInv, TypeOK
    <3>3. pc'[w] = "delete"
      BY <2>2 DEF IInv, TypeOK
    <3> QED
      BY <3>2, <3>3 DEF Answering
  <2>11. Step(w, "answer", "delete")
    BY <1>1, <2>2 DEF Step
  <2>12. \A x \in Worker \ {w} :
           /\ packet'[x] = packet[x] /\ owed'[x] = owed[x]
           /\ x \in refused' <=> x \in refused
    BY <2>1, <2>2 DEF IInv, TypeOK
  <2>13. Handling'
    BY <2>2, <2>9, <2>10, <2>11, <2>12, Others
  <2> QED
    BY <2>2, <2>6, <2>8, <2>13 DEF IInv
<1>3. CASE ~IsValid(packet[w].resultPacket)
  <2>1. /\ packet' = [packet EXCEPT ![w]["result"] = None]
        /\ Step(w, "answer", "end")
        /\ UNCHANGED <<heap, pending, damaged, stale, owed, refused>>
    BY <1>3 DEF Answer
  <2>2. /\ packet' \in Packets
        /\ packet'[w]["result"] = None
        /\ \A u \in Variable \ {"result"} : packet'[w][u] = packet[w][u]
        /\ \A x \in Worker \ {w} : packet'[x] = packet[x]
    BY <2>1 DEF IInv, TypeOK, Packets, Variable
  <2>3. ASSUME stale = {} PROVE Heap'
    <3>1. ~IsValid(packet[w]["result"])
      BY <1>1, <1>3, <2>3 DEF One
    <3> QED
      BY <2>1, <2>3, <3>1, BlankHeap DEF Variable
  <2>4. TypeOK'
    BY <2>1, <2>2 DEF IInv, TypeOK, Packets, Step
  <2>5. pc'[w] = "end"
    BY <2>1 DEF IInv, TypeOK, Step
  <2>6. Present(w)'
    BY <1>1, <2>2, <2>5 DEF IInv, Handling, Variable, Present, Absent
  <2>7. ASSUME w \notin stale' PROVE Answering(w)'
    BY <1>1, <1>3, <2>1, <2>5, <2>7 DEF Answering, One
  <2>8. Handling'
    BY <2>1, <2>2, <2>6, <2>7, Others
  <2> QED
    BY <2>1, <2>3, <2>4, <2>8 DEF IInv, Intact
<1> QED
  BY <1>2, <1>3

\* The result goes when its packet has been sent.
LEMMA DeleteResultStep ==
  ASSUME IInv, NEW w \in Worker, DeleteResult(w)
  PROVE  IInv'
<1>1. pc[w] = "delete"
  BY DEF IInv, TypeOK, Handling, Present, Absent, Answering, DeleteResult, Step
<1>2. /\ heap' \in [Buf -> Bytes \cup {None}]
      /\ packet' \in Packets
      /\ stale = {} => Heap'
      /\ packet'[w]["result"] = None
      /\ \A u \in Variable \ {"result"} : packet'[w][u] = packet[w][u]
      /\ \A x \in Worker \ {w} : packet'[x] = packet[x]
  BY <1>1, DestroyHeap DEF Variable, DeleteResult
<1>3. TypeOK'
  BY <1>2 DEF IInv, TypeOK, Packets, DeleteResult, Step
<1>4. pc'[w] = "end" /\ UNCHANGED historyVars
  BY <1>1, <1>2 DEF IInv, TypeOK, DeleteResult, Step
<1>5. Present(w)'
  BY <1>1, <1>2, <1>4 DEF IInv, Handling, Variable, Present, Absent
<1>6. w \notin stale' => Answering(w)'
  BY <1>1, <1>2, <1>4 DEF IInv, Handling, Variable, Answering, One
<1> QED
  BY <1>2, <1>3, <1>4, <1>5, <1>6, Others
     DEF IInv, TypeOK, Intact, DeleteResult

\* So does the copy, and leaves nothing on the stack.
LEMMA DestroyResultPacketStep ==
  ASSUME IInv, NEW w \in Worker, DestroyResultPacket(w)
  PROVE  IInv'
<1>1. pc[w] = "end"
  BY DEF IInv, TypeOK, Handling, Present, Absent, Answering,
         DestroyResultPacket, Step
<1>2. /\ heap' \in [Buf -> Bytes \cup {None}]
      /\ packet' \in Packets
      /\ stale = {} => Heap'
      /\ packet'[w]["resultPacket"] = None
      /\ \A u \in Variable \ {"resultPacket"} : packet'[w][u] = packet[w][u]
      /\ \A x \in Worker \ {w} : packet'[x] = packet[x]
  BY <1>1, DestroyHeap DEF Variable, DestroyResultPacket
<1>3. TypeOK'
  BY <1>2 DEF IInv, TypeOK, Packets, DestroyResultPacket, Step
<1>4. pc'[w] = "finish" /\ UNCHANGED historyVars
  BY <1>1, <1>2 DEF IInv, TypeOK, DestroyResultPacket, Step
<1>5. Present(w)'
  BY <1>1, <1>2, <1>4 DEF IInv, Handling, Variable, Present, Absent
<1>6. w \notin stale' => Answering(w)'
  BY <1>1, <1>2, <1>4 DEF IInv, Handling, Variable, Answering, One
<1> QED
  BY <1>2, <1>3, <1>4, <1>5, <1>6, Others
     DEF IInv, TypeOK, Intact, DestroyResultPacket

\* The request goes last.
LEMMA DeletePacketStep ==
  ASSUME IInv, NEW w \in Worker, DeletePacket(w)
  PROVE  IInv'
<1>1. pc[w] = "finish"
  BY DEF IInv, TypeOK, Handling, Present, Absent, Answering, DeletePacket, Step
<1>2. /\ heap' \in [Buf -> Bytes \cup {None}]
      /\ packet' \in Packets
      /\ stale = {} => Heap'
      /\ packet'[w]["request"] = None
      /\ \A u \in Variable \ {"request"} : packet'[w][u] = packet[w][u]
      /\ \A x \in Worker \ {w} : packet'[x] = packet[x]
  BY <1>1, DestroyHeap DEF Variable, DeletePacket
<1>3. TypeOK'
  BY <1>2 DEF IInv, TypeOK, Packets, DeletePacket, Step
<1>4. pc'[w] = "idle" /\ UNCHANGED historyVars
  BY <1>1, <1>2 DEF IInv, TypeOK, DeletePacket, Step
<1>5. Present(w)'
  BY <1>1, <1>2, <1>4 DEF IInv, Handling, Variable, Present, Absent
<1>6. w \notin stale' => Answering(w)'
  BY <1>1, <1>2, <1>4 DEF IInv, Handling, Variable, Answering, One
<1> QED
  BY <1>2, <1>3, <1>4, <1>5, <1>6, Others
     DEF IInv, TypeOK, Intact, DeletePacket

\* A send that completes late may have sent something else, but after WSASend.
LEMMA SendCompletesStep ==
  ASSUME IInv, NEW p \in pending, SendCompletes(p)
  PROVE  IInv'
<1>1. TypeOK'
  BY DEF IInv, TypeOK, SendCompletes, Take
<1>2. ASSUME stale = {} PROVE Intact'
  BY <1>2, SameHeap DEF IInv, Intact, SendCompletes, Take
<1>3. Handling'
  BY DEF IInv, Handling, Present, Absent, Answering, SendCompletes
<1> QED
  BY <1>1, <1>2, <1>3 DEF IInv, SendCompletes

-----------------------------------------------------------------------------
(* The invariant and the theorems. *)

\* No handler has a packet and no block is in use in the beginning.
LEMMA InitInv ==
  ASSUME Init
  PROVE  IInv
<1>1. TypeOK
  BY DEF Init, TypeOK
<1>2. Heap
  BY NoneAssumption DEF Init, Heap, Holding, Distinct, Used, IsValid
<1>3. Handling
  BY DEF Init, Handling, Present, Absent, Answering, Variable
<1> QED
  BY <1>1, <1>2, <1>3 DEF Init, IInv, Intact

\* Every step of a handler, of Process, of the network or of nobody keeps it.
LEMMA NextInv ==
  ASSUME IInv, [Next]_vars
  PROVE  IInv'
<1>1. CASE UNCHANGED vars
  <2>1. TypeOK' /\ Handling'
    BY <1>1 DEF IInv, TypeOK, Handling, Present, Absent, Answering, vars
  <2>2. ASSUME stale = {} PROVE Intact'
    BY <1>1, <2>2, SameHeap DEF IInv, Intact, vars
  <2> QED
    BY <1>1, <2>1, <2>2 DEF IInv, vars
<1>2. ASSUME NEW w \in Worker, Handler(w) PROVE IInv'
  BY <1>2, ReceiveStep, LoginResponseStep, EnterBroadcastStep,
     RoundTripResponseStep, FailsStep, RelayStep, AnnounceExitStep,
     NothingToSendStep, SendBroadcastStep, BroadcastDoneStep
     DEF Handler
<1>3. ASSUME NEW w \in Worker, Process(w) PROVE IInv'
  BY <1>3, CreateErrorStep, SetPacketStep, DestroyBroadcastStep,
     DestroyResponseStep, GetPacketStep, AnswerStep, DeleteResultStep,
     DestroyResultPacketStep, DeletePacketStep
     DEF Process
<1>4. ASSUME NEW p \in pending, SendCompletes(p) PROVE IInv'
  BY <1>4, SendCompletesStep
<1> QED
  BY <1>1, <1>2, <1>3, <1>4 DEF Next

\* The invariant holds throughout.
LEMMA Invariance ==
  Spec => []IInv
<1>1. IInv /\ [Next]_vars => IInv'
  BY NextInv
<1> QED
  BY InitInv, <1>1, PTL DEF Spec

\* Every packet, block and answer owed is one the code can have.
THEOREM TypeCorrect ==
  Spec => []TypeOK
<1>1. IInv => TypeOK
  BY DEF IInv
<1> QED
  BY <1>1, Invariance, PTL

\* A valid packet is the only owner of its block.
LEMMA OneOwner ==
  ASSUME IInv
  PROVE  Owned
<1> SUFFICES ASSUME stale = {}, NEW b \in Buf
             PROVE  /\ heap[b] # None =>
                         heap[b].long \/ Cardinality(Owners(b)) = 1
                    /\ \A o \in Owners(b) : heap[b] = packet[o[1]][o[2]].bytes
  BY DEF Owned
<1>1. ASSUME NEW o \in Owners(b)
      PROVE  heap[b] = packet[o[1]][o[2]].bytes
  <2>1. PICK w \in Worker, v \in Variable : o = <<w, v>>
    BY DEF Owners
  <2>2. IsValid(packet[w][v]) /\ packet[w][v].buffer = b
    BY <2>1 DEF Owners
  <2>3. packet[w][v] \in Packet
    BY <2>2, PacketIsValid DEF IInv, TypeOK
  <2> QED
    BY <2>1, <2>2, <2>3 DEF IInv, Intact, Heap, Holding
<1>2. ASSUME heap[b] # None, ~heap[b].long
      PROVE  Cardinality(Owners(b)) = 1
  <2>1. PICK w \in Worker, v \in Variable :
          IsValid(packet[w][v]) /\ packet[w][v].buffer = b
    BY <1>2 DEF IInv, Intact, Heap, Used
  <2>2. <<w, v>> \in Owners(b)
    BY <2>1 DEF Owners
  <2>3. ASSUME NEW o \in Owners(b) PROVE o = <<w, v>>
    <3>1. PICK x \in Worker, u \in Variable : o = <<x, u>>
      BY DEF Owners
    <3>2. IsValid(packet[x][u]) /\ packet[x][u].buffer = b
      BY <3>1 DEF Owners
    <3> QED
      BY <2>1, <3>1, <3>2 DEF IInv, Intact, Heap, Distinct
  <2>4. Owners(b) = {<<w, v>>}
    BY <2>2, <2>3
  <2> QED
    BY <2>4, FS_Singleton
<1> QED
  BY <1>1, <1>2

\* Until a copy constructor has found a valid packet on its stack, blocks are
\* freed exactly once: every packet alive has a block of its own
\* with its bytes, and a block in use has one owner or is too long to be freed.
THEOREM FreesOnce ==
  Spec => []Owned
<1>1. IInv => Owned
  BY OneOwner
<1> QED
  BY <1>1, Invariance, PTL

\* As long as that has not happened, what WSASend takes while the packet is
\* alive is what was built.
THEOREM SendsAsBuilt ==
  Spec => []SentAsBuilt
<1>1. IInv => SentAsBuilt
  BY DEF IInv, Intact, SentAsBuilt
<1> QED
  BY <1>1, Invariance, PTL

\* A request with an answer is answered once, also when it fails: not when
\* WSASend has refused it, when it is longer than MAX_BUFF_SIZE, or when the
\* worker has found a valid packet on its stack, and never twice.
THEOREM AnswersOnce ==
  Spec => []AnsweredOnce
<1>1. IInv => AnsweredOnce
  BY DEF IInv, TypeOK, Handling, Answering, AnsweredOnce
<1> QED
  BY <1>1, Invariance, PTL
=============================================================================
