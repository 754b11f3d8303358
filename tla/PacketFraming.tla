--------------------------- MODULE PacketFraming ---------------------------
(***************************************************************************)
(* How the bytes of one client become packets: PacketGenerator::Parse with *)
(* the buffer it keeps in the Session between receives.  TCP delivers the  *)
(* client's bytes in order and cuts them anywhere; each receive takes at   *)
(* most MAX_BUFF_SIZE of them.  A packet is a two byte header, a body and  *)
(* the two bytes of END_OF_PACKET.                                         *)
(*                                                                         *)
(* One worker at a time parses for a session (OneReceive and SessionStays  *)
(* of CompletionPort), so an iteration of the loop is one step.            *)
(*                                                                         *)
(* When bytes are left over from the session's buffer they are copied to a *)
(* temporary; if a further packet ends in that copy, the loop deletes the  *)
(* copy and goes on reading from it.  What is read then is what was there, *)
(* or anything: FreedMemoryIntact says which of the two the heap allows.   *)
(***************************************************************************)
EXTENDS Naturals, Sequences, SequencesExt

CONSTANTS
  Packets,           \* the byte sequences a client may send as packets
  MaxSent,           \* bound: packets sent in a behaviour
  MAX_BUFF_SIZE,     \* size of PER_IO_DATA.buffer
  FreedMemoryIntact  \* whether deleted memory still holds its bytes

\* The bytes told apart: a valid header, END_OF_PACKET, and any other.
Byte == {"h1", "h2", "e1", "e2", "b"}

ASSUME PacketsAssumption == Packets \subseteq Seq(Byte)
ASSUME BuffAssumption == MAX_BUFF_SIZE \in Nat \ {0}
ASSUME SentAssumption == MaxSent \in Nat
ASSUME IntactAssumption == FreedMemoryIntact \in BOOLEAN

VARIABLES
  sent,       \* the packets the client has sent
  wire,       \* its bytes not yet received
  pc,         \* "idle", "loop" or "process"
  buffer,     \* Session::buffer, empty when it is null
  remain,     \* the recvBytesRemain bytes at bufferRemain
  temporary,  \* isDAllocBufferRemain
  packetList, \* packets finished by this call
  processed   \* packets handed to PacketService::Process

vars == <<sent, wire, pc, buffer, remain, temporary, packetList, processed>>

TypeOK ==
  /\ sent \in Seq(Packets)
  /\ wire \in Seq(Byte)
  /\ pc \in {"idle", "loop", "process"}
  /\ buffer \in Seq(Byte)
  /\ remain \in Seq(Byte)
  /\ temporary \in BOOLEAN
  /\ packetList \in Seq(Seq(Byte))
  /\ processed \in Seq(Seq(Byte))

Init ==
  /\ sent = <<>>
  /\ wire = <<>>
  /\ pc = "idle"
  /\ buffer = <<>>
  /\ remain = <<>>
  /\ temporary = FALSE
  /\ packetList = <<>>
  /\ processed = <<>>

-----------------------------------------------------------------------------

PACKET_HEAD_SIZE == 2

\* GetHeaderByBuff and IsValidHeader.
IsValidHeader(bytes) == bytes[1] = "h1" /\ bytes[2] = "h2"

\* Mutant: the loop over the buffer stops one byte early.
Ends_OneShort(bytes) ==
  {n \in 2..(Len(bytes) - 1) : bytes[n - 1] = "e1" /\ bytes[n] = "e2"}

\* The places where END_OF_PACKET ends.
Ends(bytes) == {n \in 2..Len(bytes) : bytes[n - 1] = "e1" /\ bytes[n] = "e2"}

\* GetEndOfPacket: the size of the packet the bytes begin with.
PacketSize(bytes) == CHOOSE n \in Ends(bytes) : \A m \in Ends(bytes) : n <= m

First(bytes) == SubSeq(bytes, 1, PacketSize(bytes))
Rest(bytes)  == SubSeq(bytes, PacketSize(bytes) + 1, Len(bytes))

Garbage(n) == [i \in 1..n |-> "b"]

\* What is read from a buffer that held these bytes and has been deleted.
ReadFreed(bytes) ==
  IF FreedMemoryIntact THEN {bytes} ELSE {bytes, Garbage(Len(bytes))}

\* The client sends a packet.
Send(p) ==
  /\ Len(sent) < MaxSent
  /\ sent' = Append(sent, p)
  /\ wire' = wire \o p
  /\ UNCHANGED <<pc, buffer, remain, temporary, packetList, processed>>

\* A receive completes with n bytes and Parse is called.
Receive(n) ==
  /\ pc = "idle"
  /\ n \in 1..Len(wire)
  /\ n <= MAX_BUFF_SIZE
  /\ remain' = SubSeq(wire, 1, n)
  /\ wire' = SubSeq(wire, n + 1, Len(wire))
  /\ pc' = "loop"
  /\ UNCHANGED <<sent, buffer, temporary, packetList, processed>>

\* break, or the end of the loop: the temporary is deleted.
Leave ==
  /\ pc' = "process"
  /\ remain' = <<>>
  /\ temporary' = FALSE
  /\ UNCHANGED <<sent, wire, packetList, processed>>

\* AddToBuff to what the session has kept.
Appended == buffer \o remain

\* The session has kept bytes, and this receive does not complete them: a wrong
\* header discards them, and so does a size of exactly MAX_BUFF_SIZE.
KeepAppended ==
  /\ pc = "loop" /\ remain # <<>> /\ buffer # <<>>
  /\ ~IsValidHeader(Appended) \/ Ends(Appended) = {}
  /\ buffer' = IF IsValidHeader(Appended) /\ Len(Appended) # MAX_BUFF_SIZE
               THEN Appended ELSE <<>>
  /\ Leave

\* Mutant: the session's buffer is not cleared when its packet is complete.
FinishAppended_KeepsBuffer ==
  /\ pc = "loop" /\ remain # <<>> /\ buffer # <<>>
  /\ IsValidHeader(Appended) /\ Ends(Appended) # {}
  /\ packetList' = Append(packetList, First(Appended))
  /\ remain' = Rest(Appended)
  /\ temporary' = (Rest(Appended) # <<>>)
  /\ UNCHANGED <<sent, wire, pc, buffer, processed>>

\* Mutant: the bytes of the packet are listed, not the packet.
FinishAppended_Bytes ==
  /\ pc = "loop" /\ remain # <<>> /\ buffer # <<>>
  /\ IsValidHeader(Appended) /\ Ends(Appended) # {}
  /\ packetList' = packetList \o First(Appended)
  /\ remain' = Rest(Appended)
  /\ temporary' = (Rest(Appended) # <<>>)
  /\ buffer' = <<>>
  /\ UNCHANGED <<sent, wire, pc, processed>>

\* The receive completes the packet, and what is left over is copied.
FinishAppended ==
  /\ pc = "loop" /\ remain # <<>> /\ buffer # <<>>
  /\ IsValidHeader(Appended) /\ Ends(Appended) # {}
  /\ packetList' = Append(packetList, First(Appended))
  /\ remain' = Rest(Appended)
  /\ temporary' = (Rest(Appended) # <<>>)
  /\ buffer' = <<>>
  /\ UNCHANGED <<sent, wire, pc, processed>>

\* Nothing was kept, and the bytes do not hold a whole packet.
KeepFresh ==
  /\ pc = "loop" /\ remain # <<>> /\ buffer = <<>>
  /\ Len(remain) >= PACKET_HEAD_SIZE =>
       ~IsValidHeader(remain) \/ Ends(remain) = {}
  /\ buffer' = IF \/ Len(remain) < PACKET_HEAD_SIZE
                  \/ IsValidHeader(remain) /\ Len(remain) # MAX_BUFF_SIZE
               THEN remain ELSE <<>>
  /\ Leave

\* Mutant: the loop starts a packet without looking at its header.
FinishFresh_AnyHeader ==
  /\ pc = "loop" /\ Len(remain) >= PACKET_HEAD_SIZE /\ buffer = <<>>
  /\ Ends(remain) # {}
  /\ packetList' = Append(packetList, First(remain))
  /\ remain' \in IF temporary /\ Rest(remain) # <<>>
                 THEN ReadFreed(Rest(remain)) ELSE {Rest(remain)}
  /\ temporary' = (temporary /\ Rest(remain) = <<>>)
  /\ UNCHANGED <<sent, wire, pc, buffer, processed>>

\* They hold one.  If more is left over in a temporary, the temporary is deleted
\* and read from all the same.
FinishFresh ==
  /\ pc = "loop" /\ Len(remain) >= PACKET_HEAD_SIZE /\ buffer = <<>>
  /\ IsValidHeader(remain) /\ Ends(remain) # {}
  /\ packetList' = Append(packetList, First(remain))
  /\ remain' \in IF temporary /\ Rest(remain) # <<>>
                 THEN ReadFreed(Rest(remain)) ELSE {Rest(remain)}
  /\ temporary' = (temporary /\ Rest(remain) = <<>>)
  /\ UNCHANGED <<sent, wire, pc, buffer, processed>>

LoopDone ==
  /\ pc = "loop" /\ remain = <<>>
  /\ Leave
  /\ UNCHANGED buffer

\* PacketProcessor::Parse processes the packets in the order of the list.
Process ==
  /\ pc = "process"
  /\ processed' = processed \o packetList
  /\ packetList' = <<>>
  /\ pc' = "idle"
  /\ UNCHANGED <<sent, wire, buffer, remain, temporary>>

Next ==
  \/ \E p \in Packets : Send(p)
  \/ \E n \in 1..MAX_BUFF_SIZE : Receive(n)
  \/ KeepAppended
  \/ FinishAppended
  \/ KeepFresh
  \/ FinishFresh
  \/ LoopDone
  \/ Process

Spec == Init /\ [][Next]_vars

-----------------------------------------------------------------------------
(* Properties. *)

\* A packet Parse is written for: it fits a receive, and only its end looks like
\* END_OF_PACKET.
Legal(p) == IsValidHeader(p) /\ Ends(p) = {Len(p)} /\ Len(p) <= MAX_BUFF_SIZE

\* A client that sends legal packets is understood however TCP cuts the stream:
\* between two receives exactly the packets that have arrived in full have been
\* processed, once each and in order, and the session holds the beginning of
\* the next and nothing else: "create packets for the bytes received"
\* (PacketGenerator::Parse).
Framed ==
  pc = "idle" /\ (\A i \in DOMAIN sent : Legal(sent[i])) =>
    \E n \in 0..Len(sent) :
      /\ processed = SubSeq(sent, 1, n)
      /\ buffer \o wire = FlattenSeq(SubSeq(sent, n + 1, Len(sent)))
      /\ n < Len(sent) => Len(buffer) < Len(sent[n + 1])

\* Whatever a client sends, a packet that is processed has a valid header and
\* ends at its first END_OF_PACKET.
WellFormed ==
  \A i \in DOMAIN processed :
    LET p == processed[i] IN
      /\ Len(p) > PACKET_HEAD_SIZE
      /\ IsValidHeader(p)
      /\ Ends(p) = {Len(p)}

\* Whatever a client sends, no packet whose end has arrived waits in the session
\* for more bytes, also after a packet without an end has been given up at
\* MAX_BUFF_SIZE or has been kept past it; and what waits begins with a valid
\* header once it is long enough to have one.
KeepsNoWholePacket ==
  pc = "idle" =>
    /\ \A n \in 2..Len(buffer) : ~(buffer[n - 1] = "e1" /\ buffer[n] = "e2")
    /\ Len(buffer) >= PACKET_HEAD_SIZE => IsValidHeader(buffer)
=============================================================================
