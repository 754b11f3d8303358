-------------------------- MODULE MCPacketFraming --------------------------
(* Instances of PacketFraming for TLC. *)
EXTENDS PacketFraming

\* Packets of different sizes, the longest as long as a receive.
LegalPackets ==
  {<<"h1", "h2", "e1", "e2">>,
   <<"h1", "h2", "b", "b", "b", "b", "e1", "e2">>}

\* A packet of an unknown protocol, one with END_OF_PACKET in its body, and one
\* without an end, two of which fill the buffer.
MalformedPackets ==
  {<<"b", "h2", "e1", "e2">>, <<"h1", "h2", "e1", "e2", "b", "e1", "e2">>,
   <<"h1", "h2", "b", "b">>}

AnyPackets == LegalPackets \cup MalformedPackets
=============================================================================
