SPECIFICATION Spec
CONSTANTS
  Packets <- AnyPackets
  MaxSent = 4
  MAX_BUFF_SIZE = 8
  FreedMemoryIntact = TRUE
INVARIANTS
  TypeOK
  Framed
  WellFormed
  KeepsNoWholePacket
CHECK_DEADLOCK FALSE
