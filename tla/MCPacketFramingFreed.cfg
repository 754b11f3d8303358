SPECIFICATION Spec
CONSTANTS
  Packets <- LegalPackets
  MaxSent = 4
  MAX_BUFF_SIZE = 8
  FreedMemoryIntact = FALSE
INVARIANTS
  Framed
CHECK_DEADLOCK FALSE
