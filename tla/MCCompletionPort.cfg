SPECIFICATION Spec
CONSTANTS
  Conn = {c1, c2}
  Socket = {s1, s2}
  Worker = {w1, w2}
  Io = {i1, i2, i3}
  None = None
  MAX_OVERLAPPED_ENTRY = 2
SYMMETRY Symmetry
INVARIANTS
  TypeOK
  Placed
  OneReceive
  KeyAlive
  SessionStays
  NoStaleEntry
PROPERTY ImplementsConnections
CHECK_DEADLOCK FALSE
