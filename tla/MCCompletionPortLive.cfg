SPECIFICATION FairSpec
CONSTANTS
  Conn = {c1, c2}
  Socket = {s1, s2}
  Worker = {w1, w2}
  Io = {i1, i2}
  None = None
  MAX_OVERLAPPED_ENTRY = 1
PROPERTY Disconnected
CHECK_DEADLOCK FALSE
