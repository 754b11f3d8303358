SPECIFICATION Spec
CONSTANTS
  Conn = {c1, c2}
  User = {u1, u2}
  None = None
  MAX_RTT_COUNT = 2
  MAX_RTT_MS_C2S = 2
  Half = 4
  Rtts <- Samples
  MaxSamples = 3
SYMMETRY Symmetry
INVARIANTS
  TypeOK
  NoCrash
  WindowMean
