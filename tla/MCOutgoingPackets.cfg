SPECIFICATION Spec
CONSTANTS
  Worker = {w1, w2}
  Buf = {b1, b2, b3, b4}
  None = None
  MaxPending = 1
SYMMETRY Symmetry
CONSTRAINT BeforeStale
INVARIANTS
  TypeOK
  Owned
  SentAsBuilt
  AnsweredOnce
CHECK_DEADLOCK FALSE
