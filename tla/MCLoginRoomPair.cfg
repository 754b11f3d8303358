SPECIFICATION Spec
CONSTANTS
  c1 = c1
  c2 = c2
  c3 = c3
  u1 = u1
  u2 = u2
  u3 = u3
  Conn = {c1, c2, c3}
  User = {u1, u3}
  Obj = {o1, o2}
  None = None
  NumWorkers = 2
  Account <- TwoAndOne
SYMMETRY PairSymmetry
CONSTRAINT NotBoth
INVARIANTS
  TypeOK
  NoCrash
  NoGhost
  SessionsArePlayers
  Announced
PROPERTIES
  ImplementsPresence
