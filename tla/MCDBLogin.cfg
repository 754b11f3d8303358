SPECIFICATION Spec
CONSTANTS
  Worker = {w1, w2}
  User = {u1}
  Password = {p1, p2}
  Empty = p2
  Dbc = {d1, d2, d3}
  None = None
SYMMETRY Symmetry
INVARIANTS
  TypeOK
  RegisteredWhole
  AcceptedIsStored
  ConnectedIsAlive
PROPERTIES
  Disconnected
