SPECIFICATION Spec
CONSTANTS
  c1 = c1
  c2 = c2
  c3 = c3
  u1 = u1
  u2 = u2
  u3 = u3
  Conn = {c1, c2}
  User = {u1}
  Obj = {o1, o2, o3}
  None = None
  NumWorkers = 2
  Account <- AnyAccount
SYMMETRY FullSymmetry
INVARIANTS
  NoDuplicateLogin
