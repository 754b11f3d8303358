SPECIFICATION FairSpec
CONSTANTS
  Player = {p1, p2, p3}
  Attacker = {p1, p2}
  HP = 2
  Damage = {1}
  None = None
INVARIANTS
  TypeOK
  DamageCounted
  DeadIsEmpty
  DeathShown
PROPERTIES
  OnlyWorse
  Dies
CHECK_DEADLOCK FALSE
