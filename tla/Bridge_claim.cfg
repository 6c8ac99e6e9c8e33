SPECIFICATION Spec
CONSTANTS
  Servers = {v1, v2}
  Sessions = {s1, s2, s3}
  Tokens = {t1}
  Calls = {c1}
  None = None
  MaxWork = 1
  MayStop = FALSE
SYMMETRY Symmetry
CHECK_DEADLOCK FALSE
INVARIANTS
  TypeOK
  NeverBoth
  ParkKeepsTheWork
  BrokenTokenIsDead
