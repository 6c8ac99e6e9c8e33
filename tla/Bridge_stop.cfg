SPECIFICATION FairSpec
CONSTANTS
  Servers = {v1}
  Sessions = {s1, s2}
  Tokens = {t1}
  Calls = {c1}
  None = None
  MaxWork = 1
  MayStop = TRUE
CHECK_DEADLOCK FALSE
PROPERTIES
  OverStreamLeaves
  StopsAtLast
