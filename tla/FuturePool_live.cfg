SPECIFICATION FairSpec
CONSTANTS
  Hosts = {h1, h2}
  Workers = {w1}
  Insts = {c1}
  Futures = {f1, f2}
  None = None
  MaxBreaks = 1
CHECK_DEADLOCK FALSE
PROPERTIES
  WaitReturnsAtLast
  BreakReturnsAtLast
  ShutdownReturnsAtLast
