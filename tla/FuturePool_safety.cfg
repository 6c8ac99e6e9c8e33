SPECIFICATION Spec
CONSTANTS
  Hosts = {h1, h2}
  Workers = {w1, w2}
  Insts = {c1}
  Futures = {f1, f2}
  None = None
  MaxBreaks = 2
SYMMETRY Symmetry
INVARIANTS
  TypeOK
  HeapSafety
  FutureSafety
  RefcountExact
  DeliveredOnce
  ShutdownDrains
PROPERTIES
  OutcomeStands
  ImplementsReceipts
