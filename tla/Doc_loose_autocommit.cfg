SPECIFICATION Spec
CONSTANTS
  REQ_STACK_MAX = 128
  Descs <- LedgerOnly
  StoreMayRefuse = FALSE
  MaxRuns = 3
  MaxUnwaited = 0
  MaxLives = 2
CHECK_DEADLOCK FALSE
INVARIANT
  LooseRowsAreDurable
