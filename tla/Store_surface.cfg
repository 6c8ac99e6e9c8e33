SPECIFICATION Spec
CONSTANTS
  Cols <- LedgerCols
  Width = 3
  Conns = {c1, c2}
  Readers = {c1}
  NSchemas = 2
  Keys <- LedgerKeys
  Rows <- LedgerRows
  Preds <- LedgerPreds
  Values <- LedgerValues
  Columns = {0, 2, 3}
  Limits <- LedgerLimits
  None = None
INVARIANTS
  TypeOK
  AnswersAreExact
  AggregatesAreSnapshots
  SignedMeansReconciled
