SPECIFICATION Spec
CONSTANTS
  Cols <- LedgerCols
  Width = 3
  Conns = {c1, c2}
  Readers = {c1}
  NSchemas = 1
  Keys <- LedgerKeys
  Values <- LedgerValues
  Rows <- LedgerRows
  Preds <- LedgerPreds
  Columns = {0}
  Limits <- LedgerLimits
  None = None
INVARIANT
  RowsAreWhole
