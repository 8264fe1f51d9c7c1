SPECIFICATION TaskSpec
CONSTANTS
  MaxBatch = 3
  Widths = {1, 3}
  RowCeilings = {0, 1, 2, 3, 5}
  ByteCeilings = {0, 1, 2, 4, 6, 9}
  BlockRow <- MCRow
  Inputs <- MCInputs
  Limits <- MCLimits
INVARIANTS
  RequestsKeepRows
  RequestsAreNotEmpty
  RequestsRespectCeilings
  SmallTaskIsOneRequest
CHECK_DEADLOCK FALSE
