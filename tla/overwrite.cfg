SPECIFICATION FairSpec
CONSTANTS
  t1 = t1
  t2 = t2
  a1 = a1
  a2 = a2
  b1 = b1
  b2 = b2
  old = old
  other = other
  Outside = Outside
  Task = {t1, t2}
  Row <- MCRow
  KeyOf <- RowIsKey
  Requests <- ThreeRequests
  Mode = "overwrite"
  UpdateAll = TRUE
  InsertAll = TRUE
  DeleteWhere = {}
  OnBatchError = "raise"
  Policy = "default"
  MaxAttempts = 2
  HasSchema = TRUE
  Concurrency = 2
  Errors <- FewErrors
  Ambiguous <- TimeOuts
  LateRequests = TRUE
  MaxReplays = 1
  OldRow = {old}
  OtherRow = {other}
INVARIANTS
  SuccessLosesNothing
PROPERTIES
  BystandersSurvive
  Terminates
