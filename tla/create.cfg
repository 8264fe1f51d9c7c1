SPECIFICATION FairSpec
CONSTANTS
  t1 = t1
  t2 = t2
  a1 = a1
  a2 = a2
  b1 = b1
  b2 = b2
  old = old
  other = other
  Outside = Outside
  Task = {t1, t2}
  Row <- MCRow
  KeyOf <- RowIsKey
  Requests <- ThreeRequests
  Mode = "create"
  UpdateAll = TRUE
  InsertAll = TRUE
  DeleteWhere = {}
  OnBatchError = "skip"
  Policy = "default"
  MaxAttempts = 2
  HasSchema = TRUE
  Concurrency = 2
  Errors <- AllErrors
  Ambiguous <- TimeOuts
  LateRequests = TRUE
  MaxReplays = 0
  OldRow = {old}
  OtherRow = {other}
INVARIANTS
  TypeOK
  CreateIsExclusive
  AtMostOnce
  CountedRowsAreStored
  SuccessLosesNothing
  SendsAreBounded
PROPERTIES
  ImplementsWriteJob
  Terminates
