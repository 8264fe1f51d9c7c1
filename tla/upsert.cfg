SPECIFICATION Spec
CONSTANTS
  a1 = a1
  a2 = a2
  b1 = b1
  b2 = b2
  c1 = c1
  d1 = d1
  e1 = e1
  e2 = e2
  ka = ka
  kb = kb
  kc = kc
  kd = kd
  ke = ke
  Outside = Outside
  Row <- MCRow
  KeyOf <- MCKeyOf
  HashOf <- MCHashOf
  HashShuffle = TRUE
  TransformFn <- KeepKeys
  Width <- MCWidth
  Mode = "upsert"
  UpdateAll = TRUE
  InsertAll = TRUE
  DeleteWhere = {c1}
  OnBatchError = "skip"
  Policy = "default"
  MaxAttempts = 2
  HasSchema = TRUE
  Errors <- UpsertErrors
  Ambiguous <- TimeOuts
  LateRequests = TRUE
  MaxReplays = 0
  OldRow = {b2, c1, d1}
  OtherRow = {}
  Blocks <- RepeatedKey
  PlanExecuted = TRUE
  IsRemote = TRUE
  ConcurrencyArgument = 2
  PartitionOnKeys = TRUE
  RowsPerTransaction = 2
  MaxRows = 2
  MaxBytes = 0
INVARIANTS
  RepeatsAreResends
  SuccessMergesEverything
PROPERTIES
  BystandersSurvive
