SPECIFICATION Spec
CONSTANTS
  t1 = t1
  t2 = t2
  Thread = {t1}
  Name <- MCName
  Existing <- AllTables
  Listers = {"paged"}
  Calls <- PinnedCalls
  None = None
  InitialKeys = {1}
  Rotations <- Forward
  ConnectionCacheSize = 2
  HandleCacheSize = 1
  MaxCalls = 2
INVARIANTS
  PinnedHandleIsFresh
