SPECIFICATION FairSpec
CONSTANTS
  t1 = t1
  t2 = t2
  Thread = {t1, t2}
  Name <- MCName
  Existing <- AllTables
  Listers = {"paged", "eager", "plain", "tokenless", "absent"}
  Calls <- ManyCalls
  None = None
  InitialKeys <- MCInitialKeys
  Rotations <- Forward
  ConnectionCacheSize = 2
  HandleCacheSize = 2
  MaxCalls = 3
INVARIANTS
  TypeOK
  CredentialIsRight
  CachesAreSound
  NormalJobsKeepConnections
  ListingIsExact
PROPERTIES
  CallsReturn
