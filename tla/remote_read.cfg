SPECIFICATION FairSpec
CONSTANTS
  a = a
  b = b
  c = c
  Row <- MCRow
  Matching <- MCMatching
  Contents <- GrowOrShrink
  Calls <- SoundCalls
  EarlierKeys <- FirstVersion
  None = None
  Tag = Tag
  MaxVersions = 3
  Worker = {w1}
  MaxAttempts = 2
  Errors <- ReadErrors
  MaxReplays = 1
INVARIANTS
  TypeOK
  ReadServesSnapshot
  OneSnapshot
  CountsAgree
PROPERTIES
  ImplementsSnapshotRead
  ReadEnds
