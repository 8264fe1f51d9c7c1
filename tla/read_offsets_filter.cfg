SPECIFICATION Spec
CONSTANTS
  a = a
  b = b
  c = c
  Row <- MCRow
  Matching <- MCMatching
  Contents <- GrowOrShrink
  Calls <- FilteredOffsets
  EarlierKeys <- FirstVersion
  None = None
  Tag = Tag
  MaxVersions = 3
  Worker = {w1}
  MaxAttempts = 2
  Errors <- ReadErrors
  MaxReplays = 0
INVARIANTS
  OnlyMatchingRows
