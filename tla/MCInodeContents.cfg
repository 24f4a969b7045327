SPECIFICATION Spec
CONSTANTS
  BlockLen = 20
  RootLimit = 2
  NodeLimit = 2
  HashSpan = 6
  LostFoundBlocks = 3
  BodyLen = 12
  XattrBlockLen = 25
  MCEntries = 4
  MCCalls = 4
  Inodes <- MCInodes
CHECK_DEADLOCK FALSE
INVARIANTS
  ListingIsExact
  EveryNameIsFound
  VerifierAcceptsDirectory
  VerdictIsSound
  AttributesReadBack
