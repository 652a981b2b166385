SPECIFICATION FairSpec
CONSTANTS
  c1 = c1
  Clients <- OneClient
  Asks <- AllAsks
  Sizes <- AllSizes
  Chunk = 2
  MaxChanges = 2
  MaxResumes = 2
CHECK_DEADLOCK FALSE
INVARIANTS
  PromiseIsSelected
  BodyInOrder
  ShortOnlyIfChanged
  ResumedIsWhole
PROPERTY DownloadsEnd
