SPECIFICATION FairSpec
CONSTANTS
  Assets <- FourAssets
  Seed = 1
  FileName <- CollidingNames
  Pathless <- Fourth
  RowLists <- AllRowLists
  Catalogues <- AllOrNot2
  Archives <- FullAndHalf
  MaxNeighbors = 2
  MinConfidence = 1
  MaxChanges = 1
  MaxRetries = 1
CHECK_DEADLOCK FALSE
INVARIANTS
  BundleIsTop
  EveryTargetOnce
  QuietBundleIsExact
  FilesHaveOwnNames
PROPERTY BundleEnds
