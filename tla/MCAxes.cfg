SPECIFICATION Spec
CONSTANTS
  MaxLong <- SmallMaxLong
  Indexes <- SmallIndexes
CHECK_DEADLOCK FALSE
INVARIANTS
  AxesPartitionDocument
  ComparisonAgrees
  CachedParent
  TextStandsForStored
  LengthTells
  AxesFollowTree
