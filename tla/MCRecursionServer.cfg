SPECIFICATION Spec
CONSTANTS
  Cols = 2
  NumStripes = 2
  Values = {0, 1}
  Zero = 0
  Garbage = Garbage
  Placeholder = Placeholder
  Nothing = Nothing
  Workers = {w1}
  Clients = {c1}
  ShardValues <- MCShardValues
  Loads <- MCLoads
  Batches <- MCBatches
  MaxWrites = 2
INVARIANTS
  TypeOK
  LivePairAgrees
  StagedPairAgrees
  ContextsFollowSetup
PROPERTIES
  GarbageOnlyFromDirtyStripes
CHECK_DEADLOCK FALSE
