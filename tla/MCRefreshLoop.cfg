SPECIFICATION LoopSpec
CONSTANTS
  Cols = 1
  NumStripes = 2
  MaxVersion = 1
  MaxPanics = 1
  Recovery = {"retry", "allocate", "discard"}
  ShardLen = 1
  Values <- MCValues
  Zero = 0
  Garbage = Garbage
  Placeholder = Placeholder
  Nothing = Nothing
  Workers = {w1, w2}
  Clients = {c1}
  ShardValues <- MCShardValues
  Loads <- MCLoads
  Batches <- MCBatches
  MaxWrites = 0
INVARIANTS
  LoopTypeOK
  ServedPairExact
PROPERTIES
  ImplementsStore
