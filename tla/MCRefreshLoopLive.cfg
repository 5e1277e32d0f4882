SPECIFICATION FairLoopSpec
CONSTANTS
  Cols = 2
  NumStripes = 1
  MaxVersion = 2
  MaxPanics = 2
  Recovery = {"retry", "allocate", "discard"}
  ShardLen = 1
  Values <- MCValues
  Zero = 0
  Garbage = Garbage
  Placeholder = Placeholder
  Nothing = Nothing
  Workers = {w1}
  Clients = {c1}
  ShardValues <- MCShardValues
  Loads <- MCLoads
  Batches <- MCBatches
  MaxWrites = 0
PROPERTIES
  MonotonicReads
  Converges
