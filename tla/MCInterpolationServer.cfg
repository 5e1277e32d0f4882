SPECIFICATION InspireSpec
CONSTANTS
  Cols = 2
  NumStripes = 1
  Values = {0, 1}
  Zero = 0
  Garbage = Garbage
  Placeholder = Placeholder
  Nothing = Nothing
  Clients = {c1}
  ShardValues <- Shards
  Loads <- WholeLoads
  Batches <- SomeBatches
INVARIANTS
  InspireTypeOK
  ServesOneSnapshot
PROPERTIES
  AnswersPublished
  RefusesBeforeFirstOffline
