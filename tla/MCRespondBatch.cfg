SPECIFICATION BatchSpec
CONSTANTS
  Cores = 4
  Warmed = 1
  ChunkCap = 5
  MaxBatch = 7
  MaxPanics = 2
INVARIANTS
  TypeOK
  AnswersInOrder
  SlabsFit
PROPERTIES
  ArenasLostOnlyToPanics
  CallsEnd
