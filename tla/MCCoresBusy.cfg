SPECIFICATION BatchSpec
CONSTANTS
  Cores = 4
  Warmed = 4
  ChunkCap = 4
  MaxBatch = 4
  MaxPanics = 0
INVARIANTS
  EveryCoreBusy
