SPECIFICATION FairSpec
CONSTANTS
  Keys = {k1, k2, k3}
  Base = {k1}
  Capacities = {2, 3}
  Threshold = 0
  MaxVersion = 1
  MaxInFlight = 2
  Clients = {c1}
  Nothing = Nothing
INVARIANTS
  TypeOK
  OneKeyPerIndex
  ClientsFindRecords
PROPERTIES
  ImplementsLog
  CatchesUp
