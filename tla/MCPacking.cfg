CONSTANTS
  N = 16
  Q = 97
  Cases <- MCCases
  Vector <- MCVector
SPECIFICATION Spec
INVARIANTS
  AggregateIsReference
  CollapseKeepsPhase
  PackedDecrypts
CHECK_DEADLOCK FALSE
