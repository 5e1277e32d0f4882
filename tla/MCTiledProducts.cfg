CONSTANTS
  Lanes = 2
  RowBlock = 2
  RowTile = 3
  Jobs <- MCJobs
SPECIFICATION Spec
INVARIANTS
  EachProductOnce
  SplitKeepsBits
CHECK_DEADLOCK FALSE
