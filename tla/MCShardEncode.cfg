SPECIFICATION Spec
CONSTANTS
  Layouts <- MCLayouts
  Budgets = {2, 3}
  Lens = {2, 6}
  MaxShards = 2
INVARIANTS
  TypeOK
  ScatterIsSequential
  PayloadsWhole
  PaddingStaysZero
  StripesShareRows
CHECK_DEADLOCK FALSE
