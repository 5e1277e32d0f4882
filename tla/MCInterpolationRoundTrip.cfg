SPECIFICATION Spec
CONSTANTS
  N = 8
  K = 54
  Base2k = 18
  WordBits = 4
  Words = 2
  TorusBits = 12
  Calls <- MCCalls
  Nonsense = Nonsense
INVARIANTS
  PanelsInterpolate
  AnswersDecode
CHECK_DEADLOCK FALSE
