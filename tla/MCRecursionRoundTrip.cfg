SPECIFICATION Spec
CONSTANTS
  N = 8
  K = 54
  Base2k = 18
  WordBits = 4
  Words = 2
  Calls <- MCCalls
  Nonsense = Nonsense
INVARIANTS
  DigitsRebuild
  RecordsRecovered
  OnlyWholeMessages
  SizesAdvertised
