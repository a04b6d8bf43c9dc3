SPECIFICATION TermSpec
CONSTANTS
  TERM_MAX_LINE = 3
  TERM_MAX_HISTORY = 3
  Chars = {a, b}
  NUL = NUL
  Sizes <- MCSizes
  Outputs <- MCOutputs
  MaxEntered = 3
INVARIANTS LineIsCommand
PROPERTIES RecallsNewest
SYMMETRY MCSymmetry
