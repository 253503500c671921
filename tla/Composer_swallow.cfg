SPECIFICATION Spec
CONSTANTS
  Word = {w1, w2}
  Blank = Blank
  HistoryLimit = 2
  MaxQueue = 2
SYMMETRY Symmetry
INVARIANTS
  RefusedWhenGone
CHECK_DEADLOCK FALSE
