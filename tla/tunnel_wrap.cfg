SPECIFICATION Spec
CONSTANTS
  Conns = {c1, c2, c3}
  MaxChunks <- Reply
  MaxCID = 2
  Faults = {}
  None = None
SYMMETRY Symmetry
INVARIANTS RightBrowser
CHECK_DEADLOCK FALSE
