SPECIFICATION Spec
CONSTANTS
  Conns = {c1}
  MaxChunks <- Request
  MaxCID = 1
  Faults = {"stop"}
  None = None
INVARIANTS BrowserUnbound
CHECK_DEADLOCK FALSE
