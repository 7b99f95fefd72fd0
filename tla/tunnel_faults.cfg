SPECIFICATION Spec
CONSTANTS
  Conns = {c1}
  MaxChunks <- TwoEach
  MaxCID = 2
  Faults = {"refuse", "break", "silence", "stop", "accept"}
  None = None
CONSTRAINT Short
INVARIANTS ForwardUnbound
PROPERTIES Promise
CHECK_DEADLOCK FALSE
