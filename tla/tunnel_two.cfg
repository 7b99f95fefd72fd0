SPECIFICATION FairSpec
CONSTANTS
  Conns = {c1, c2}
  MaxChunks <- Request
  MaxCID = 2
  Faults = {"refuse", "stall"}
  None = None
CONSTRAINT OneSlow
INVARIANTS TypeOK InOrder LiveIsBound
PROPERTIES CloseCrosses DataFlows
CHECK_DEADLOCK FALSE
