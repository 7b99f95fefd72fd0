SPECIFICATION FairSpec
CONSTANTS
  Conns = {c1}
  MaxChunks <- OneEach
  MaxCID = 1
  Faults = {"refuse", "break", "stall"}
  None = None
CONSTRAINT OneWay
PROPERTIES CloseCrosses SessionEndReleases
CHECK_DEADLOCK FALSE
