SPECIFICATION FairSpec
CONSTANTS
  Callers = {a, b}
  MaxStarts = 2
  NoOne = NoOne
INVARIANTS TypeOK NoPanic SignalsMirrorStatus SessionsInReach
PROPERTIES DestroyIsFinal RestartBringsBack DestroyEndsSessions StartedHasSession
CHECK_DEADLOCK FALSE
