SPECIFICATION Spec
CONSTANTS
  Base = 16
  Block = 4
  Noise <- Noises
  Endpoints <- Ends
  Inputs <- Messages
  Port <- Wanted
  MaxSent = 2
INVARIANTS TypeOK InStep FramesKept VerdictSurvives
CHECK_DEADLOCK FALSE
