SPECIFICATION Spec
CONSTANTS
  Triggers = {t1, t2}
  Self = Self
INVARIANTS OverClosedOnce
CHECK_DEADLOCK FALSE
