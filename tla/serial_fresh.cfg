SPECIFICATION Spec
CONSTANTS
  Callers = {a, b, c}
  MaxNo = 5
  MaxDraws = 8
INVARIANTS TypeOK Fresh
CHECK_DEADLOCK FALSE
