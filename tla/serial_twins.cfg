SPECIFICATION Spec
CONSTANTS
  Callers = {a, b}
  MaxNo = 5
  MaxDraws = 4
INVARIANTS NoTwins
CHECK_DEADLOCK FALSE
