SPECIFICATION FairSpec
CONSTANTS
  Triggers = {t1, t2, t3}
  Self = Self
INVARIANTS TypeOK SomeoneHandles
PROPERTIES AllReleased SocketReleased
CHECK_DEADLOCK FALSE
