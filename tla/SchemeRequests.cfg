SPECIFICATION Spec
CONSTANTS
  r1 = r1
  r2 = r2
  w1 = w1
  Request = {r1, r2}
  Worker = {w1}
  MaxWork = 2
  Limits <- SmallLimits
  MaxChunks = 2
  MayPanic = TRUE
INVARIANTS NativeProtocol NoRequestStranded
PROPERTY RequestEnds
CHECK_DEADLOCK FALSE
