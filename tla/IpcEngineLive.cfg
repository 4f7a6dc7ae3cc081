\* Settlement under the deadline thread's fairness.
CONSTANTS
  p1 = p1
  MaxGeneration = 1
  MaxLocalId = 2
  MaxPeerId = 2
  Kinds = {"rpc"}
  Posters = {p1}
  ControlFrames = 2
  MaxPending = 2
  MaxNotify = 1
  MaxFrames = 1
  MaxBytes = 1
SPECIFICATION FairSpec
PROPERTIES CallSettles RequestResolves
CHECK_DEADLOCK FALSE
