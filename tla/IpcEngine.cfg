\* Calls and requests in up to two documents (the instances Bounded lists).
CONSTANTS
  MaxGeneration = 2
  MaxLocalId = 4
  MaxPeerId = 2
  Kinds = {"rpc", "notification"}
  p1 = p1
  Posters = {p1}
  ControlFrames = 2
  MaxPending = 2
  MaxNotify = 1
  MaxFrames = 1
  MaxBytes = 1
SPECIFICATION Spec
CONSTRAINT Bounded
INVARIANTS TypeOK Accounting WireOrder OneOwner AnsweredOnce
PROPERTIES OpenUntilAnswered ImplementsOutbox
CHECK_DEADLOCK FALSE
