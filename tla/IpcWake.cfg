\* Two documents, three frames each.
CONSTANTS
  MaxGeneration = 2
  MaxProduced = 3
SPECIFICATION WakeSpec
INVARIANTS NoLostWake PullIsAlone
PROPERTIES Delivered ClosedTold
CHECK_DEADLOCK FALSE
