\* Calls of the page and of the host, both queues short; the timers are fair.
CONSTANTS
  MaxId = 3
  MaxHostId = 2
  ControlFrames = 2
  MaxPending = 2
  MaxNotify = 1
  MaxFrames = 2
  MaxCallbacks = 1
  MaxInput = 2
  MaxRetained = 3
SPECIFICATION FairSpec
INVARIANTS CreditAccounting CompletionFits WireOrder
PROPERTIES CallSettles
CHECK_DEADLOCK FALSE
