\* Three navigations, two applications waiting, one place for a waiter.
CONSTANTS
  w1 = w1
  w2 = w2
  MaxNavigation = 3
  Waiters = {w1, w2}
  MaxWaiters = 1
SPECIFICATION Spec
INVARIANTS DocumentIsShown NobodyOverlooked
PROPERTIES EndsKnowingly NoOrphan
CHECK_DEADLOCK FALSE
