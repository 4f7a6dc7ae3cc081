\* Two subscriptions, one at a time, three notifications, two at once.
CONSTANTS
  s1 = s1
  s2 = s2
  Slots = {s1, s2}
  MaxNotification = 3
  MaxSlots = 1
  MaxNotify = 2
  MaxCallbacks = 2
SPECIFICATION FairNotifySpec
INVARIANTS InOrderWhileLive NoSlotOutlives
PROPERTIES ChainAdvances
CHECK_DEADLOCK FALSE
