SPECIFICATION FairSpec
CONSTANTS
  e1 = e1
  e2 = e2
  Events = {e1, e2}
  Delays = {0, 1}
  MaxToken = 3
  MaxTimer = 2
  MaxTime = 1
  WaitMayFail = TRUE
PROPERTIES
  NoStaleDispatch
  TimersFireInOrder
  TimersServed
