\* Six runners one after the other, of which one is killed at work.
SPECIFICATION LockSpec
CONSTANTS
  Runners = {1, 2, 3, 4, 5, 6}
  MaxKills = 1
INVARIANT NoDoubleRun
CHECK_DEADLOCK FALSE
