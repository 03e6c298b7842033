\* One launch of a runner that reports its progress; no fault.
SPECIFICATION Spec
CONSTANTS
  MaxLaunches = 1
  Reports = TRUE
  MaxFaults = 0
CHECK_DEADLOCK FALSE
INVARIANTS FirstTerminalWins
