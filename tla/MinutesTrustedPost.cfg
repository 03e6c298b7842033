\* A message of one file and no request for it, without any fault.
SPECIFICATION Spec
CONSTANTS
  Files = {1}
  Requests = {}
  MaxTries = 2
  MaxFaults = 0
INVARIANT TrustedPostIsTaken
CHECK_DEADLOCK FALSE
