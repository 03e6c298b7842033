CONSTANTS
  Attempts = {1, 2}  MaxTries = 2  MaxChanges = 1  MaxFaults = 1
  Clicks = {1, 2}  MaxToggles = 1  MaxSlips = 2
  MaxBody = 5  FirstBuffer = 2  Chunks = {1, 2, 3}  MaxTurnovers = 1
SPECIFICATION Spec
INVARIANTS EventsAreFollowed  
PROPERTIES DoorsGoForward
CHECK_DEADLOCK FALSE
