\* Two selections or retries, one redo button, two revisions, two faults.
SPECIFICATION FairSpec
CONSTANTS
    MaxClicks = 2
    MaxRedos = 1
    MaxRev = 1
    MaxRecases = 1
    MaxFaults = 2
    Overlaps = FALSE
INVARIANTS MinutesAreWhole
PROPERTIES MinutesGoForward
CHECK_DEADLOCK FALSE
