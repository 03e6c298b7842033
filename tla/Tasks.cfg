SPECIFICATION Spec
INVARIANTS   MinutesAreShown
PROPERTIES BoardIsOneAndFresh
CHECK_DEADLOCK FALSE
