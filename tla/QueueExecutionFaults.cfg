\* Two duplicates of one message, late timers, expiring contexts, two faults.
SPECIFICATION Spec
CONSTANTS
  Copy = {c1, c2}
  Invocation = {i1, i2, i3}
  NoOne = NoOne
  ContextOf <- SameContexts
  Lease = 2
  HeartbeatInterval = 1
  ContextTTL = 3
  MaxDelay = 1
  MaxDeliveries = 3
  MaxFaults = 2
  TimelyTimers = FALSE
  ContextsExpire = TRUE
SYMMETRY Invocations
INVARIANTS TypeOK AllAckedIsSettled SuccessIsReal
PROPERTIES TerminalIsFinal ClaimLostOnlyByExpiry
