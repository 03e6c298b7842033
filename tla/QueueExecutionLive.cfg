\* Two copies with contexts of their own, heartbeats every third of the lease
\* and on time, production retries, one fault.
SPECIFICATION FairSpec
CONSTANTS
  Copy = {c1, c2}
  Invocation = {i1, i2, i3}
  NoOne = NoOne
  ContextOf <- OwnContexts
  Lease = 9
  HeartbeatInterval = 3
  ContextTTL = 1
  MaxDelay = 1
  MaxDeliveries = 4
  MaxFaults = 1
  TimelyTimers = TRUE
  ContextsExpire = FALSE
INVARIANT TimelyInvocationKeepsItsWork
PROPERTY EventuallySettled
