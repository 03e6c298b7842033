CONSTANTS
  MaxDeliveries = 3  MaxFaults = 3
  Ttl = 3  Ahead = 1  Margin = 1  Budget = 2  MaxRevs = 1
SPECIFICATION Spec
INVARIANTS  ContainerIsConfined
PROPERTIES RepliesGoForward
CHECK_DEADLOCK FALSE
