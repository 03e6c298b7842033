SPECIFICATION SuiteSpec
CONSTANTS
  i1 = i1  i2 = i2  m1 = m1  m2 = m2
  Invocation = {i1, i2}
  Mail = {m1, m2}
  NoOne = NoOne
  Other = Other
  MaxDeliveries = 4
  MaxFaults = 2
  Handler = {1, 2}
  Payload = {"result", "timeout"}
  Nothing = "nothing"
  MaxFence = 2
INVARIANTS TypeOK AtMostOneSend AckedMeansSent SucceededIsComplete CallbackIsTruthful
PROPERTIES OutboxIsMonotone PreservedClaimIsKept KeepsPromise EventuallyReconciled CallbackGoesForward CallbackKeepsPromise
CHECK_DEADLOCK FALSE
