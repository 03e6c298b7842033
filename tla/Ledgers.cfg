CONSTANTS
  Deliveries = {1, 2, 3}  MaxStarts = 2  MaxGlitches = 2
  Envelopes = {1, 2}  Days = {1}  MaxJobs = 3  MaxRetries = 1  MaxSlips = 1
  MaxRuns = 3  Limit = 1  Stale = 2  Life = 1  Expires = 4  Grace = 1  MaxTime = 6  MaxUpsets = 1
  Intents = {1, 2}  Callbacks = {1, 2}  Events = {1, 2}  MaxMisses = 1
SPECIFICATION Spec
INVARIANTS  ContractsAreTrue RunsAndEventsAreSingle
 
CHECK_DEADLOCK FALSE
