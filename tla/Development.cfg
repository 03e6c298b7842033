SPECIFICATION Spec
CONSTANTS
  Forms = {1, 2}  Submissions = {1, 2}  Askers = {1, 2}  Employed <- BothThenOne  MaxSlips = 1
  MaxLaunches = 2  Reports = FALSE  MaxFaults = 2
  Runners = {1, 2, 3}  MaxKills = 1
  Calls = {1, 2, 3}  Resolving = {1, 2}  MaxStops = 2  MaxFlaws = 2
  MaxEvents = 4  MaxOdd = 1
  Requests = {1, 2}  MaxTrace = 4  MaxNoise = 3
INVARIANTS DevelopmentEndsAsTold OneRunnerAtWork  ClaudeIsAttested
PROPERTIES DevelopmentGoesForward
CHECK_DEADLOCK FALSE
