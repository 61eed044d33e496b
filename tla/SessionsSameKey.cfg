\* A behaviour ends when all requests are served.
SPECIFICATION Spec
CONSTANTS
  Threads = {t1, t2}
  Keys = {k}
  NoKey = NoKey
  NoThread = NoThread
  GuardOutcomes = {TRUE}
  MaxPosts = 2
  MaxCancels = 0
  MaxDecisions = 0
  MaxWork = 1
  MaxCrashes = 0
INVARIANTS
  SameKeyRunsOnce
CHECK_DEADLOCK FALSE
