\* A behaviour ends when all requests are served.
SPECIFICATION Spec
SYMMETRY MCThreads
CONSTANTS
  Threads = {t1, t2, t3}
  Keys = {k}
  NoKey = NoKey
  NoThread = NoThread
  GuardOutcomes = {TRUE, FALSE}
  MaxPosts = 2
  MaxCancels = 1
  MaxDecisions = 2
  MaxWork = 1
  MaxCrashes = 2
INVARIANTS
  FlagsMatchRuns
  DeniedNeverRuns
PROPERTIES
  StatusIsTrue
CHECK_DEADLOCK FALSE
