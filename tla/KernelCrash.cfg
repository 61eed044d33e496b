\* A behaviour ends when the entries and crashes are used up.
SPECIFICATION Spec
CONSTANTS
  r1 = r1
  r2 = r2
  w = w
  g = g
  u = u
  NoCall = NoCall
  Calls = {r1, r2, w, g, u}
  Action <- MCAction
  Idempotent = {r1, r2, u}
  ParallelSafe = {r1, r2, w}
  Gated = {g}
  Granted = {r1, r2, w, g}
  Responses <- MCEffectful
  Outcomes = {"ok", "error"}
  MaxIterations = 1
  CycleThreshold = 2
  ModelRetries = 1
  MaxEntries = 2
  MaxDecisions = 0
  MaxCrashes = 3
INVARIANTS
  IntentsSettled
  WriteAhead
  AtMostOncePerIntent
  EvidenceComplete
  DoneIsBacked
PROPERTIES
  ImplementsExecLog
CHECK_DEADLOCK FALSE
