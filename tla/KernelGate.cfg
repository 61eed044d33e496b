\* A behaviour ends when the entries and decisions are used up.
SPECIFICATION Spec
CONSTANTS
  r1 = r1
  r2 = r2
  w = w
  g = g
  u = u
  NoCall = NoCall
  Calls = {r1, r2, w, g, u}
  Action <- MCAction
  Idempotent = {r1, r2, u}
  ParallelSafe = {r1, r2, w}
  Gated = {g}
  Granted = {r1, r2, w, g}
  Responses <- MCGated
  Outcomes = {"ok"}
  MaxIterations = 1
  CycleThreshold = 2
  ModelRetries = 2
  MaxEntries = 2
  MaxDecisions = 2
  MaxCrashes = 1
INVARIANTS
  ApprovalGate
  RunsAreGranted
CHECK_DEADLOCK FALSE
