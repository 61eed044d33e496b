\* Every kind of response, cancelled and faulty at any point; and every script of two
\* iterations run and replayed.  A behaviour ends when the entries are used up.
SPECIFICATION MCSpec
CONSTANTS
  r1 = r1
  r2 = r2
  w = w
  g = g
  u = u
  NoCall = NoCall
  Calls = {r1, r2, w, g, u}
  Action <- MCAction
  Idempotent = {r1, r2, u}
  ParallelSafe = {r1, r2, w}
  Gated = {g}
  Granted = {r1, r2, w, g}
  Responses <- MCResponses
  Outcomes = {"ok", "error"}
  MaxIterations = 2
  CycleThreshold = 2
  ModelRetries = 2
  MaxEntries = 1
  MaxDecisions = 1
  MaxCrashes = 0
PROPERTIES
  LiveReturns
INVARIANTS
  ReplayMatches
CHECK_DEADLOCK FALSE
