\* Two processes and a supervisor on the lock; instances of the service; two clients of
\* the pipe and its stop; one MCP caller whose server errs, hangs or crashes.
\* Instances and requests are used up, and a stopped server ends.
SPECIFICATION Spec
CONSTANTS
    Procs = {p1, p2}
    Sup = Sup
    NoOne = NoOne
    MaxInodes = 3
    MaxBoots = 2
    MaxProbes = 1
    MaxDeaths = 2
    NInstances = 3
    Clients = {x, y, s}
    Stopper = s
    Callers = {t1}
    NCalls = 2
    MaxRestarts = 1
    MaxCrashes = 2
    Errors = {FALSE, TRUE}
INVARIANTS
    SingleWriter SidecarNamesHolder RepliesMatch
PROPERTIES
    Obtainable StopReleases PipeServes CallReturns
CHECK_DEADLOCK FALSE
