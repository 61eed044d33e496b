\* One call, and a server that crashes or hangs once.
SPECIFICATION Spec
CONSTANTS
    Callers = {t1}
    NCalls = 1
    MaxRestarts = 1
    MaxCrashes = 1
    Errors = {FALSE}
INVARIANT NeverReplayed
