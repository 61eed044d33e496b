\* A restart by the Service Control Manager after a stop.
SPECIFICATION Spec
CONSTANT NInstances = 2
INVARIANT RestartNeverBlocked
CHECK_DEADLOCK FALSE
