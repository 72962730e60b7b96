SPECIFICATION Spec
CONSTANTS
    N = 1
    MaxJobs = 2
    MaxBoots = 1
    ExecutorLoop = TRUE
    Faults = {"crash"}
    None = None
    Ready = Ready
    Shutdown = Shutdown
PROPERTY CachedEnvelopeKept
CHECK_DEADLOCK FALSE
