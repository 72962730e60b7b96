SPECIFICATION Spec
CONSTANTS
    MaxTimers = 2
    MaxImmediates = 2
    MaxQueued = 1
    MaxLate = 1
    MaxJobs = 1
    MaxCallbacks = 2
    Limit = 2
    Delays = {0, 1}
    CanSleep = TRUE
    Calls = {"setTimeout", "setImmediate", "queueMicrotask", "clearTimer", "clearImmediate", "ref", "refresh", "throw"}
    None = None
INVARIANT ImmediateOnce
PROPERTIES  BlockDrainComplete
CHECK_DEADLOCK FALSE
