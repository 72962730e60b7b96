SPECIFICATION Spec
CONSTANTS
    MaxTimers = 1
    MaxImmediates = 1
    MaxQueued = 1
    MaxLate = 1
    MaxJobs = 1
    MaxCallbacks = 2
    Limit = 2
    Delays = {0, 2}
    CanSleep = TRUE
    Calls = {"setTimeout", "setInterval", "setImmediate", "queueMicrotask", "clearTimer", "clearImmediate", "ref", "refresh", "throw"}
    None = None
PROPERTIES BlockDrainEmpties
CHECK_DEADLOCK FALSE
