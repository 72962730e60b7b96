SPECIFICATION HostSpec
CONSTANTS
    Isolates = {i1, i2}
    Half = 1
    MaxRegs = 5
    Lane = "json"
    None = None
    Types = {"newListener", "removeListener", "error"}
    Listeners = {f, g}
    MaxEntries = 2
    MaxLists = 3
    MaxDepth = 4
    EmitterCalls = {"on", "prependListener", "once", "prependOnceListener", "off", "removeAllListeners", "removeAll", "emit", "throw"}
    JobIds = {j1, j2}
    MaxCalls = 2
    MaxJobs = 2
    Threads = {t1, t2}
    Oddities = {"nested", "jobError", "mute", "uncapped"}
    MaxTimers = 2
    MaxImmediates = 1
    MaxQueued = 1
    MaxLate = 1
    MaxTimerJobs = 1
    MaxCallbacks = 2
    Limit = 1
    Delays = {0, 1}
    TimerCalls = {"setTimeout", "setInterval", "setImmediate", "queueMicrotask", "throw"}
INVARIANTS OwnCallback CountBounded OnceGone 
PROPERTIES SlotsAreForever LeavesForAReason  DrainReturns
CHECK_DEADLOCK FALSE
