SPECIFICATION Spec
CONSTANTS
    f = f
    g = g
    Types = {"x"}
    Listeners = {f, g}
    MaxEntries = 2
    MaxLists = 2
    MaxDepth = 4
    Calls = {"on", "prependListener", "once", "prependOnceListener", "off", "removeAllListeners", "removeAll", "emit", "throw"}
    None = None
INVARIANT OnceOnce
CHECK_DEADLOCK FALSE
