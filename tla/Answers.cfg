SPECIFICATION AnswersSpec
CONSTANTS
    N = 2
    MaxJobs = 4
    MaxBoots = 1
    ExecutorLoop = TRUE
    Faults = {"crash"}
    None = None
    Ready = Ready
    Shutdown = Shutdown
    MaxRequests = 4
    MaxElements = 3
INVARIANTS JobsAccountedFor  CombinatorSound
PROPERTIES ImplementsLedger ParkedCallReturns ExitsTakeEffect HeadAnswered AllSettle
CHECK_DEADLOCK FALSE
