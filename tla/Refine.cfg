SPECIFICATION RefineSpec
CONSTANTS
    N = 2
    MaxJobs = 2
    MaxBoots = 2
    ExecutorLoop = FALSE
    Faults = {"crash", "earlyCrash", "badContext"}
    None = None
    Ready = Ready
    Shutdown = Shutdown
    int1 = int1
    a = a
    b = b
    c = c
    Iters = {1}
    MaxAdds = 5
INVARIANTS PutFindsEmptySlot DeadMeansExited 
PROPERTIES ImplementsLedger VisitsInOrder
CHECK_DEADLOCK FALSE
SYMMETRY Symmetry
