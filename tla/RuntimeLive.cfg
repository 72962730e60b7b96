SPECIFICATION PumpSpec
CONSTANTS
    JobIds = {j1, j2, j3}
    MaxCalls = 1
    MaxJobs = 2
    Threads = {t1}
    AutoDrain = TRUE
    Oddities = {"nested", "jobError", "setter", "uncapped"}
PROPERTY Returns EveryJobRuns
CHECK_DEADLOCK FALSE
