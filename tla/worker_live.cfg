\* The default deployment: one job at a time, no dataset, and only restarts and
\* failing loads and gateway starts to recover from.
SPECIFICATION FairWorkerSpec
CONSTANTS
    MaxJobs = 2
    Requests <- MCRequests
    f1 = f1
    f2 = f2
    f3 = f3
    s1 = s1
    s2 = s2
    s3 = s3
    NoJob = NoJob
    MaxActive = 2
    MaxPerSubmitter = 0
    CounterModulus = 1
    HubEnabled = FALSE
    DiskSurvives = TRUE
    SeveralAtOnce = FALSE
    SaveMayFail = FALSE
    UploadMayFail = FALSE
    HubLoadMayFail = FALSE
    Tasks <- MCTasks
    t1 = t1
    t2 = t2
    NoTask = NoTask
    MaxConcurrentJobs = 1
    RunsPerJob = 2
    MaxRestarts = 1
    Unloadable <- MCUnloadable
    RestartMayFail = TRUE
PROPERTIES
    EveryJobSettles
    ImplementsLifecycle
CHECK_DEADLOCK FALSE
