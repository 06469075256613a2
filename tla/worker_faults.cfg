\* The default deployment with a disk that fills up and gateways that do not come back.
SPECIFICATION WorkerSpec
CONSTANTS
    MaxJobs = 2
    Requests <- MCRequests
    f1 = f1
    f2 = f2
    f3 = f3
    s1 = s1
    s2 = s2
    s3 = s3
    NoJob = NoJob
    MaxActive = 2
    MaxPerSubmitter = 0
    CounterModulus = 1
    HubEnabled = FALSE
    DiskSurvives = TRUE
    SeveralAtOnce = FALSE
    SaveMayFail = TRUE
    UploadMayFail = FALSE
    HubLoadMayFail = FALSE
    Tasks <- MCTasks
    t1 = t1
    t2 = t2
    NoTask = NoTask
    MaxConcurrentJobs = 1
    RunsPerJob = 2
    MaxRestarts = 1
    Unloadable <- MCUnloadable
    RestartMayFail = TRUE
INVARIANTS
    EvaluationsExclusive
    ClaimedJobIsEvaluating
PROPERTIES
    RecordedOutcomeStands
CHECK_DEADLOCK FALSE
