\* A machine with a disk and no dataset, with submitters enough to fill the queue.
SPECIFICATION Spec
CONSTANTS
    MaxJobs = 3
    Requests <- MCCrowd
    f1 = f1
    f2 = f2
    f3 = f3
    s1 = s1
    s2 = s2
    s3 = s3
    NoJob = NoJob
    MaxActive = 2
    MaxPerSubmitter = 1
    CounterModulus = 1
    HubEnabled = FALSE
    DiskSurvives = TRUE
    SeveralAtOnce = FALSE
    SaveMayFail = FALSE
    UploadMayFail = TRUE
    HubLoadMayFail = FALSE
INVARIANTS
    OneActivePerFingerprint
    WithinLimits
PROPERTIES
    DurableOutcomeIsFinal
CHECK_DEADLOCK FALSE
