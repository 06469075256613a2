\* A deployment with a disk, a dataset and several jobs at once: uploads and downloads
\* fail, saves do not, and a late report may come between a claim and its task.
SPECIFICATION Spec
CONSTANTS
    MaxJobs = 2
    Requests <- MCPair
    f1 = f1
    f2 = f2
    f3 = f3
    s1 = s1
    s2 = s2
    s3 = s3
    NoJob = NoJob
    MaxActive = 2
    MaxPerSubmitter = 1
    CounterModulus = 2
    HubEnabled = TRUE
    DiskSurvives = TRUE
    SeveralAtOnce = TRUE
    SaveMayFail = FALSE
    UploadMayFail = TRUE
    HubLoadMayFail = TRUE
SYMMETRY MCSymmetry
INVARIANTS
    TypeOK
    RecordsCoherent
PROPERTIES
    HubKeepsJobs
    DiskKeepsJobs
CHECK_DEADLOCK FALSE
