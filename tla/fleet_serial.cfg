\* One planned run and its rerun; everything may fail, and one fault strikes.
SPECIFICATION FairSpec
CONSTANTS
    r1 = r1
    r2 = r2
    m1 = m1
    Roots <- MCOneRun
    ModelOf <- MCModelOf
    ModelMaxRuns <- MCOnePerModel
    MaxAttempts = 2
    MaxLeases = 1
    MaxMachines = 1
    MaxFaults = 1
    CommandsMayFail = TRUE
    AnswersMayBeLost = TRUE
PROPERTIES
    ImplementsAttempts
    RunsSettle
CHECK_DEADLOCK FALSE
