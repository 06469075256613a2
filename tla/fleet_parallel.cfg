\* Two runs of a model that may have one at a time: they meet in clean-up and recovery.
SPECIFICATION Spec
SYMMETRY Symmetry
CONSTANTS
    r1 = r1
    r2 = r2
    m1 = m1
    Roots <- MCTwoRuns
    ModelOf <- MCModelOf
    ModelMaxRuns <- MCOnePerModel
    MaxAttempts = 1
    MaxLeases = 2
    MaxMachines = 2
    MaxFaults = 1
    CommandsMayFail = TRUE
    AnswersMayBeLost = FALSE
INVARIANTS
    TypeOK
    OneMachinePerRun
    MachinesReleased
    CompletedIsGenuine
    RunsAreNotCut
    StartedOnce
    ModelsWithinLimits
CHECK_DEADLOCK FALSE
