\* Two runs side by side; nothing fails but the runs.
SPECIFICATION Spec
CONSTANTS
    r1 = r1
    r2 = r2
    m1 = m1
    Roots <- MCTwoRuns
    ModelOf <- MCModelOf
    ModelMaxRuns <- MCTwoPerModel
    MaxAttempts = 2
    MaxLeases = 2
    MaxMachines = 1
    MaxFaults = 0
    CommandsMayFail = FALSE
    AnswersMayBeLost = FALSE
PROPERTIES
    SettledStays
CHECK_DEADLOCK FALSE
