\* Two turns of one message each, two connection attempts and one fault of the gateway.
SPECIFICATION Spec
CONSTANTS
    Turns = 2
    MaxMessages = 1
    MaxAttempts = 2
    MaxFaults = 1
INVARIANTS
    TurnIsComplete
    RunIsNotLeftBehind
    TurnEndsByItsOwnRun
PROPERTIES
    ClientFinishes
CHECK_DEADLOCK FALSE
