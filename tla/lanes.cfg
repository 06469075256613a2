\* A job on two lanes, twice; one thing fails.
SPECIFICATION Spec
CONSTANTS
    Tasks <- MCTasks
    Requested = 2
    Runs = 2
    Jobs = 2
    MaxFaults = 1
    NoTask = NoTask
INVARIANTS
    FreshGateway
    GatewaysStop
    BrowserRunsApart
PROPERTIES
    JobsEnd
CHECK_DEADLOCK FALSE
