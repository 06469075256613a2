\* Two trials at once, one checkpoint by the clock, one fault.
SPECIFICATION Spec
CONSTANTS
    Trials = {t1, t2}
    Concurrency = 2
    Increment = 2
    MaxSshFailures = 1
    MaxTimely = 2
    MaxFaults = 1
INVARIANTS
    SuccessWasJudged
    ResultsComeHome
PROPERTIES
    ArchivesAreWholeAndKept
    LoopEnds
CHECK_DEADLOCK FALSE
