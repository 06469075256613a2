\* One question about the pure functions at a time: every behaviour has two states.
SPECIFICATION Spec
PROPERTIES
    ReportsStandOnTheirResults
    TranscriptsAreWhole
    PlannedRunIsWhatRuns
    ScoresAreFair
    CanonicalTasksMeanTheSame
CHECK_DEADLOCK FALSE
