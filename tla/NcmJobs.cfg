SPECIFICATION FairSpec
CONSTANTS
    Slots = {s1, s2}
    Types <- RunningAndStartup
    MaxAttempts = 2
    MaxJobs = 2
    MaxEvents = 1
    MaxUpsets = 1
INVARIANTS SuccessIsComplete IncidentTellsTheLastOutcome LinkedVersionShowsTheChange
PROPERTIES JobsEnd
CHECK_DEADLOCK FALSE
