SPECIFICATION Spec
CONSTANTS
    Kinds <- TwoPaths
    SegmentTarget = 3
    Capacity = 5
    CompactAt = 3
    Limit = 2
    MaxRecords = 4
    MaxAged = 1
    MaxRestarts = 1
    MaxFaults = 1
INVARIANTS Openable RestartResumes LossIsCounted
PROPERTIES OldestFirstUntilRestart
CHECK_DEADLOCK FALSE
