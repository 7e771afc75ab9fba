SPECIFICATION Spec
CONSTANTS
    BatchSize = 2
    CapRecords = 4
    SpoolMax = 6
    MaxHeldParts = 2
    MaxBisectProbes = 2
    Poison = {}
    Sizes = {2}
    MaxRows = 6
    MaxFaults = 0
    MaxBreaks = 0
    MaxStops = 1
    MaxCrashes = 0
PROPERTIES PersistKeepsWhatFits
CHECK_DEADLOCK FALSE
