SPECIFICATION Spec
CONSTANTS
    BatchSize = 2
    CapRecords = 4
    SpoolMax = 4
    MaxHeldParts = 2
    MaxBisectProbes = 2
    Poison = {3}
    Sizes = {2}
    MaxRows = 8
    MaxFaults = 1
    MaxBreaks = 1
    MaxStops = 1
    MaxCrashes = 1
INVARIANTS Accounted StoredOnce
PROPERTIES NextIsOldest
CHECK_DEADLOCK FALSE
