SPECIFICATION FairSpec
CONSTANTS
    BatchSize = 4
    CapRecords = 4
    SpoolMax = 0
    MaxHeldParts = 5
    MaxBisectProbes = 2
    Poison = {1, 2, 3}
    Sizes = {1, 4}
    MaxRows = 6
    MaxFaults = 1
    MaxBreaks = 1
    MaxStops = 0
    MaxCrashes = 0
PROPERTIES GoodRowsSettle
CHECK_DEADLOCK FALSE
