SPECIFICATION DeliveryFairSpec
CONSTANTS
    Kinds <- GoodAndBad
    SegmentTarget = 3
    Capacity = 3
    CompactAt = 3
    Limit = 2
    MaxRecords = 2
    MaxAged = 1
    MaxRestarts = 1
    MaxFaults = 1
    MaxTimeouts = 1
PROPERTIES ImplementsResultDelivery PostedAgainUnchanged QueueDrains
CHECK_DEADLOCK FALSE
