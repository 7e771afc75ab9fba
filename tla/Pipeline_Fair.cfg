SPECIFICATION FairSpec
CONSTANTS
    d1 = d1
    s1 = s1
    s2 = s2
    central = central
    none = none
    Devices = {d1}
    Sensors = {s1}
    Central = central
    NoOwner = none
    First = "up"
    QueueCap = 1
    Returns = "new_sensor"
    MaxHandoffs = 2
    MaxChanges = 1
    MaxWrites = 1
    MaxFaults = 0
    MaxCrashes = 0
PROPERTIES ParkedIsResolved LeaversAreReleased SeesSensorWrites
CHECK_DEADLOCK FALSE
