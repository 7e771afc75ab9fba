SPECIFICATION Spec
CONSTANTS
    d1 = d1
    s1 = s1
    s2 = s2
    central = central
    none = none
    Devices = {d1}
    Sensors = {s1}
    Central = central
    NoOwner = none
    First = "unknown"
    QueueCap = 1
    Returns = "settled"
    MaxHandoffs = 2
    MaxChanges = 2
    MaxWrites = 1
    MaxFaults = 1
    MaxCrashes = 1
INVARIANTS RowExplainsDevice AnnouncedIsStored EpisodeFollowsState PlannedIsStored
PROPERTIES SeesReleases AlertsFollowSaves
CONSTRAINT OneUpset
CHECK_DEADLOCK FALSE
