SPECIFICATION Spec
CONSTANTS
    StreakCap = 2
    MaxChanges = 3
    GapFloor = 3
    Interval = 1
    Settings <- ConfirmingAndFlapping
INVARIANTS ToldIsDisplayed
PROPERTIES ConfirmedByEvidence PendingIsShort FlappingIsRecent HeldForItsOwnClass
CHECK_DEADLOCK FALSE
