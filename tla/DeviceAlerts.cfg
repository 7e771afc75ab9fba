SPECIFICATION FairSpec
CONSTANTS
    w1 = w1
    w2 = w2
    Workers = {w1, w2}
    Trigger = "any"
    Hold = FALSE
    Reset = TRUE
    Levels = 1
    MaxRepeat = 0
    MaxMoves = 2
    MaxUpsets = 1
INVARIANTS OneOpenAlert UpClosesAll NothingBeforeThePage NeverTwice
PROPERTIES EscalationsEnd
CHECK_DEADLOCK FALSE
