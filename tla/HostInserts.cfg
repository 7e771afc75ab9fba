SPECIFICATION FairSpec
CONSTANTS
    Uploads = {u1, u2}
    Workers = {w1, w2}
    Tables = {cpu}
    MaxMembers = 2
    MaxFaults = 2
INVARIANTS AckedIsStored TwiceOnlyUntraced
CHECK_DEADLOCK FALSE
PROPERTIES EveryUploadIsAcked
