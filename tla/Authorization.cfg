SPECIFICATION FairSpec
CONSTANTS
    heartbeat = heartbeat
    config = config
    upload = upload
    Loops = {heartbeat, config, upload}
    Recovery = {config}
    MaxRejections = 3
    MaxFaults = 2
    MaxRestarts = 1
INVARIANTS ProbingIsVouched BlockIsStored
PROPERTIES RecoversOnceGranted
