SPECIFICATION FairSpec
CONSTANTS
    v1 = v1
    v2 = v2
    v3 = v3
    w1 = w1
    w2 = w2
    Validators <- MCValidators
    Workers <- OneWorker
    MsgLoad = 1
    BatchSize = 1
    MaxCrashes = 0
PROPERTIES
    OBReturns
CHECK_DEADLOCK FALSE
