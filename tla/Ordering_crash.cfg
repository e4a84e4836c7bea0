SPECIFICATION FairSpec
CONSTANTS
    v1 = v1
    v2 = v2
    v3 = v3
    w1 = w1
    w2 = w2
    Validators <- MCValidators
    Workers <- OneWorker
    MsgLoad = 3
    BatchSize = 2
    MaxCrashes = 1
INVARIANTS
    TypeOK
    RemainderStaysBehind
PROPERTIES
    QuorumOrders
    ImplementsInterface
CHECK_DEADLOCK FALSE
