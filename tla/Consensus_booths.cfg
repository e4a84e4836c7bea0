SPECIFICATION Spec
CONSTANTS
    v1 = v1
    v2 = v2
    v3 = v3
    v4 = v4
    v5 = v5
    h1 = h1
    h2 = h2
    OrdValidators <- OrdBooth
    CmtValidators <- BoothWOP
    BlockIds <- OneBlock
    BlockHashes <- TwoHashes
    PerfMetres = TRUE
    ConsWaitingSec = 2
    MaxWaited = 0
    MaxCrashes = 0
SYMMETRY SymmetryWOP
INVARIANTS
    TypeOK
    CommitBacked
    SyncedCertified
    DeliveriesAgree
PROPERTIES
    ImplementsLog
    ImplementsOrdering
CHECK_DEADLOCK FALSE
