SPECIFICATION FairSpec
CONSTANTS
    v1 = v1
    v2 = v2
    v3 = v3
    v4 = v4
    v5 = v5
    h1 = h1
    h2 = h2
    OrdValidators <- OrdBooth
    CmtValidators <- OrdBooth
    BlockIds <- OneBlock
    BlockHashes <- OneHash
    PerfMetres = TRUE
    ConsWaitingSec = 2
    MaxWaited = 0
    MaxCrashes = 0
PROPERTIES
    VotesCommit
CHECK_DEADLOCK FALSE
