SPECIFICATION Spec
CONSTANTS
    v1 = v1
    v2 = v2
    v3 = v3
    v4 = v4
    v5 = v5
    h1 = h1
    h2 = h2
    OrdValidators <- OrdPair
    CmtValidators <- OrdPair
    BlockIds <- TwoBlocks
    BlockHashes <- OneHash
    PerfMetres = FALSE
    ConsWaitingSec = 1
    MaxWaited = 0
    MaxCrashes = 1
SYMMETRY SymmetryPair
INVARIANTS
    InstancesPartition
CHECK_DEADLOCK FALSE
