SPECIFICATION Spec
CONSTANTS
    v1 = v1
    v2 = v2
    v3 = v3
    w1 = w1
    w2 = w2
    Validators <- MCValidators
    Workers <- TwoWorkers
    MsgLoad = 1
    BatchSize = 1
    MaxCrashes = 0
INVARIANTS
    CertificateBacked
    OneCertificatePerId
    RecordedOnce
    CertificateOfItsId
    LockKeptByNonVoter
    BatchesDisjoint
PROPERTIES
    ImplementsLog
    ImplementsInterface
SYMMETRY SymmetryWorkers
CHECK_DEADLOCK FALSE
