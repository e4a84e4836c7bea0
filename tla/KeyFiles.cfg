SPECIFICATION Spec
CONSTANTS
    P = 7
    Polys <- MCPolys
    MaxRuns = 2
    MaxServers = 3
    Instances <- MCInstances
    Thresh = 2
    PubFile = pubFile
INVARIANTS
    TypeOK
    OneGeneration
    LoadedKeysMatch
    QuorumsSign
    RecoveredVerifies
