SPECIFICATION FairSpec
CONSTANTS
    Conf <- MCConf
    NOP = 2
    MaxTry = 2
    Flags <- MCFlags
    stranger = stranger
    NotAServer = stranger
    MaxStrangers = 1
    MaxRestarts = 1
INVARIANTS
    TypeOK
    MissingNeedsRestart
    CurrentConnectionUsed
    BoothIdsAreIndices
    PanicsOnlyOnBadFlags
PROPERTIES
    PhasesStart
    ValidatorsFollow
CHECK_DEADLOCK FALSE
