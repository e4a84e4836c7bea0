SPECIFICATION FairSpec
CONSTANTS
    t1 = t1
    t2 = t2
    t3 = t3
    none = none
    Threads <- MCThreads
    Ids <- MCIds
    Amounts <- MCAmounts
    Addrs <- MCAddrs
    None = none
    nan = nan
    NotANumber = nan
    Defaults <- MCDefaults
    Inputs <- MCInputs
    MaxRestarts = 1
INVARIANTS
    TypeOK
    LostItemsAccounted
    AddedIsListed
PROPERTIES
    FirstAddWins
    WaitsEndUnlessRaised
CHECK_DEADLOCK FALSE
