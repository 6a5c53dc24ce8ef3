CONSTANTS
    PoolSize = 1
    Refusable = {1}
    MaxGames = 1
    MaxFaults = 1
    WithBan <- AllCandidates
SPECIFICATION FairSpec
PROPERTIES PickHappens
CHECK_DEADLOCK FALSE
