CONSTANTS
    PoolSize = 2
    Refusable = {1}
    MaxGames = 1
    MaxFaults = 1
    WithBan <- AllCandidates
SPECIFICATION FairSpec
PROPERTIES PickSurvivesLostAnswer BanHappens
CHECK_DEADLOCK FALSE
