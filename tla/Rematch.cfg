CONSTANTS
    PoolSize = 2
    Refusable = {1}
    MaxGames = 2
    MaxFaults = 1
    WithBan <- AllCandidates
SPECIFICATION Spec
INVARIANTS TypeOK PickedIsConfirmed
PROPERTIES PickBelongsToSession BanBelongsToSession ReserveOnlyWhenBlocked
CHECK_DEADLOCK FALSE
