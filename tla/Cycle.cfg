CONSTANT MaxFaults = 0
SPECIFICATION FairSpec
INVARIANTS TypeOK RequestIsRemembered TimerStopsWithTheGame
PROPERTIES StopsOnlyForAnEndedSearch SelectIsConfirmed WatchDoesNotRepeatStart
PROPERTIES ReadyCheckIsAccepted CancelIsNoticed OneGameEndsTheRun
CHECK_DEADLOCK FALSE
