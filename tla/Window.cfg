CONSTANTS
    Children = {c1, c2}
    NoChild = NoChild
    RestartLimit = 1
    Worlds = {{"exits", "games", "closes"}, {"faults", "closes"}, {"edits"}}
SPECIFICATION FairSpec
INVARIANTS TypeOK NoOrphan NeverStuck
PROPERTIES StopStands ClosesAfterExitOnceTold StopEnds RestartsNeedTheUser ExitClosesWindow
CHECK_DEADLOCK FALSE
