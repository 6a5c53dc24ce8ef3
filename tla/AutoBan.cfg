CONSTANTS
  Keys = {top, mid}
  MaxGeneration = 2
  Slots = 1
SPECIFICATION FairSpec
INVARIANTS TypeOK NoTargetIsDropped NoTargetIsDoubled OneRefreshPerTarget
PROPERTIES DutyIsKept NewestIsRefreshed
CHECK_DEADLOCK FALSE
