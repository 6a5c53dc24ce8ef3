CONSTANTS
    MaxVersion = 3
    MaxFaults = 2
SPECIFICATION FairSpec
INVARIANTS TypeOK ReadyHasInstaller
PROPERTIES UpdateIsNotForgotten PromiseIsKept AppliedIsCleared
