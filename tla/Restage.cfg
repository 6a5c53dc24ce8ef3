CONSTANTS
    MaxVersion = 2
    MaxFaults = 1
SPECIFICATION Spec
PROPERTIES FailedUpdateCanBeStagedAgain
