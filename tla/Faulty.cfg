CONSTANT MaxFaults = 1
SPECIFICATION Spec
PROPERTY KeepsPromise
CHECK_DEADLOCK FALSE
