CONSTANT MaxFaults = 0
SPECIFICATION Spec
PROPERTY CancelEndsTheRun
CHECK_DEADLOCK FALSE
