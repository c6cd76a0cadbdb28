\* The process when the events service has stopped.
CONSTANT MaxPpFaults = 1

SPECIFICATION FairSpec
CHECK_DEADLOCK FALSE
PROPERTY StopsWithoutEvents
