SPECIFICATION WatchSpec
CONSTANTS
  MaxSessions = 2
PROPERTIES StatusIsOfItsRun 
CHECK_DEADLOCK FALSE
