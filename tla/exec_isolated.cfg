SPECIFICATION Spec
CONSTANTS
  MaxTurns = 3
  MaxRuns = 3
  MaxMsgs = 3
  MaxOps = 3
  Channels = {TRUE, FALSE}
  Steering = TRUE
  SlowThreads = FALSE
INVARIANTS TypeOK OneLiveTurn EventsStayHome
PROPERTIES TerminalIsFinal WatchdogWasAsked
CHECK_DEADLOCK FALSE
