SPECIFICATION FairProc
CONSTANTS
  Pids = {1, 2}
  ProcCallers = {"a"}
  MaxSessions = 1
  MaxBirths = 2
  MaxGateways = 1
  ReuseListed = FALSE
  CleanRaces = FALSE
PROPERTY EvictionReturns
CHECK_DEADLOCK FALSE
