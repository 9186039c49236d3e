SPECIFICATION WorkSpec
CONSTANTS
  MaxTurns = 2
  MaxRuns = 2
  MaxMsgs = 2
  MaxOps = 2
  Channels = {TRUE}
  Steering = FALSE
  SlowThreads = FALSE
  Goals = {"g", "h"}
  Jobs = {"j1", "j2", "j3"}
  FirstLimit <- Limits
  RoundCap = 2
  MaxGoalTasks = 2
  MaxGoalOps = 1
  PromptCancels = TRUE
  QuietRounds = TRUE
  PromptTools = TRUE
  Steps = {1, 2}
  DependsOn <- StepChain
  RetryLimit = 1
  Gated = {2}
  Executors = {"e1", "e2"}
  MaxPlanTasks = 4
  MaxPlanOps = 2
  SlowWaits = FALSE
  PromptCallbacks = TRUE
  Children = {"c", "d"}
  MaxChildren = 1
  MaxChildTasks = 3
  MaxChildOps = 2
  PromptCalls = TRUE
  StuckLimit = 2
  MaxBeats = 3
  MaxBeatOps = 3
  HonestBusy = TRUE
INVARIANTS
  WorkTypeOK
  RoundsAreDriven
  WorkIsFollowed

  
CHECK_DEADLOCK FALSE
