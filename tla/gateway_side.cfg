SPECIFICATION Spec
CONSTANTS
  Keys = {"s", "t"}
  MaxExecs = 2
  MaxSessions = 1
  MaxConf = 1
  Races = {}
  Sessions = {"s", "t"}
  Profiles = {"p"}
  Requests = {"q1", "q2"}
  MaxSetting = 2
  GatewaySetting = 1
  MaxWsOps = 3
  Instances = {"a", "b"}
  JobNames = {"j", "k"}
  PersistJobs = {"j"}
  MaxConcurrent = 1
  MaxClock = 2
  MaxFires = 2
  MaxSchedOps = 1
  PunctualRuns = TRUE
  LeaderReturns = FALSE
  Asks = {"r"}
  AskSessions = {"s", "t"}
  FirstScope = "s"
  MaxFetches = 1
  MaxSwitches = 1
  MaxAnswers = 2
  Spoken = {"assistant"}
  MaxWork = 2
  BufferMax = 1
  PendMax = 2
  MaxFaults = 1
  FlushMayFail = FALSE
  External = {"m", "n"}
  Direct = {"d"}
  DedupCap = 1
  SendTries = 2
  TaskTries = 2
  ReplayTries = 1
  MaxArrivals = 2
  MaxFailures = 2
  MaxRestarts = 2
  Timeouts = FALSE
  Boots = {"a", "b"}
  SchemaVersion <- Releases
  OldVersions = {4, 10, 17}
  SlowLocks = FALSE
  MaxBootFaults = 1
  Importers = {"i", "j"}
  Files = {"f", "g"}
  Broken = {"g"}
  KeyOf <- OwnKey
  Faulty = {"crash", "failure"}
  MaxImportFaults = 1
  ArtifactIds = {"x"}
  PlanIds = {"p"}
  NoPlan = "none"
  TaskIds = {"t"}
  SourceOf <- OneSource
  MaxArtifactFaults = 2
INVARIANTS
  GatewayTypeOK
  SessionsAreServed
  
  StoredIsKept
CHECK_DEADLOCK FALSE
