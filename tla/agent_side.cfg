SPECIFICATION Spec
CONSTANTS
  Overlap = FALSE
  MaxLoopOps = 2
  MaxSaid = 8
  MaxRuns = 3
  MaxBatch = 2
  CallLimit = 2
  Budget = 4
  TailKept = 2
  KeepRecent = 1
  Compressors = {"c1"}
  LateCancels = FALSE
  Adapters = {"openai", "anthropic", "gemini"}
  SqueezeOverlaps = FALSE
  StreamsReport = TRUE
  MaxRetries = 3
  MaxCalls = 2
  MaxEvents = 2
  Calls = {1, 2, 3}
  Safe = {1, 2}
  Blocked = {}
  Payloads <- PayloadSet
  Workers = 2
  L2 = FALSE
  Modes = {"ask", "readonly"}
  MaxModeOps = 1
  SameModify = FALSE
  Kinds = {"stdio", "sse", "streamable"}
  Callers = {"c"}
  CallsOverlap = FALSE
  SlowWakeups = FALSE
  InitTries = 2
  MaxLinks = 3
  MaxAgain = 1
  MaxMcpFaults = 2
  Servers = {"m", "n"}
  EarlyReload = FALSE
  BadTarget = FALSE
  MaxServerOps = 4
  Pids = {1, 2}
  ProcCallers = {"a"}
  MaxSessions = 1
  MaxBirths = 2
  MaxGateways = 2
  ReuseListed = FALSE
  CleanRaces = FALSE
  Killable = {"k"}
  Sandboxed = {"s"}
  MaxChunks = 3
  EndCap = 1
  SpillAt = 1
  HardCap = 2
  Managers = {"a"}
  Sessions = {"s", "t"}
  MaxId = 2
  MaxHits = 2
  MaxTouches = 1
  MaxMemCrashes = 1
  Careless = FALSE
  Editors = {"e", "f"}
  FilePaths = {"a", "o"}
  Outside = {"o"}
  TextLines = {"x", "y"}
  TextLen = 2
  LargeFiles = FALSE
  PageCap = 2
  MaxFileOps = 2
  MaxFileFaults = 1
INVARIANTS
  AgentTypeOK
  NothingIsForgotten
  CallsAreAnswered
  ProcessesAreKept
CHECK_DEADLOCK FALSE
