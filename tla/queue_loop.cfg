SPECIFICATION FairSpec
CONSTANTS
  NoItem = NoItem
  Items = {i1, i2}
  Clients = {c1}
  Dispatchers = {"loop"}
  MaxActive = 3
  MaxSteering = 1
  MaxOps = 3
  ClientCommits = FALSE
INVARIANTS PositionsDistinct HandedOnce HandedIsLatest
PROPERTIES QueueIsMailbox QueueDrains
CHECK_DEADLOCK FALSE
