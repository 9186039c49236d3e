SPECIFICATION Spec
CONSTANTS
  NoItem = NoItem
  Items = {i1, i2, i3}
  Clients = {c1}
  Dispatchers = {"loop", "worker"}
  MaxActive = 3
  MaxSteering = 1
  MaxOps = 2
  ClientCommits = TRUE
SYMMETRY QueueSymmetry
INVARIANTS TypeOK OneActiveTurn StaleClientRefused
CHECK_DEADLOCK FALSE
