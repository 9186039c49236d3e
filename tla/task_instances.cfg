SPECIFICATION Spec
CONSTANTS
    Procs = {p1, p2}
    Workers = {w1, w2}
    Tasks = {1}
    Sessions = {"s1"}
    SessionOf <- OneSession
    Durable = {1}
    Plans = {1}
    Waited = {}
    MaxAttempts = 2
    MaxCancels = 1
    MaxStarts = 3
    MayCrash = TRUE
INVARIANT RunsOnce
PROPERTY EndedTaskStays
SYMMETRY Interchangeable
CHECK_DEADLOCK FALSE
