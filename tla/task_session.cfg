SPECIFICATION FairSpec
CONSTANTS
    Procs = {p1}
    Workers = {w1, w2}
    Tasks = {1, 2}
    Sessions = {"s1"}
    SessionOf <- OneSession
    Durable = {}
    Plans = {}
    Waited = {1}
    MaxAttempts = 2
    MaxCancels = 0
    MaxStarts = 1
    MayCrash = FALSE
INVARIANTS
    TypeOK
    OneActivePerSession
    WaitersAnswered
PROPERTY TasksEnd
CHECK_DEADLOCK FALSE
