SPECIFICATION Spec
CONSTANTS
    Threads = {t1, t2}
    Topics = {c1, q1}
    Scope = {c1}
    Conversations = {c1}
    Keyed = {c1, q1}
    QueueMax = 2
    BacklogMax = 2
    Expiry = TRUE
    MaxEvents = 4
    MaxConns = 2
    MaxRestarts = 1
INVARIANT PressureIsTold
SYMMETRY ThreadSymmetry
CHECK_DEADLOCK FALSE
