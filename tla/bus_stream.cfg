SPECIFICATION FairSpec
CONSTANTS
    Threads = {t1}
    Topics = {c1}
    Scope = {c1}
    Conversations = {c1}
    Keyed = {c1}
    QueueMax = 5
    BacklogMax = 2
    Expiry = FALSE
    MaxEvents = 4
    MaxConns = 2
    MaxRestarts = 0
INVARIANTS
    TypeOK
    NoSilentLoss
    DeliveredInOrder
 
CHECK_DEADLOCK FALSE
