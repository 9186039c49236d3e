SPECIFICATION FairSpec
CONSTANTS
    Instances = {i1, i2}
    Convs = {c1}
    MaxAttempts = 1
    BatchSize = 1
    MaxBacklog = 1
    PromptEmit = TRUE
    PromptRound = TRUE
    MaxEvents = 2
    MaxFaults = 2
INVARIANTS
    TypeOK
    RepeatsAreExcused
PROPERTIES
    DeadLetterIsFinal
    EventsSettle
CHECK_DEADLOCK FALSE
