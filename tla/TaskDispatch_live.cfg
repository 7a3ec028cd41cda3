SPECIFICATION FairSpec
CONSTANTS
    Events = {e1, e2}
    Templates = {t1}
    Handlers = {h1}
    Workers = {w1}
    Operators = {o1}
    BatchSize = 1
    ImmediateTimeoutRules = TRUE
    None = None
    MaxTasks = 5
    MaxRetries = 1
    MaxFailures = 1
INVARIANTS NothingIsLost
PROPERTIES DueIsSent SentIsAttempted
CHECK_DEADLOCK FALSE
