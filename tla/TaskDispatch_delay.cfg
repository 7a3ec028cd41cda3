SPECIFICATION Spec
CONSTANTS
    Events = {e1}
    Templates = {t1}
    Handlers = {h1}
    Workers = {w1}
    Operators = {o1}
    BatchSize = 1
    ImmediateTimeoutRules = FALSE
    None = None
    MaxTasks = 4
    MaxRetries = 1
    MaxFailures = 0
INVARIANTS DelayedWaitsForDelay
CHECK_DEADLOCK FALSE
