SPECIFICATION Spec
CONSTANTS
    Events = {e1}
    Templates = {t1, t2}
    Handlers = {h1}
    Workers = {w1, w2}
    Operators = {o1, o2}
    BatchSize = 1
    ImmediateTimeoutRules = TRUE
    None = None
    MaxTasks = 4
    MaxRetries = 2
    MaxFailures = 1
SYMMETRY Symmetry
INVARIANTS TypeOK ResentOnlyAfterFailure
PROPERTIES OutcomeIsFinal
CHECK_DEADLOCK FALSE
