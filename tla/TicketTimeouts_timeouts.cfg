SPECIFICATION FairSpec
CONSTANTS
    Signals = {s1, s2, s3, s4}
    Requests = {r1, r2}
    Sweepers = {w1, w2}
    NoSignal = NoSignal
    SeedStatuses = {"CLOSED"}
    MaxVersion = 4
    MaxFailures = 1
INVARIANTS TypeOK AnsweredDeadlinesAreQuiet OneSignalPerPoint OpenDeadlinesAreWatched
PROPERTIES CancellationIsFinal DueIsHandled MissedResponseIsReported
CHECK_DEADLOCK FALSE
