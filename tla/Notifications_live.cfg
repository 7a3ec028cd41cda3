SPECIFICATION FairSpec
CONSTANTS
    Notes = {n1}
    Actionable = {n1}
    Tabs = {t1}
    NoNote = NoNote
    MaxRequests = 2
    MaxDrops = 1
    MaxFailures = 1
INVARIANTS FirstAckOnly CompletedMeansAnswered ShownReadIsRead
PROPERTIES PendingIsAcknowledged MissedIsReplayed AnsweredIsCompleted
CHECK_DEADLOCK FALSE
