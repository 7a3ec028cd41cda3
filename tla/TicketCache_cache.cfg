SPECIFICATION FairSpec
CONSTANTS
    Readers = {r1}
    Writers = {w1, w2}
    MaxChanges = 2
    MaxFailures = 1
    None = None
INVARIANTS StaleOnlyIfCrossed AnswersShowWhatWasTold
PROPERTIES Converges
