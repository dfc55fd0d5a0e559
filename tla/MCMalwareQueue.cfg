SPECIFICATION FairSpec
CONSTANTS
    p1 = p1  q1 = q1  q2 = q2  w1 = w1  w2 = w2
    None = None
    MaxUploads = 3
    Paths = {p1}
    Requests = {q1, q2}
    Workers = {w1, w2}
    MaxPending = 1
    History = 2
    MaxRestarts = 1
    Failures = TRUE
INVARIANTS TypeOK Accounted OneScanner NeverCalledClean
PROPERTIES CleanStays EveryUploadSettles
CHECK_DEADLOCK FALSE
