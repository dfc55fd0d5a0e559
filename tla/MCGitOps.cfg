CONSTANTS
    r1 = r1  r2 = r2  s1 = s1  s2 = s2  w1 = w1  w2 = w2  v1 = v1  d1 = d1
    Repos = {r1, r2}
    Starters = {s1, s2}
    Workers = {w1, w2}
    Viewers = {v1}
    PageOf <- FirstsPage
    Removers = {d1}
    None = None
    Keep = 1
    MaxOps = 2
    MaxRestarts = 1
    MaxDeletes = 1
    DbErrors = TRUE
CHECK_DEADLOCK FALSE
SPECIFICATION FairSpec
INVARIANTS TypeOK BusyHasOneOwner OneRunningRow
PROPERTIES OneOperationAtATime ReadyWasSetUp RowsSettle
