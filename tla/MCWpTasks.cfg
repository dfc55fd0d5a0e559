CONSTANTS
    live1 = live1  stage1 = stage1  s1 = s1  s2 = s2
    w1 = w1  w2 = w2  c1 = c1  c2 = c2  v1 = v1  v2 = v2
    None = None
    Installs = {live1, stage1}
    Sites = {}
    Workers = {w1, w2}
    Clients = {c1}
    Viewers = {v1}
    LiveOf <- MCLiveOf
    Requests <- MixedRequests
    Keep = 1
    MaxId = 2
    MaxRestarts = 1
    MaxPurges = 1
    DbErrors = TRUE
SPECIFICATION FairSpec
INVARIANTS TypeOK OneTaskPerInstall LiveMatchesPool RunsOnce
PROPERTIES TasksTakeTurns TasksSettle
