CONSTANTS
    live1 = live1  stage1 = stage1  s1 = s1  s2 = s2
    w1 = w1  w2 = w2  c1 = c1  c2 = c2  v1 = v1  v2 = v2
    None = None
    Installs = {live1, stage1}
    Sites = {s1, s2}
    Workers = {w1, w2}
    LiveOf <- MCLiveOf
    Clients = {c1}
    Viewers = {v1}
    Requests <- PushRequests
    Keep = 400
    MaxId = 2
    MaxRestarts = 0
    MaxPurges = 0
    DbErrors = FALSE
SPECIFICATION Spec
INVARIANT OneChangePerWordPress
