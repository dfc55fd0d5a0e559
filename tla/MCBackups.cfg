CONSTANTS
    u1 = u1  s1 = s1  s2 = s2  w1 = w1
    Users = {u1}
    Schedules = {s1, s2}
    Plans <- AwayAndHere
    Timer = Timer
    Workers = {w1}
    Nobody = Nobody
    MaxNow = 2
    SecondsPerDay = 2
    MaxJobs = 2
    JobLimit = 1
    MaxEvents = 3
    Faults = TRUE
SPECIFICATION BackupsSpec
INVARIANTS BackupsTypeOK RunningIsRun
PROPERTIES CopyStays OkIsFresh
CHECK_DEADLOCK FALSE
