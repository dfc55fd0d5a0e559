SPECIFICATION Spec
CONSTANTS
    q1 = q1  q2 = q2
    None = None
    Requests = {q1}
    Failures = FALSE
    DbErrors = FALSE
    MaxCalls = 3
    MaxCrashes = 0
PROPERTY CreateKeepsTheRow
CHECK_DEADLOCK FALSE
