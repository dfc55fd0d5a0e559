SPECIFICATION Spec
CONSTANTS
    q1 = q1  q2 = q2
    None = None
    Requests = {q1, q2}
    Failures = TRUE
    DbErrors = TRUE
    MaxCalls = 8
    MaxCrashes = 2
INVARIANTS TypeOK RowsAgree DoneIsTrue NoOrphans
SYMMETRY Symmetry
CHECK_DEADLOCK FALSE
