CONSTANTS
    None = None
    Names = {a, b}
    Owners = {o1, o2}
    Procs = {p1, p2}
    MaxRequests = 3
CONSTRAINT SomeSound
ACTION_CONSTRAINT TwoParts
SYMMETRY Symmetry
SPECIFICATION Spec
INVARIANTS TypeOK ServedAsRecorded NothingLeft NoDanglingCert
PROPERTY SuspendedStaysOff
CHECK_DEADLOCK FALSE
