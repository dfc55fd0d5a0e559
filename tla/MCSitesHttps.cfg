CONSTANTS
    None = None
    Names = {a, b}
    Owners = {o1, o2}
    Procs = {p1, p2}
    MaxRequests = 2
SYMMETRY Symmetry
SPECIFICATION Spec
INVARIANT HttpsIsServed
CHECK_DEADLOCK FALSE
