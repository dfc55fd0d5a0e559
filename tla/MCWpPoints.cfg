CONSTANTS
    t1 = t1  p1 = p1  r1 = r1  s1 = s1
    Tasks = {t1}
    Pushes = {p1}
    Readers = {r1}
    Switches = {s1}
    KeepPoints = 2
    MaxPoints = 3
    MaxEvents = 1
    Failures = TRUE
SPECIFICATION Spec
INVARIANTS TypeOK UpdateIsCovered
PROPERTY KeepsTheNewest
