SPECIFICATION FairSpec
CONSTANTS
    Timer = Timer
    Panel = Panel
    Procs = {Timer, Panel}
    None = None
    Regimes <- MCRegimes
INVARIANTS TypeOK CursorCovered
PROPERTY OnHeals
CHECK_DEADLOCK FALSE
