CONSTANTS
    websites = websites  server = server
    Panel = Panel
    Sched = Sched
    Names = {websites, server}
    None = None
    Hour <- FirstAndSecond
    Gap = 2
    Day = 3
    Jobs <- ThreeScans
    Regimes <- MCRegimes
SPECIFICATION FairSpec
INVARIANT TypeOK
PROPERTIES NothingForgotten JobsSettle
CHECK_DEADLOCK FALSE
