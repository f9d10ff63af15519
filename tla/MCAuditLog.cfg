\* Calls at once, of one job or two; one write may stop short, and any call may die.
SPECIFICATION DashSpec
CONSTANTS
    w1 = w1   w2 = w2
    j1 = j1   j2 = j2
    Writers = {w1, w2}
    Jobs = {j1, j2}
    Events <- MCEvents
    Torn = Torn
    Nobody = Nobody
    MaxLines = 5
    MaxTears = 1
    MaxCalls = 3
SYMMETRY Symmetries
VIEW InUse
CONSTRAINT InTime
INVARIANTS
    DashTypeOK
    ChainVerifies
    FunnelIsTrue
    GapsAreOfOneRun
CHECK_DEADLOCK FALSE
