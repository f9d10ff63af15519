\* One run, as process_batch makes it; nobody dies.
SPECIFICATION Spec
CONSTANTS
    server = server   shell = shell
    g1 = g1   g2 = g2
    p1 = p1   p2 = p2   p3 = p3
    fine = fine   better = better   cut = cut   vague = vague   lost = lost   rough = rough
    Drafts = {fine, rough}
    Covers = {cover1}
    None = None
    Blank = Blank
    Lint <- MCLint
    Found <- ParkingGates
    Threads <- OneThread
    Guarded = {}
    Procs <- MCProcs
    ProcOf <- MCProcOf
    Viewer = server
    Pids <- Pid2
    MaxAttempts = 1
    MaxDeaths = 0
    MaxCount = 4
PROPERTIES
    FailureKeepsMarker
CHECK_DEADLOCK FALSE
