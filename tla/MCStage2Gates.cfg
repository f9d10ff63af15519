\* One run at a time: every finding that holds the job or ends it.
SPECIFICATION FairSpec
CONSTANTS
    server = server   shell = shell
    g1 = g1   g2 = g2
    p1 = p1   p2 = p2   p3 = p3
    fine = fine   better = better   cut = cut   vague = vague   lost = lost   rough = rough
    Drafts = {fine, cut, vague, lost}
    Covers = {}
    None = None
    Blank = Blank
    Lint <- MCLint
    Found <- Naming
    Threads <- OneThread
    Guarded <- OneThread
    Procs <- OneProc
    ProcOf <- MCProcOf
    Viewer = server
    Pids <- Pid1
    MaxAttempts = 1
    MaxDeaths = 1
    MaxCount = 2
INVARIANTS
    ParkedHasEvidence
PROPERTIES
    RunsEnd
CHECK_DEADLOCK FALSE
