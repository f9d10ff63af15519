\* One server takes every run; two of its threads may be told to start one.
SPECIFICATION Spec
CONSTANTS
    server = server   shell = shell
    g1 = g1   g2 = g2
    p1 = p1   p2 = p2   p3 = p3
    fine = fine   better = better   cut = cut   vague = vague   lost = lost   rough = rough
    Drafts = {fine, rough}
    Covers = {}
    None = None
    Blank = Blank
    Lint <- MCLint
    Found <- TwoGates
    Threads <- ServerThreads
    Guarded <- ServerThreads
    Procs <- MCProcs
    ProcOf <- MCProcOf
    Viewer = shell
    Pids <- Pid3
    MaxAttempts = 1
    MaxDeaths = 2
    MaxCount = 4
SYMMETRY Symmetries
INVARIANTS
    Stage2TypeOK
    CountIsExact
    ProcessedDraftIsClean
PROPERTIES
    DraftFrozen
    SparesTheLiving
CHECK_DEADLOCK FALSE
