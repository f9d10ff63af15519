\* Stage 2 in one slot, one operator at a time who may die half-way.
SPECIFICATION LcpSpec
CONSTANTS
    server = server
    p1 = p1
    g1 = g1
    o1 = o1
    fine = fine   better = better   vague = vague
    Drafts = {fine, vague}
    Covers = {cover1}
    None = None
    Blank = Blank
    Lint <- MCLint
    Sound = {fine}
    Partial = Partial
    Found <- Hold
    Threads = {g1}
    Guarded = {g1}
    Procs = {server}
    ProcOf <- MCProcOf
    Viewer = server
    Pids = {p1}
    MaxAttempts = 1
    MaxDeaths = 1
    MaxCount = 1
    Operators = {o1}
    MaxCrashes = 1
VIEW Unsaid
INVARIANTS
    SignedIsStored
PROPERTIES
    ReviewedIsFrozen
    ReviewKeepsArtifact
CHECK_DEADLOCK FALSE
