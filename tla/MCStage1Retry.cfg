\* One crawl; no parent dies.
SPECIFICATION Spec
CONSTANTS
    g1 = g1   c1 = c1   l1 = l1   f1 = f1
    whole = whole   half = half   nothing = nothing
    Crawlers = {g1}
    Feeds = {}
    Local = {}
    Guarded = {g1}
    Contents = {whole, nothing}
    Status <- MCStatus
    None = None
    MaxCrashes = 0
INVARIANTS
    CrawlFailedWroteNothing
CHECK_DEADLOCK FALSE
