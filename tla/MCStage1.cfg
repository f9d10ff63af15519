\* A crawl or an ingest of the server and a crawl of the shell; one of them may die.
SPECIFICATION Spec
CONSTANTS
    g1 = g1   c1 = c1   l1 = l1   f1 = f1
    whole = whole   half = half   nothing = nothing
    Crawlers = {g1, c1, l1}
    Feeds = {f1}
    Local = {l1}
    Guarded = {g1, l1}
    Contents = {whole, half, nothing}
    Status <- MCStatus
    None = None
    MaxCrashes = 1
INVARIANTS
    Stage1TypeOK
    BundleIsWhole
    StateMatchesHash
    GossipSourceKept
PROPERTIES
    CrawledIsKept
CHECK_DEADLOCK FALSE
