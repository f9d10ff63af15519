CONSTANTS
    r1 = r1
    r2 = r2
    weibo = weibo
    baidu = baidu
    t1 = t1
    t2 = t2
    t3 = t3
    k1 = k1
    k2 = k2
    gossip = gossip
    sports = sports
    f1 = f1
    f2 = f2
    f3 = f3
    f4 = f4
    None = None
    Torn = Torn
    Runs = {r1, r2}
    Files = {f1, f2, f3, f4}
    Platforms <- MCPlatforms
    Boards <- MCBoards
    Alike <- MCAlike
    KeyOf <- MCKeyOf
    CategoryOf <- MCCategoryOf
    Drama <- MCDrama
    Options <- MCOptions
    MaxAge = 1
    MaxStarts = 3
    MaxDeaths = 1
    MaxTime = 1
    Writers = {r1, r2}
    Scrapers = {weibo, baidu}
    Nobody = None
    Window = 0
    MinSamples = 2
    MaxRecords = 1
    MaxFetches = 3
    MaxKills = 1
    MaxClock = 1
SPECIFICATION MCSpec
INVARIANTS
    
    HistoryIsARun
    NothingFetchedIsLost

    
VIEW NoSnapshots
SYMMETRY MCPermutations
CHECK_DEADLOCK FALSE
