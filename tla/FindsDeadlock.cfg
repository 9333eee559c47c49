CONSTANTS
    a = a   b = b   c = c   w = w   x = x   s1 = s1   s2 = s2
    r1 = r1   r2 = r2   t1 = t1   t2 = t2   t3 = t3
    NoUrl = NoUrl   NoSeed = NoSeed   NoLimit = NoLimit
    Urls = {a, b, c}
    Seeds = {s1}
    Runs = {r1}
    Tasks = {t1, t2}
    RunOf <- PairOfOne
    SeedUrl <- OneSeedUrl
    Scope <- OneScope
    MaxDepth <- OneDepth
    Links <- CycleLinks
    MaxPages <- Unlimited
    FetchOutcomes <- PagesOnly
    Environment = {}
SPECIFICATION Spec
INVARIANTS
    WorkersNeverDeadlock
