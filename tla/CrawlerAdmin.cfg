CONSTANTS
    a = a   b = b   c = c   w = w   x = x   s1 = s1   s2 = s2
    r1 = r1   r2 = r2   t1 = t1   t2 = t2   t3 = t3
    NoUrl = NoUrl   NoSeed = NoSeed   NoLimit = NoLimit
    Urls = {a, b, c}
    Seeds = {s1, s2}
    Runs = {r1, r2}
    Tasks = {t1, t2}
    RunOf <- OneEach
    SeedUrl <- TwoSeedUrl
    Scope <- TwoScope
    MaxDepth <- TwoDepth
    Links <- CycleLinks
    MaxPages <- Unlimited
    FetchOutcomes <- PagesOnly
    Environment = {"add", "toggle", "delete"}
SPECIFICATION Spec
INVARIANTS
    WritesFitTable
    SeedsExist
    WithinSeed
