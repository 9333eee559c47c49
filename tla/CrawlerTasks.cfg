CONSTANTS
    a = a   b = b   c = c   w = w   x = x   s1 = s1   s2 = s2
    r1 = r1   r2 = r2   t1 = t1   t2 = t2   t3 = t3
    NoUrl = NoUrl   NoSeed = NoSeed   NoLimit = NoLimit
    Urls = {a, b, c, w, x}
    Seeds = {s1}
    Runs = {r1}
    Tasks = {t1, t2, t3}
    RunOf <- TripleOfOne
    SeedUrl <- OneSeedUrl
    Scope <- DiamondScope
    MaxDepth <- OneDepth
    Links <- DiamondLinks
    MaxPages <- Unlimited
    FetchOutcomes <- AnyOutcome
    Environment = {"kill"}
SPECIFICATION Spec
INVARIANTS
    TypeOK
    Provenance
    Drained
PROPERTIES
    ImplementsFrontier
