CONSTANTS
    a = a   b = b   c = c   worker = worker   web = web
    NoLimit = NoLimit
    Urls = {a, b, c}
    Seeds = {a, c}
    Finds <- SomeFinds
    Loop = worker
    Crawls = {web}
    Rankings = {hand}
    Cap <- CapWeb
    Concurrency = 2
    MaxFailures = 1
    MaxEdits = 1
SPECIFICATION LiveSpec
INVARIANTS
    LeftBehind
PROPERTIES
    SharesFrontier
    EventuallyCrawled
    EventuallyRanked
    SeedsReached
