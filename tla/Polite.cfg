CONSTANTS
    t1 = t1   t2 = t2   t3 = t3   h1 = h1
    http1 = http1   https1 = https1
    NoTask = NoTask   NoSite = NoSite
    Tasks = {t1, t2, t3}
    Hosts = {h1}
    Sites = {http1, https1}
    HostOf <- HostOfTwo
    Guarded = {http1}
    Obey = TRUE
    Delay = 2
SPECIFICATION LiveSpec
INVARIANTS
    PagesSpaced
    LockSound
    GuardRespected
PROPERTIES
    Served
