CONSTANTS
    c1 = c1
    c2 = c2
    o1 = o1
    k1 = k1
    Clients = {c1, c2}
    Builders = {}
    Observers = {}
    Clearers = {}
    NoProc = NoProc
    Delegating = {}
    Silent = {}
    Lazy = {"xref"}
    MaxGen = 2
    MaxCrashes = 0
    MaxFaults = 0
    MaxTroubles = 0
    LockFileAtStart = TRUE
SPECIFICATION Spec
INVARIANT StampTruth
