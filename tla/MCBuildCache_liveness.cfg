CONSTANTS
    c1 = c1
    c2 = c2
    b1 = b1
    o1 = o1
    Clients = {c1, c2}
    Builders = {b1}
    Observers = {o1}
    Clearers = {}
    NoProc = NoProc
    Delegating = {c1}
    Silent = {c2}
    Lazy = {"xref"}
    MaxGen = 1
    MaxCrashes = 1
    MaxFaults = 1
    MaxTroubles = 1
    LockFileAtStart = FALSE
SPECIFICATION FairSpec
INVARIANT HeartbeatHonest
PROPERTIES ClientsServed BuildOutlivesClient
