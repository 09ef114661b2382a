CONSTANTS
    c1 = c1
    c2 = c2
    k1 = k1
    Clients = {c1, c2}
    Builders = {}
    Observers = {}
    Clearers = {k1}
    NoProc = NoProc
    Delegating = {}
    Silent = {}
    Lazy = {"xref"}
    MaxGen = 2
    MaxCrashes = 1
    MaxFaults = 1
    MaxTroubles = 2
    LockFileAtStart = TRUE
SPECIFICATION Spec
SYMMETRY Symmetry
INVARIANTS LeaseExclusive NoRedundantBuild RemapSucceeds ViewCoherent
PROPERTY StoreSpec
