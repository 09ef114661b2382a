CONSTANTS
    w1 = w1
    w2 = w2
    r1 = r1
    f1 = f1
    f2 = f2
    f3 = f3
    Writers = {w1, w2}
    Readers = {r1}
    Files = {f1, f2, f3}
    None = None
    Versions <- MCVersions
    Size <- MCSize
    MaxLosses = 1
SPECIFICATION Spec
SYMMETRY Symmetry
INVARIANTS PublishedIsWhole HeaderLast MappedStaysWhole
