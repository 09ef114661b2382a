CONSTANTS
    k1 = k1
    k2 = k2
    i1 = i1
    i2 = i2
    i3 = i3
    a1 = a1
    a2 = a2
    a3 = a3
    Keys = {k1, k2}
    Ids = {i1, i2, i3}
    Calls = {a1, a2, a3}
    NoKey = NoKey
SPECIFICATION Spec
SYMMETRY Symmetry
INVARIANTS NamesAreOpen NothingLeaks
