CONSTANTS
    p1 = p1
    p2 = p2
    NoProc = NoProc
    s1 = s1
    s2 = s2
    top = top
    deep = deep
    root = root
    sub = sub
    Procs = {p1, p2}
    Strings = {s1, s2}
    Curves = {top, deep}
    Root = root
    Subs = {sub}
    Order <- MCOrder
    Home <- MCHome
    MaxChanges = 5
SPECIFICATION Spec
SYMMETRY Symmetry
INVARIANTS CurrentStringsAreTrue AddedIsSeen
