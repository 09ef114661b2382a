CONSTANTS
    t1 = t1
    t2 = t2
    f1 = f1
    Threads = {t1, t2}
    Keys = {f1}
    OpensOnRun = FALSE
    MaxGen = 3
    MaxOpens = 3
SPECIFICATION Spec
SYMMETRY Symmetry
INVARIANT StampNotAhead
PROPERTIES NeverBackwards ClosedStaysClosed
