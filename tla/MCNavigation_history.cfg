CONSTANTS
    d1 = d1
    d2 = d2
    r1 = r1
    r2 = r2
    l1 = l1
    l2 = l2
    Files = {d1, d2}
    Records = {r1, r2}
    Loads = {l1, l2}
    None = None
    MaxHist = 3
SPECIFICATION Spec
SYMMETRY Symmetry
INVARIANTS CursorNamesShown LastChoiceWins NothingLeadsToClosed
