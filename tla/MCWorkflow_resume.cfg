CONSTANTS
    o1 = o1
    o2 = o2
    n1 = n1
    n2 = n2
    Options = {o1, o2}
    Snapshots = {n1, n2}
    Requests = 2
    MaxDeaths = 1
    MaxRules = 2
    MaxKills = 1
    MaxVerbs = 3
    MaxSwaps = 1
SPECIFICATION Spec
SYMMETRY Symmetry
INVARIANTS ReuseIsFresh TriageWhole VerdictsKept AnswersMatch
CHECK_DEADLOCK FALSE
