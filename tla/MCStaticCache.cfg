CONSTANTS
    Reqs = {r1, r2}
    Files = {f1}
    Entries = {e1, e2, e3, e4}
    None = None
    Sizes = {1, 2, 3}
    FileMax = 2
    Budget = 2
    Revalidate = 2
    MaxVersion = 2
    MaxTime = 4
SPECIFICATION Spec
SYMMETRY Symmetry
INVARIANTS BudgetIsKept SendsReadLiveEntries ServedInTime
