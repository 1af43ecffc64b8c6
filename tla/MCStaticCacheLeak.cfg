CONSTANTS
    Reqs = {r1}
    Files = {f1}
    Entries = {e1, e2}
    None = None
    Sizes = {1, 2}
    FileMax = 2
    Budget = 1
    Revalidate = 0
    MaxVersion = 2
    MaxTime = 0
SPECIFICATION Spec
INVARIANT ServedOnceAndFreed
