CONSTANTS
    SlabCap = 2
    CodedSlack = 1
    MaxBody = 3
    Lengths = {0, 2, 3}
    Methods = {"GET", "HEAD"}
SPECIFICATION Spec
INVARIANT NothingBehindHead
