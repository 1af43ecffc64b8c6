CONSTANTS
    SlabCap = 2
    CodedSlack = 1
    MaxBody = 5
    Lengths = {0, 2, 3}
    Methods = {"GET", "HEAD"}
SPECIFICATION Spec
INVARIANTS WellFramed NoFalseEnd KeptIsComplete
