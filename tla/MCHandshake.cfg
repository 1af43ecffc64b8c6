CONSTANTS
    Hdr = 2
    MaxPlain = 2
    PlainMax = 3
    MaxRecords = 3
SPECIFICATION Spec
INVARIANTS InOrder
\* The connection is dropped or its input ends.
CHECK_DEADLOCK FALSE
