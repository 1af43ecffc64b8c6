CONSTANTS
    DEPTH = 3
    Cap = 3
    Sizes = {1, 5}
SPECIFICATION JsonSpec
\* A writer that failed does nothing more.
CHECK_DEADLOCK FALSE
INVARIANT WritesJson
PROPERTY FailedIsFinal
