CONSTANTS
    c1 = c1
    c2 = c2
    b1 = b1
    b2 = b2
    Conns = {c1, c2}
    Buffers = {b1, b2}
    RxQueue = 1
    MaxHeld = 1
    MaxCqes = 1
    Setups <- MCSetups
SPECIFICATION FairSpec
\* The worker stops at the end of its shutdown.
CHECK_DEADLOCK FALSE
INVARIANTS BufferHasOneHome StarvedAreListed AcceptIsArmedOnce UnmapIsSafe
PROPERTIES Connections StopEndsTheWorker
