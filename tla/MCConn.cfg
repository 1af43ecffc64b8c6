CONSTANTS
    RxQueue = 2
    MaxCqes = 2
    CancelAny = FALSE
SPECIFICATION FairSpec
INVARIANTS OneRecvOp RefsCountOwners CancelMatchesFlag ClosedRecvEnds ParkedReaderIsWoken
PROPERTIES ClosedIsRecycled PauseCompletes
