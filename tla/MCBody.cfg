CONSTANTS
    Heads <- MCHeads
    Sizes = {0, 1, 2}
    PipeCap = 2
    DrainMax = 2
    DrainBuf = 1
    TrailerMax = 2
    Reads = {1, 3}
    MaxQueue = 2
    MaxTokens = 6
SPECIFICATION FairSpec
INVARIANTS InStep OneReply
PROPERTIES PromiseKept Answered
