CONSTANTS
    Blank = Blank
    w1 = w1
    w2 = w2
    Writers <- OneWriter
    N = 2
    MaxCalls = 2
    MaxChunks = 2
    MaxSignals = 0
    Env <- Stalls
SPECIFICATION FairSpec
CHECK_DEADLOCK FALSE
PROPERTY EveryWriteReturns
