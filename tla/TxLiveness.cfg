CONSTANTS
    Blank = Blank
    w1 = w1
    w2 = w2
    Writers <- TwoWriters
    N = 3
    MaxCalls = 1
    MaxChunks = 2
    MaxSignals = 0
    Env <- Transfers
SPECIFICATION FairSpec
CHECK_DEADLOCK FALSE
INVARIANTS NoLostWakeup SomeoneDrains
PROPERTIES EveryWriteReturns BacklogDrains
