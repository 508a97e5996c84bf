CONSTANTS
    Blank = Blank
    w1 = w1
    w2 = w2
    Writers <- TwoWriters
    N = 2
    MaxCalls = 1
    MaxChunks = 2
    MaxSignals = 1
    Env <- NoTransferFault
SPECIFICATION Spec
CHECK_DEADLOCK FALSE
SYMMETRY Symmetry
INVARIANTS TypeOK Conservation EachChunkOnce WholeChunksUnmixed OneLateBlock
