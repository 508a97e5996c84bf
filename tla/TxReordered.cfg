CONSTANTS
    Blank = Blank
    w1 = w1
    w2 = w2
    Writers <- TwoWriters
    N = 2
    MaxCalls = 1
    MaxChunks = 1
    MaxSignals = 0
    Env <- Undisturbed
SPECIFICATION Spec
CHECK_DEADLOCK FALSE
PROPERTY FifoChannel
