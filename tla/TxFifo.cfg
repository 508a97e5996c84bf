CONSTANTS
    Blank = Blank
    w1 = w1
    w2 = w2
    Writers <- OneWriter
    N = 2
    MaxCalls = 3
    MaxChunks = 2
    MaxSignals = 1
    Env <- NoControl
SPECIFICATION Spec
CHECK_DEADLOCK FALSE
PROPERTIES FifoChannel
