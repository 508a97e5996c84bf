CONSTANTS
    u1 = u1
    u2 = u2
    Callers = {u1, u2, probe}
    Probe = probe
    Nobody = Nobody
    Args <- MCArgs
    Counts = {0, 15}
    MaxChunks = 2
    Player = player
    Command = command
    Levels = {254}
    PoolSize = 2
    MaxOpens = 2
    MaxLoads = 2
    QueueLen = 3
    MaxFills = 4
    MaxFlushed = 1
    MaxInits = 2
SPECIFICATION MCSpec
CHECK_DEADLOCK FALSE
INVARIANTS TypesOK SerialExact DamageNeedsTwo PauseHolds VolumeFollowsKnob LeakIsUnsent EntriesAccounted
PROPERTIES CallsReturn AtomicVolume ResumeIsHeard ProgramEnds QuietOnceUp
