-------------------------------- MODULE MCChip --------------------------------
(***************************************************************************)
(* What surrounds the chip and its transmit path (which has runs of its    *)
(* own): the driver's control path under three callers, the program        *)
(* ioctl_vol_ctrl on the register which that path implements, the life of  *)
(* the driver, and the buffer queue of the older driver.  They share no    *)
(* state, so that a behaviour checks one of them, its subject, while the   *)
(* others are at rest: not loaded, not called, ended.                      *)
(***************************************************************************)
EXTENDS Vs10xxControl, Integers, TLC

CONSTANTS u1, u2,
    Counts, MaxChunks, Player, Command, Levels,         \* the program
    PoolSize, MaxOpens, MaxLoads,                       \* the driver's life
    QueueLen, MaxFills, MaxFlushed, MaxInits            \* the older queue

VARIABLES
    subject,
    main, left, keep, paused, woken, thread, now, click, last, late,
    value, busy, wanted, trust, setter,
    place, held, drivers, found, ctrl, data, reset, line, queues, stock,
    queued, memory, unsent, opens, loads, fault,
    pool, list, len, body, free, valid, inits, fills, flushed

Play == INSTANCE VolumeControl
Life == INSTANCE Vs10xxLifecycle WITH pc <- place, probed <- found, dreq <- line
Queue == INSTANCE Vs1003Queue WITH data <- list

\* What the parts take for granted of their constants.
ASSUME ChipAssumption ==
    /\ Play!CountsAssumption /\ Play!ChunksAssumption /\ Play!CommandAssumption
    /\ Life!BoundsAssumption
    /\ Queue!QueueLenAssumption /\ Queue!BoundsAssumption

\* 90000 has a bit above the two bytes of the levels.
MCArgs == u1 :> {25700} @@ u2 :> {90000}

playing == <<main, left, keep, paused, woken, thread, now, click, last, late,
             value, busy, wanted, trust, setter>>
life == <<place, held, drivers, found, ctrl, data, reset, line, queues, stock,
          queued, memory, unsent, opens, loads, fault>>
queue == <<pool, list, len, body, free, valid, inits, fills, flushed>>
MCvars == <<subject, vars, playing, life, queue>>

MCInit ==
    /\ subject \in {"control", "program", "life", "queue"}
    /\ Init /\ Life!Init /\ Queue!Init
    /\ \/ subject = "program" /\ Play!SystemInit
       \/ /\ subject # "program"
          /\ main = "done" /\ left = 0 /\ thread = "gone"
          /\ keep = FALSE /\ paused = FALSE /\ woken = FALSE
          /\ now = -1 /\ last = -1 /\ click = FALSE /\ late = 0
          /\ Play!Driver!Init /\ setter = Command

MCNext ==
    /\ UNCHANGED subject
    /\ \/ subject = "control" /\ Next /\ UNCHANGED <<playing, life, queue>>
       \/ subject = "program" /\ Play!SystemNext /\ UNCHANGED <<vars, life, queue>>
       \/ subject = "life" /\ Life!Next /\ UNCHANGED <<vars, playing, queue>>
       \/ subject = "queue" /\ Queue!Next /\ UNCHANGED <<vars, playing, life>>

MCSpec == MCInit /\ [][MCNext]_MCvars /\ Fairness /\ Play!Fairness

\* Every variable of the subject has its type.
TypesOK ==
    /\ subject = "control" => TypeOK
    /\ subject = "program" => Play!TypeOK
    /\ subject = "life" => Life!TypeOK
    /\ subject = "queue" => Queue!TypeOK

PauseHolds == Play!PauseHolds
VolumeFollowsKnob == Play!VolumeFollowsKnob
ResumeIsHeard == Play!ResumeIsHeard
ProgramEnds == Play!ProgramEnds
QuietOnceUp == Life!QuietOnceUp
LeakIsUnsent == Life!LeakIsUnsent
EntriesAccounted == Queue!EntriesAccounted
=============================================================================
