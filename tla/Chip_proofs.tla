------------------------------ MODULE Chip_proofs ------------------------------
(***************************************************************************)
(* What MCChip checks on an instance, for every value of the constants:    *)
(* the life of the vs10xx driver, the program ioctl_vol_ctrl on the volume *)
(* register and the older driver's buffer queue.  The control path has its *)
(* proofs in Vs10xxControl_proofs.                                         *)
(*                                                                         *)
(* A behaviour of MCSpec is one of each part: of the subject, or one that  *)
(* stands still.  What a part promises is proved of its own specification. *)
(***************************************************************************)
EXTENDS MCChip, Vs10xxControl_proofs

\* The parts that start in their own initial states.
LEMMA Parts == MCSpec => Spec /\ Life!Spec /\ Queue!Spec
<1>1. MCInit => Init /\ Life!Init /\ Queue!Init
  BY DEF MCInit
<1>2. [MCNext]_MCvars => [Next]_vars
  BY DEF MCNext, MCvars
<1>3. [MCNext]_MCvars => [Life!Next]_(Life!vars)
  BY DEF MCNext, MCvars, life, Life!vars, Life!buffers
<1>4. [MCNext]_MCvars => [Queue!Next]_(Queue!vars)
  BY DEF MCNext, MCvars, queue, Queue!vars
<1> QED
  BY <1>1, <1>2, <1>3, <1>4, PTL DEF MCSpec, Spec, Life!Spec, Queue!Spec

-----------------------------------------------------------------------------
(* The driver's life.                                                      *)

\* The control probe notes the SPI device before it looks for the GPIO of
\* DREQ, so that nobody finds DREQ high before there is an spi_ctrl.  A buffer
\* is in one of the two queues until it is freed.  The unloading starts with
\* the device closed and takes one thing after the other.
Reached == {"exit_cdev", "exit_queues", "exit_class", "exit_region"}

LifeInv ==
    /\ Life!TypeOK
    /\ line # "null" => ctrl
    /\ memory = stock + queued + unsent
    /\ queues = "unset" => stock = 0 /\ queued = 0
    /\ place \in {"out", "class", "cdev", "device", "queues"} => queues = "unset"
    /\ place \in Life!Undoings => opens = 0
    /\ place \in {"exit_class", "exit_region"} => stock = 0
    /\ place \notin {"data", "loaded", "exit_data"} => drivers = {}
    /\ place = "exit_data" => "ctrl" \notin drivers
    /\ place = "out" => held = {}
    /\ place = "class" => held = {"region"}
    /\ place \in Reached => "device" \notin held
    /\ place \in Reached \ {"exit_cdev"} => "cdev" \notin held
    /\ place = "exit_region" => "class" \notin held

LEMMA Bounds == PoolSize \in Nat /\ MaxOpens \in Nat /\ MaxLoads \in Nat
BY ChipAssumption DEF Life!BoundsAssumption

LEMMA InitLife == Life!Init => LifeInv
<1>1. Life!Init => opens \in 0 .. MaxOpens /\ loads \in 0 .. MaxLoads
  BY Bounds DEF Life!Init
<1>2. Life!Init => Life!TypeOK
  <2>1. Life!Init => place \in Life!Places
    BY DEF Life!Init, Life!Places
  <2>2. Life!Init => fault \in BOOLEAN /\ ctrl \in BOOLEAN /\ data \in BOOLEAN
    BY DEF Life!Init
  <2> QED
    BY <1>1, <2>1, <2>2 DEF Life!Init, Life!TypeOK
<1> QED
  BY <1>2 DEF Life!Init, LifeInv, Life!Undoings, Reached

\* The steps of vs10xx_init.
LEMMA LoadingKeepsLife ==
    ASSUME LifeInv,
           \/ Life!Load \/ Life!CreateClass \/ Life!AddCdev \/ Life!CreateDevice
           \/ Life!InitQueues
           \/ Life!Register("ctrl", "data") \/ Life!Register("data", "loaded")
    PROVE  LifeInv'
<1> USE DEF LifeInv, Life!TypeOK, Life!chip, Life!Others, Life!Lists,
            Life!buffers, Life!Places, Life!Undoings, Reached
<1>1. CASE Life!Load
  <2>1. loads' \in 0 .. MaxLoads
    BY <1>1, Bounds DEF Life!Load
  <2> QED
    BY <1>1, <2>1 DEF Life!Load
<1>2. CASE Life!CreateClass
  BY <1>2 DEF Life!CreateClass
<1>3. CASE Life!AddCdev
  BY <1>3 DEF Life!AddCdev
<1>4. CASE Life!CreateDevice
  BY <1>4 DEF Life!CreateDevice
<1>5. CASE Life!InitQueues
  BY <1>5, Bounds DEF Life!InitQueues
<1>6. CASE Life!Register("ctrl", "data")
  BY <1>6 DEF Life!Register
<1>7. CASE Life!Register("data", "loaded")
  BY <1>7 DEF Life!Register
<1> QED
  BY <1>1, <1>2, <1>3, <1>4, <1>5, <1>6, <1>7

\* A register is accessed only over an spi_ctrl that is set.
LEMMA AccessIsSafe == ASSUME LifeInv, Life!Access PROVE fault' = FALSE
BY DEF LifeInv, Life!TypeOK, Life!Access, Life!Answers

\* A write hands buffers from one queue to the other and back.
LEMMA WriteKeepsBuffers ==
    ASSUME LifeInv, Life!Write
    PROVE  /\ stock' \in Nat /\ queued' \in Nat /\ fault' \in BOOLEAN
           /\ stock' + queued' = stock + queued
           /\ queues = "unset" => stock' = stock /\ queued' = queued
<1>1. stock \in Nat /\ queued \in Nat /\ fault \in BOOLEAN
  BY DEF LifeInv, Life!TypeOK
<1>2. CASE queues = "unset" /\ fault' = TRUE /\ UNCHANGED <<stock, queued>>
  BY <1>1, <1>2
<1>3. ASSUME queues = "set", NEW n \in 0 .. stock, Life!Fill(n)
      PROVE  /\ stock' \in Nat /\ queued' \in Nat /\ fault' \in BOOLEAN
             /\ stock' + queued' = stock + queued
  BY <1>1, <1>3 DEF Life!Fill
<1>4. ASSUME queues = "set", NEW n \in 0 .. stock, NEW k \in 0 .. queued + n,
             Life!FillAndSend(n, k)
      PROVE  /\ stock' \in Nat /\ queued' \in Nat /\ fault' \in BOOLEAN
             /\ stock' + queued' = stock + queued
  <2>1. fault' \in BOOLEAN
    BY <1>4 DEF Life!FillAndSend
  <2> QED
    BY <1>1, <1>4, <2>1 DEF Life!FillAndSend
<1> QED
  BY <1>2, <1>3, <1>4 DEF Life!Write

\* The steps of vs10xx_exit.
LEMMA ExitKeepsLife == ASSUME LifeInv, Life!Exit PROVE LifeInv'
<1> USE DEF LifeInv, Life!TypeOK, Life!chip, Life!Others, Life!Lists,
            Life!buffers, Life!Places, Life!Undoings, Reached
<1>1. CASE Life!Unload
  BY <1>1 DEF Life!Unload, Life!Unregister
<1>2. CASE Life!Unregister("data", "exit_data", "exit_device")
  BY <1>2 DEF Life!Unregister
<1>3. CASE Life!Undo("device", "exit_device", "exit_cdev")
  BY <1>3 DEF Life!Undo
<1>4. CASE Life!Undo("cdev", "exit_cdev", "exit_queues")
  BY <1>4 DEF Life!Undo
<1>5. CASE Life!FreeQueues
  BY <1>5 DEF Life!FreeQueues
<1>6. CASE Life!Undo("class", "exit_class", "exit_region")
  BY <1>6 DEF Life!Undo
<1>7. CASE Life!GiveBackRegion
  <2>1. /\ stock' = 0 /\ queued' = 0
        /\ unsent' = queued + unsent /\ unsent' \in Nat /\ memory' = unsent'
    BY <1>7 DEF Life!GiveBackRegion
  <2>2. Life!TypeOK'
    BY <1>7, <2>1 DEF Life!GiveBackRegion
  <2> QED
    BY <1>7, <2>1, <2>2 DEF Life!GiveBackRegion
<1> QED
  BY <1>1, <1>2, <1>3, <1>4, <1>5, <1>6, <1>7 DEF Life!Exit

LEMMA NextLife == ASSUME LifeInv, [Life!Next]_(Life!vars) PROVE LifeInv'
<1> USE DEF LifeInv, Life!TypeOK, Life!loading, Life!chip, Life!Lists,
            Life!buffers, Life!Places, Life!Undoings, Reached
<1>1. CASE Life!ProbeCtrl
  BY <1>1 DEF Life!ProbeCtrl, Life!Others
<1>2. CASE Life!ProbeData
  BY <1>2, AccessIsSafe DEF Life!ProbeData
<1>3. CASE Life!Open
  BY <1>3, Bounds DEF Life!Open
<1>4. CASE Life!Close
  BY <1>4, Bounds DEF Life!Close
<1>5. CASE Life!Ioctl
  <2>1. Life!TypeOK'
    BY <1>5, AccessIsSafe DEF Life!Ioctl
  <2> QED
    BY <1>5, <2>1 DEF Life!Ioctl
<1>6. CASE Life!Write
  <2>1. /\ stock' \in Nat /\ queued' \in Nat /\ fault' \in BOOLEAN
        /\ stock' + queued' = stock + queued
        /\ queues = "unset" => stock' = stock /\ queued' = queued
    BY <1>6, WriteKeepsBuffers
  <2>2. /\ UNCHANGED <<Life!loading, Life!chip, queues, memory, unsent, opens>>
        /\ opens > 0
    BY <1>6 DEF Life!Write
  <2>3. Life!TypeOK'
    BY <2>1, <2>2
  <2>4. memory' = stock' + queued' + unsent'
    <3>1. memory = stock + queued + unsent
      OBVIOUS
    <3>2. stock \in Nat /\ queued \in Nat /\ unsent \in Nat
      OBVIOUS
    <3>3. memory' = memory /\ unsent' = unsent
      BY <2>2
    <3> HIDE DEF LifeInv, Life!TypeOK
    <3> QED
      BY <2>1, <3>1, <3>2, <3>3
  <2>5. place' \notin Life!Undoings
    BY <2>2
  <2> QED
    BY <2>1, <2>2, <2>3, <2>4, <2>5
<1>7. CASE UNCHANGED Life!vars
  BY <1>7 DEF Life!vars, Life!Others
<1> QED
  BY <1>1, <1>2, <1>3, <1>4, <1>5, <1>6, <1>7, LoadingKeepsLife, ExitKeepsLife
     DEF Life!Next

LEMMA LifeInvariant == Life!Spec => []LifeInv
BY InitLife, NextLife, PTL DEF Life!Spec

\* A driver that is out has given everything back, wherever its loading has
\* failed and whatever its users have called, but for exactly the buffers
\* whose chunks were queued when it was unloaded (vs10xx_main.c, vs10xx_init,
\* vs10xx_write and vs10xx_exit; vs10xx_queue.c, vs10xx_queue_init and
\* vs10xx_queue_free).
THEOREM NothingElseLeaks == MCSpec => []LeakIsUnsent
<1>1. LifeInv => LeakIsUnsent
  BY DEF LifeInv, LeakIsUnsent, Life!LeakIsUnsent, Life!TypeOK
<1> QED
  BY <1>1, Parts, LifeInvariant, PTL

\* Once the queues and spi_data are set no operation of the driver faults, in
\* whatever order the probes come and whichever GPIO they miss
\* (vs10xx_main.c:143-170, vs10xx_write, vs10xx_ioctl).
THEOREM NoFaultOnceUp == MCSpec => QuietOnceUp
<1>1. ASSUME LifeInv, [Life!Next]_(Life!vars)
      PROVE  [queues = "set" /\ data => ~fault']_(Life!vars)
  <2> SUFFICES ASSUME Life!Next, queues = "set", data PROVE ~fault'
    BY <1>1
  <2>1. fault = FALSE
    BY <1>1 DEF LifeInv, Life!TypeOK, Life!Next
  <2>2. CASE Life!ProbeData \/ Life!Ioctl
    BY <1>1, <2>2, AccessIsSafe DEF Life!ProbeData, Life!Ioctl
  <2>3. CASE Life!Write
    BY <2>1, <2>3 DEF Life!Write, Life!Fill, Life!FillAndSend
  <2>4. CASE Life!FreeQueues
    BY <2>4 DEF Life!FreeQueues
  <2>5. CASE ~(Life!ProbeData \/ Life!Ioctl \/ Life!Write \/ Life!FreeQueues)
    <3>1. UNCHANGED fault
      BY <2>5 DEF Life!Next, Life!Load, Life!CreateClass, Life!AddCdev,
         Life!CreateDevice, Life!InitQueues, Life!Register, Life!ProbeCtrl,
         Life!Open, Life!Close, Life!Others, Life!Exit, Life!Unload,
         Life!Unregister, Life!Undo, Life!GiveBackRegion
    <3> QED
      BY <2>1, <3>1
  <2> QED
    BY <2>2, <2>3, <2>4, <2>5
<1>2. Life!Spec => Life!QuietOnceUp
  BY <1>1, LifeInvariant, PTL DEF Life!Spec, Life!QuietOnceUp
<1> QED
  BY <1>2, Parts, PTL DEF QuietOnceUp

-----------------------------------------------------------------------------
(* The older driver's queue.                                               *)

\* While nothing has been flushed, only the slot that is filled next can have
\* a length, and it was filled after everything that is queued.
InOrder ==
    /\ \A i, j \in 1 .. Len(list) : i < j => body[list[i]] < body[list[j]]
    /\ \A i \in 1 .. Len(list) : len[list[i]]
    /\ \A j \in 1 .. Len(pool) : len[pool[j]] => j = 1
    /\ \A i \in 1 .. Len(list), j \in 1 .. Len(pool) :
          len[pool[j]] => body[list[i]] < body[pool[j]]

\* Each entry is in one place of one of the two lists.
Apart(s, t) ==
    /\ \A i, j \in 1 .. Len(s) : s[i] = s[j] => i = j
    /\ \A i, j \in 1 .. Len(t) : t[i] = t[j] => i = j
    /\ \A i \in 1 .. Len(s), j \in 1 .. Len(t) : s[i] # t[j]

ListsApart == Apart(pool, list)

LEMMA ApartBothWays == ASSUME NEW s, NEW t, Apart(s, t) PROVE Apart(t, s)
BY DEF Apart

EntriesInv ==
    /\ Queue!TypeOK
    /\ \A e \in Queue!Entries : body[e] <= fills
    /\ valid => /\ ListsApart
                /\ Len(pool) + Len(list) = QueueLen
                /\ free + flushed = Len(pool)
                /\ flushed = 0 => InOrder

LEMMA QueueConstants ==
    /\ QueueLen \in Nat \ {0} /\ MaxFills \in Nat /\ MaxInits \in Nat
BY ChipAssumption DEF Queue!QueueLenAssumption, Queue!BoundsAssumption

LEMMA InitQueue == Queue!Init => EntriesInv
<1> SUFFICES ASSUME Queue!Init PROVE EntriesInv
  OBVIOUS
<1>1. pool = <<>> /\ list = <<>> /\ valid = FALSE
  BY DEF Queue!Init
<1>2. Queue!TypeOK
  <2>1. len \in [Queue!Entries -> BOOLEAN] /\ valid \in BOOLEAN
    BY DEF Queue!Init
  <2>2. /\ body \in [Queue!Entries -> 0 .. MaxFills] /\ flushed \in Nat /\ free \in Int
        /\ inits \in 0 .. MaxInits /\ fills \in 0 .. MaxFills
    BY QueueConstants DEF Queue!Init
  <2> QED
    BY <1>1, <2>1, <2>2 DEF Queue!TypeOK
<1>3. \A e \in Queue!Entries : body[e] <= fills
  BY DEF Queue!Init
<1> QED
  BY <1>1, <1>2, <1>3 DEF EntriesInv

\* The head of one list goes to the end of the other.
Moved(from, to, rest, joined) ==
    /\ rest \in Seq(Queue!Entries) /\ joined \in Seq(Queue!Entries)
    /\ Len(rest) = Len(from) - 1 /\ Len(joined) = Len(to) + 1
    /\ \A i \in 1 .. Len(rest) : rest[i] = from[i + 1]
    /\ \A i \in 1 .. Len(to) : joined[i] = to[i]
    /\ joined[Len(to) + 1] = from[1]
    /\ Apart(rest, joined)

LEMMA MovedApart ==
    ASSUME NEW from \in Seq(Queue!Entries), NEW to \in Seq(Queue!Entries), from # <<>>,
           Apart(from, to)
    PROVE  Moved(from, to, Tail(from), Append(to, Head(from)))
<1> DEFINE rest == Tail(from)
           joined == Append(to, Head(from))
<1>1. Len(from) \in Nat \ {0} /\ Head(from) = from[1] /\ from[1] \in Queue!Entries
  OBVIOUS
<1>2. /\ rest \in Seq(Queue!Entries) /\ Len(rest) = Len(from) - 1
      /\ \A i \in 1 .. Len(rest) : rest[i] = from[i + 1]
  BY <1>1
<1>3. /\ joined \in Seq(Queue!Entries) /\ Len(joined) = Len(to) + 1
      /\ \A i \in 1 .. Len(to) : joined[i] = to[i]
      /\ joined[Len(to) + 1] = from[1]
  BY <1>1
<1> HIDE DEF rest, joined
<1>4. \A i, j \in 1 .. Len(rest) : rest[i] = rest[j] => i = j
  BY <1>1, <1>2 DEF Apart
<1>5. \A i, j \in 1 .. Len(joined) : joined[i] = joined[j] => i = j
  BY <1>1, <1>3 DEF Apart
<1>6. \A i \in 1 .. Len(rest), j \in 1 .. Len(joined) : rest[i] # joined[j]
  <2> SUFFICES ASSUME NEW i \in 1 .. Len(rest), NEW j \in 1 .. Len(joined)
               PROVE  rest[i] # joined[j]
    OBVIOUS
  <2>1. rest[i] = from[i + 1] /\ i + 1 \in 1 .. Len(from) /\ i + 1 # 1
    BY <1>1, <1>2
  <2>2. CASE j \in 1 .. Len(to)
    BY <1>3, <2>1, <2>2 DEF Apart
  <2>3. CASE j = Len(to) + 1
    <3>1. 1 \in 1 .. Len(from)
      BY <1>1
    <3> QED
      BY <1>3, <2>1, <2>3, <3>1 DEF Apart
  <2> QED
    BY <1>3, <2>2, <2>3
<1>7. Moved(from, to, rest, joined)
  BY <1>2, <1>3, <1>4, <1>5, <1>6 DEF Moved, Apart
<1> QED
  BY <1>7 DEF rest, joined

\* vs1003_queue_alloc, and the fill of a slot, which moves nothing.
LEMMA AllocKeeps == ASSUME EntriesInv, Queue!Alloc PROVE EntriesInv'
<1>1. PICK n \in 0 .. QueueLen :
         /\ pool' = [i \in 1 .. n |-> n + 1 - i]
         /\ valid' = (n = QueueLen)
         /\ free' = IF n = QueueLen THEN QueueLen ELSE 0
  BY DEF Queue!Alloc
<1>2. /\ list' = <<>> /\ inits' = inits + 1 /\ inits < MaxInits /\ fills' = fills
      /\ len' = [e \in Queue!Entries |-> FALSE]
      /\ body' = [e \in Queue!Entries |-> 0] /\ flushed' = 0
  BY DEF Queue!Alloc
<1>3. n \in Nat /\ QueueLen \in Nat /\ n <= QueueLen
  BY QueueConstants
<1>4. pool' \in Seq(Queue!Entries) /\ Len(pool') = n
  <2>1. \A i \in 1 .. n : n + 1 - i \in Queue!Entries
    BY <1>3 DEF Queue!Entries
  <2> QED
    BY <1>1, <1>3, <2>1
<1>5. list' \in Seq(Queue!Entries) /\ Len(list') = 0
  BY <1>2
<1>6. Queue!TypeOK'
  <2>1. len' \in [Queue!Entries -> BOOLEAN] /\ valid' \in BOOLEAN
    BY <1>1, <1>2
  <2>2. /\ body' \in [Queue!Entries -> 0 .. MaxFills] /\ flushed' \in Nat /\ free' \in Int
        /\ inits' \in 0 .. MaxInits /\ fills' \in 0 .. MaxFills
    BY <1>1, <1>2, <1>3, QueueConstants DEF EntriesInv, Queue!TypeOK
  <2> QED
    BY <1>4, <1>5, <2>1, <2>2 DEF Queue!TypeOK
<1>7. \A e \in Queue!Entries : body'[e] <= fills'
  BY <1>2, QueueConstants DEF EntriesInv, Queue!TypeOK
<1>8. ListsApart'
  BY <1>1, <1>3, <1>4, <1>5 DEF ListsApart, Apart
<1>9. \A j \in 1 .. Len(pool') : ~len'[pool'[j]]
  BY <1>2, <1>4
<1>10. InOrder'
  BY <1>5, <1>9 DEF InOrder
<1>11. valid' => n = QueueLen
  BY <1>1
<1> QED
  BY <1>1, <1>2, <1>3, <1>4, <1>5, <1>6, <1>7, <1>8, <1>10, <1>11 DEF EntriesInv

LEMMA FillKeeps == ASSUME EntriesInv, Queue!Fill PROVE EntriesInv'
<1> DEFINE slot == Head(pool)
<1>1. /\ pool # <<>> /\ fills < MaxFills /\ fills' = fills + 1
      /\ len' = [len EXCEPT ![slot] = TRUE]
      /\ body' = [body EXCEPT ![slot] = fills + 1]
      /\ UNCHANGED <<pool, list, free, valid, inits, flushed>>
  BY DEF Queue!Fill
<1>2. Queue!TypeOK /\ slot = pool[1] /\ Len(pool) \in Nat \ {0} /\ slot \in Queue!Entries
  BY <1>1 DEF EntriesInv, Queue!TypeOK
<1> HIDE DEF slot
<1>3. Queue!TypeOK'
  <2>1. len' \in [Queue!Entries -> BOOLEAN]
    BY <1>1, <1>2 DEF Queue!TypeOK
  <2>2. body' \in [Queue!Entries -> 0 .. MaxFills] /\ fills' \in 0 .. MaxFills
    BY <1>1, <1>2, QueueConstants DEF Queue!TypeOK
  <2> QED
    BY <1>1, <1>2, <2>1, <2>2 DEF Queue!TypeOK
<1>4. \A e \in Queue!Entries : body'[e] <= fills'
  BY <1>1, <1>2, QueueConstants DEF EntriesInv, Queue!TypeOK
<1>5. ASSUME valid, flushed = 0 PROVE InOrder'
  <2>1. ListsApart /\ InOrder
    BY <1>5 DEF EntriesInv
  <2>2. \A i \in 1 .. Len(list) : list[i] \in Queue!Entries /\ list[i] # slot
    <3> SUFFICES ASSUME NEW i \in 1 .. Len(list)
                 PROVE  list[i] \in Queue!Entries /\ list[i] # slot
      OBVIOUS
    <3>1. list[i] \in Queue!Entries
      BY <1>2 DEF Queue!TypeOK
    <3>2. 1 \in 1 .. Len(pool)
      BY <1>2
    <3>3. pool[1] # list[i]
      BY <2>1, <3>2 DEF ListsApart, Apart
    <3> QED
      BY <1>2, <3>1, <3>3
  <2>3. \A i \in 1 .. Len(list) : /\ body'[list[i]] = body[list[i]]
                                  /\ len'[list[i]] = len[list[i]]
    BY <1>1, <1>2, <2>2 DEF Queue!TypeOK
  <2>4. \A j \in 1 .. Len(pool) : len'[pool[j]] => j = 1
    <3> SUFFICES ASSUME NEW j \in 1 .. Len(pool), j # 1 PROVE ~len'[pool[j]]
      OBVIOUS
    <3>1. pool[j] # slot /\ pool[j] \in Queue!Entries
      BY <1>2, <2>1 DEF ListsApart, Apart, Queue!TypeOK
    <3> QED
      BY <1>1, <1>2, <2>1, <3>1 DEF InOrder, Queue!TypeOK
  <2>5. \A i \in 1 .. Len(list) : body[list[i]] <= fills
    BY <2>2 DEF EntriesInv
  <2>6. body'[slot] = fills + 1 /\ fills \in Nat
    BY <1>1, <1>2, QueueConstants DEF Queue!TypeOK
  <2>7. \A i \in 1 .. Len(list) : body[list[i]] \in Int /\ body[list[i]] < body'[slot]
    BY <1>2, <2>2, <2>5, <2>6, QueueConstants DEF Queue!TypeOK
  <2>8. \A i \in 1 .. Len(list), j \in 1 .. Len(pool) :
           len'[pool[j]] => body'[list[i]] < body'[pool[j]]
    BY <1>2, <2>3, <2>4, <2>7
  <2>9. pool' = pool /\ list' = list
    BY <1>1
  <2>10. \A i, j \in 1 .. Len(list) : i < j => body'[list[i]] < body'[list[j]]
    BY <2>1, <2>3 DEF InOrder
  <2>11. \A i \in 1 .. Len(list) : len'[list[i]]
    BY <2>1, <2>3 DEF InOrder
  <2> QED
    BY <2>4, <2>8, <2>9, <2>10, <2>11 DEF InOrder
<1>6. ListsApart' <=> ListsApart
  BY <1>1 DEF ListsApart, Apart
<1> QED
  BY <1>1, <1>3, <1>4, <1>5, <1>6 DEF EntriesInv

\* The head of the pool was filled after everything that is queued.
LEMMA EnqueueKeeps == ASSUME EntriesInv, Queue!Enqueue PROVE EntriesInv'
<1>1. /\ valid /\ pool # <<>> /\ len[Head(pool)]
      /\ list' = Append(list, Head(pool)) /\ pool' = Tail(pool)
      /\ free' = free - 1 /\ UNCHANGED <<len, body, valid, inits, fills, flushed>>
  BY DEF Queue!Enqueue, Queue!buffers, Queue!bounds
<1>2. /\ Queue!TypeOK /\ ListsApart /\ Len(pool) + Len(list) = QueueLen
      /\ free + flushed = Len(pool)
      /\ flushed = 0 => InOrder
  BY <1>1 DEF EntriesInv
<1>3. /\ pool \in Seq(Queue!Entries) /\ list \in Seq(Queue!Entries)
      /\ free \in Int /\ flushed \in Nat
  BY <1>2 DEF Queue!TypeOK
<1>4. Moved(pool, list, pool', list')
  BY <1>1, <1>2, <1>3, MovedApart DEF ListsApart
<1>5. Len(pool) \in Nat \ {0} /\ Len(list) \in Nat /\ Head(pool) = pool[1]
  BY <1>1, <1>3
<1>6. Queue!TypeOK'
  BY <1>1, <1>2, <1>3, <1>4 DEF Moved, Queue!TypeOK
<1>7. ListsApart'
  BY <1>4 DEF Moved, ListsApart
<1>8. /\ Len(pool') + Len(list') = QueueLen
      /\ free' + flushed' = Len(pool')
  <2>1. Len(pool') = Len(pool) - 1 /\ Len(list') = Len(list) + 1
    BY <1>4 DEF Moved
  <2> QED
    BY <1>1, <1>2, <1>3, <1>5, <2>1
<1>9. ASSUME flushed = 0 PROVE InOrder'
  <2>1. InOrder
    BY <1>2, <1>9
  <2>2. \A j \in 1 .. Len(pool') : ~len[pool'[j]]
    <3> SUFFICES ASSUME NEW j \in 1 .. Len(pool') PROVE ~len[pool'[j]]
      OBVIOUS
    <3>1. j + 1 \in 1 .. Len(pool) /\ j + 1 # 1 /\ pool'[j] = pool[j + 1]
      BY <1>4, <1>5 DEF Moved
    <3> QED
      BY <2>1, <3>1 DEF InOrder
  <2>3. len[pool[1]] /\ 1 \in 1 .. Len(pool)
    BY <1>1, <1>5
  <2>4. \A i \in 1 .. Len(list') : len[list'[i]]
    <3> SUFFICES ASSUME NEW i \in 1 .. Len(list') PROVE len[list'[i]]
      OBVIOUS
    <3>1. i \in 1 .. Len(list) \/ i = Len(list) + 1
      BY <1>4, <1>5 DEF Moved
    <3> QED
      BY <1>4, <2>1, <2>3, <3>1 DEF Moved, InOrder
  <2>5. \A i, j \in 1 .. Len(list') : i < j => body[list'[i]] < body[list'[j]]
    <3> SUFFICES ASSUME NEW i \in 1 .. Len(list'), NEW j \in 1 .. Len(list'), i < j
                 PROVE  body[list'[i]] < body[list'[j]]
      OBVIOUS
    <3>1. i \in 1 .. Len(list) /\ (j \in 1 .. Len(list) \/ j = Len(list) + 1)
      BY <1>4, <1>5 DEF Moved
    <3>2. body[list[i]] < body[pool[1]]
      BY <2>1, <2>3, <3>1 DEF InOrder
    <3>3. j \in 1 .. Len(list) => body[list[i]] < body[list[j]]
      BY <2>1, <3>1 DEF InOrder
    <3> QED
      BY <1>4, <3>1, <3>2, <3>3 DEF Moved
  <2>6. len' = len /\ body' = body
    BY <1>1
  <2> QED
    BY <2>2, <2>4, <2>5, <2>6 DEF InOrder
<1>10. \A e \in Queue!Entries : body'[e] <= fills'
  BY <1>1 DEF EntriesInv
<1>11. flushed' = 0 => InOrder'
  BY <1>1, <1>9
<1> QED
  BY <1>6, <1>7, <1>8, <1>10, <1>11 DEF EntriesInv

\* What was taken out loses its length, and goes to the end of the pool.
LEMMA DequeueKeeps == ASSUME EntriesInv, Queue!Dequeue PROVE EntriesInv'
<1> DEFINE sent == Head(list)
<1>1. /\ valid /\ list # <<>>
      /\ pool' = Append(pool, sent) /\ list' = Tail(list)
      /\ len' = [len EXCEPT ![sent] = FALSE]
      /\ free' = free + 1 /\ UNCHANGED <<body, valid, inits, fills, flushed>>
  BY DEF Queue!Dequeue, Queue!bounds
<1>2. /\ Queue!TypeOK /\ ListsApart /\ Len(pool) + Len(list) = QueueLen
      /\ free + flushed = Len(pool)
      /\ flushed = 0 => InOrder
  BY <1>1 DEF EntriesInv
<1>3. /\ pool \in Seq(Queue!Entries) /\ list \in Seq(Queue!Entries)
      /\ free \in Int /\ flushed \in Nat
  BY <1>2 DEF Queue!TypeOK
<1>4. Moved(list, pool, list', pool')
  BY <1>1, <1>2, <1>3, MovedApart, ApartBothWays DEF ListsApart
<1>5. /\ Len(list) \in Nat \ {0} /\ Len(pool) \in Nat
      /\ sent = list[1] /\ sent \in Queue!Entries
  BY <1>1, <1>3
<1> HIDE DEF sent
<1>6. Queue!TypeOK'
  <2>1. len' \in [Queue!Entries -> BOOLEAN]
    BY <1>1, <1>2 DEF Queue!TypeOK
  <2> QED
    BY <1>1, <1>2, <1>3, <1>4, <2>1 DEF Moved, Queue!TypeOK
<1>7. ListsApart'
  BY <1>4, ApartBothWays DEF Moved, ListsApart
<1>8. /\ Len(pool') + Len(list') = QueueLen
      /\ free' + flushed' = Len(pool')
  <2>1. Len(pool') = Len(pool) + 1 /\ Len(list') = Len(list) - 1
    BY <1>4 DEF Moved
  <2> QED
    BY <1>1, <1>2, <1>3, <1>5, <2>1
<1>9. ASSUME flushed = 0 PROVE InOrder'
  <2>1. InOrder
    BY <1>2, <1>9
  <2>2. \A i \in 1 .. Len(list') : i + 1 \in 1 .. Len(list) /\ i + 1 # 1
    BY <1>4, <1>5 DEF Moved
  <2>3. \A e \in Queue!Entries : e # sent => len'[e] = len[e]
    BY <1>1, <1>2 DEF Queue!TypeOK
  <2>4. ~len'[sent]
    BY <1>1, <1>2, <1>5 DEF Queue!TypeOK
  <2>5. \A i \in 1 .. Len(list') : len'[list'[i]]
    <3> SUFFICES ASSUME NEW i \in 1 .. Len(list') PROVE len'[list'[i]]
      OBVIOUS
    <3>1. list'[i] = list[i + 1] /\ list'[i] \in Queue!Entries
      BY <1>3, <1>4, <2>2 DEF Moved
    <3>2. 1 \in 1 .. Len(list)
      BY <1>5
    <3>3. list'[i] # sent
      BY <1>2, <1>5, <2>2, <3>1, <3>2 DEF ListsApart, Apart
    <3>4. len[list'[i]]
      BY <2>1, <2>2, <3>1 DEF InOrder
    <3> QED
      BY <2>3, <3>1, <3>3, <3>4
  <2>6. \A i, j \in 1 .. Len(list') : i < j => body[list'[i]] < body[list'[j]]
    <3> SUFFICES ASSUME NEW i \in 1 .. Len(list'), NEW j \in 1 .. Len(list'), i < j
                 PROVE  body[list'[i]] < body[list'[j]]
      OBVIOUS
    <3>1. i + 1 \in 1 .. Len(list) /\ j + 1 \in 1 .. Len(list) /\ i + 1 < j + 1
      BY <2>2
    <3> QED
      BY <1>4, <2>1, <3>1 DEF Moved, InOrder
  <2>7. \A j \in 1 .. Len(pool') :
           len'[pool'[j]] => j \in 1 .. Len(pool) /\ pool'[j] = pool[j] /\ len[pool[j]]
    <3> SUFFICES ASSUME NEW j \in 1 .. Len(pool'), len'[pool'[j]]
                 PROVE  j \in 1 .. Len(pool) /\ pool'[j] = pool[j] /\ len[pool[j]]
      OBVIOUS
    <3>1. j # Len(pool) + 1
      BY <1>4, <1>5, <2>4 DEF Moved
    <3>2. j \in 1 .. Len(pool)
      BY <1>4, <1>5, <3>1 DEF Moved
    <3>3. pool'[j] = pool[j] /\ pool[j] \in Queue!Entries
      BY <1>3, <1>4, <3>2 DEF Moved
    <3>4. pool[j] # sent
      BY <2>4, <3>3
    <3> QED
      BY <2>3, <3>2, <3>3, <3>4
  <2>8. \A j \in 1 .. Len(pool') : len'[pool'[j]] => j = 1
    BY <2>1, <2>7 DEF InOrder
  <2>9. \A i \in 1 .. Len(list'), j \in 1 .. Len(pool') :
           len'[pool'[j]] => body[list'[i]] < body[pool'[j]]
    <3> SUFFICES ASSUME NEW i \in 1 .. Len(list'), NEW j \in 1 .. Len(pool'),
                        len'[pool'[j]]
                 PROVE  body[list'[i]] < body[pool'[j]]
      OBVIOUS
    <3>1. body[list[i + 1]] < body[pool[j]]
      BY <2>1, <2>2, <2>7 DEF InOrder
    <3> QED
      BY <1>4, <2>7, <3>1 DEF Moved
  <2>10. body' = body
    BY <1>1
  <2> QED
    BY <2>5, <2>6, <2>8, <2>9, <2>10 DEF InOrder
<1>10. \A e \in Queue!Entries : body'[e] <= fills'
  BY <1>1 DEF EntriesInv
<1>11. flushed' = 0 => InOrder'
  BY <1>1, <1>9
<1> QED
  BY <1>6, <1>7, <1>8, <1>10, <1>11 DEF EntriesInv
\* What is queued goes to the end of the pool as it is.
LEMMA FlushKeeps == ASSUME EntriesInv, Queue!Flush PROVE EntriesInv'
<1>1. /\ valid /\ pool' = pool \o list /\ list' = <<>>
      /\ flushed' = flushed + Len(list)
      /\ UNCHANGED <<len, body, free, valid, inits, fills>>
  BY DEF Queue!Flush, Queue!buffers, Queue!bounds
<1>2. /\ Queue!TypeOK /\ ListsApart /\ Len(pool) + Len(list) = QueueLen
      /\ free + flushed = Len(pool)
      /\ flushed = 0 => InOrder
  BY <1>1 DEF EntriesInv
<1>3. /\ pool \in Seq(Queue!Entries) /\ list \in Seq(Queue!Entries)
      /\ Len(pool) \in Nat /\ Len(list) \in Nat
      /\ free \in Int /\ flushed \in Nat
  BY <1>2 DEF Queue!TypeOK
<1>4. /\ pool' \in Seq(Queue!Entries) /\ list' \in Seq(Queue!Entries)
      /\ Len(pool') = Len(pool) + Len(list) /\ Len(list') = 0
  BY <1>1, <1>3
<1>5. \A i \in 1 .. Len(pool') :
         \/ i \in 1 .. Len(pool) /\ pool'[i] = pool[i]
         \/ i - Len(pool) \in 1 .. Len(list) /\ pool'[i] = list[i - Len(pool)]
  BY <1>1, <1>3, <1>4
<1>6. Queue!TypeOK'
  <2>1. flushed' \in Nat
    BY <1>1, <1>3
  <2> QED
    BY <1>1, <1>2, <1>4, <2>1 DEF Queue!TypeOK
<1>7. ListsApart'
  <2>1. ASSUME NEW i \in 1 .. Len(pool'), NEW j \in 1 .. Len(pool'), pool'[i] = pool'[j]
        PROVE  i = j
    <3>1. CASE i \in 1 .. Len(pool) /\ j \in 1 .. Len(pool)
      <4>1. pool[i] = pool[j]
        BY <1>1, <1>3, <2>1, <3>1
      <4> QED
        BY <1>2, <3>1, <4>1 DEF ListsApart, Apart
    <3>2. CASE i \in 1 .. Len(pool) /\ j \notin 1 .. Len(pool)
      <4>1. /\ j - Len(pool) \in 1 .. Len(list)
            /\ pool[i] = list[j - Len(pool)]
        BY <1>1, <1>3, <1>4, <2>1, <3>2
      <4> QED
        BY <1>2, <3>2, <4>1 DEF ListsApart, Apart
    <3>3. CASE i \notin 1 .. Len(pool) /\ j \in 1 .. Len(pool)
      <4>1. /\ i - Len(pool) \in 1 .. Len(list)
            /\ pool[j] = list[i - Len(pool)]
        BY <1>1, <1>3, <1>4, <2>1, <3>3
      <4> QED
        BY <1>2, <3>3, <4>1 DEF ListsApart, Apart
    <3>4. CASE i \notin 1 .. Len(pool) /\ j \notin 1 .. Len(pool)
      <4>1. /\ i - Len(pool) \in 1 .. Len(list) /\ j - Len(pool) \in 1 .. Len(list)
            /\ list[i - Len(pool)] = list[j - Len(pool)]
        BY <1>5, <2>1, <3>4
      <4>2. i - Len(pool) = j - Len(pool)
        BY <1>2, <4>1 DEF ListsApart, Apart
      <4> QED
        BY <1>3, <1>4, <4>2
    <3> QED
      BY <3>1, <3>2, <3>3, <3>4
  <2>2. 1 .. Len(list') = {}
    BY <1>4
  <2> QED
    BY <2>1, <2>2 DEF ListsApart, Apart
<1>8. Len(pool') + Len(list') = QueueLen /\ free' + flushed' = Len(pool')
  <2>1. free' = free /\ flushed' = flushed + Len(list)
    BY <1>1
  <2>2. free + flushed = Len(pool) /\ Len(pool) + Len(list) = QueueLen
    BY <1>2
  <2>3. Len(pool') = Len(pool) + Len(list) /\ Len(list') = 0
    BY <1>4
  <2> QED
    BY <1>3, <2>1, <2>2, <2>3
<1>9. ASSUME flushed' = 0 PROVE InOrder'
  <2>1. flushed = 0 /\ Len(list) = 0
    BY <1>1, <1>3, <1>9
  <2>2. pool' = pool /\ list' = list
    BY <1>1, <1>3, <2>1
  <2>3. InOrder
    BY <1>2, <2>1
  <2>4. len' = len /\ body' = body
    BY <1>1
  <2> QED
    BY <2>2, <2>3, <2>4 DEF InOrder
<1>10. \A e \in Queue!Entries : body'[e] <= fills'
  BY <1>1 DEF EntriesInv
<1> QED
  BY <1>6, <1>7, <1>8, <1>9, <1>10 DEF EntriesInv

LEMMA FreeKeeps == ASSUME EntriesInv, Queue!Free PROVE EntriesInv'
<1>1. /\ pool' = <<>> /\ list' = <<>> /\ free' = 0 /\ valid' = FALSE /\ flushed' = 0
      /\ UNCHANGED <<len, body, inits, fills>>
  BY DEF Queue!Free, Queue!buffers, Queue!bounds
<1>2. Queue!TypeOK'
  <2>1. pool' \in Seq(Queue!Entries) /\ list' \in Seq(Queue!Entries)
    BY <1>1
  <2>2. free' \in Int /\ flushed' \in Nat
    <3>1. free' = 0 /\ flushed' = 0
      BY <1>1
    <3> QED
      BY <3>1
  <2>3. valid' \in BOOLEAN
    BY <1>1
  <2>4. len' = len /\ body' = body /\ inits' = inits /\ fills' = fills
    BY <1>1
  <2> QED
    BY <2>1, <2>2, <2>3, <2>4 DEF EntriesInv, Queue!TypeOK
<1> QED
  BY <1>1, <1>2 DEF EntriesInv

LEMMA NextQueue == ASSUME EntriesInv, [Queue!Next]_(Queue!vars) PROVE EntriesInv'
<1>1. CASE UNCHANGED Queue!vars
  BY <1>1 DEF Queue!vars, EntriesInv, Queue!TypeOK, ListsApart, InOrder
<1> QED
  BY <1>1, AllocKeeps, FillKeeps, EnqueueKeeps, DequeueKeeps, FlushKeeps, FreeKeeps
  DEF Queue!Next

LEMMA QueueInvariant == Queue!Spec => []EntriesInv
BY InitQueue, NextQueue, PTL DEF Queue!Spec

\* A queue of any length loses and doubles no entry, its counter is behind by
\* what was flushed, and until the first flush it hands the fillings out in
\* their order, each once (vs1003_queue.c).
THEOREM QueueAccounts == MCSpec => []EntriesAccounted
<1>1. ASSUME EntriesInv PROVE EntriesAccounted
  <2> DEFINE all == pool \o list
  <2> SUFFICES ASSUME valid
               PROVE  /\ Len(all) = QueueLen
                      /\ \A i, j \in 1 .. Len(all) : i # j => all[i] # all[j]
                      /\ free + flushed = Len(pool)
                      /\ flushed = 0 => \A i, j \in 1 .. Len(list) :
                            /\ len[list[i]]
                            /\ i < j => body[list[i]] < body[list[j]]
    BY DEF EntriesAccounted, Queue!EntriesAccounted
  <2>1. /\ pool \in Seq(Queue!Entries) /\ list \in Seq(Queue!Entries)
        /\ Len(pool) \in Nat /\ Len(list) \in Nat
        /\ ListsApart /\ Len(pool) + Len(list) = QueueLen
        /\ free + flushed = Len(pool)
        /\ flushed = 0 => InOrder
    BY <1>1 DEF EntriesInv, Queue!TypeOK
  <2>2. /\ Len(all) = Len(pool) + Len(list)
        /\ \A i \in 1 .. Len(all) :
              \/ i \in 1 .. Len(pool) /\ all[i] = pool[i]
              \/ i - Len(pool) \in 1 .. Len(list) /\ all[i] = list[i - Len(pool)]
    BY <2>1
  <2> HIDE DEF all
  <2>3. ASSUME NEW i \in 1 .. Len(all), NEW j \in 1 .. Len(all), i # j
        PROVE  all[i] # all[j]
    <3>1. i - Len(pool) # j - Len(pool)
      BY <2>1, <2>2, <2>3
    <3> QED
      BY <2>1, <2>2, <2>3, <3>1 DEF ListsApart, Apart
  <2>4. flushed = 0 => \A i, j \in 1 .. Len(list) :
            /\ len[list[i]]
            /\ i < j => body[list[i]] < body[list[j]]
    BY <2>1 DEF InOrder
  <2> QED
    BY <2>1, <2>2, <2>3, <2>4
<1> QED
  BY <1>1, Parts, QueueInvariant, PTL

-----------------------------------------------------------------------------
(* The program ioctl_vol_ctrl.                                             *)

\* Chunks are counted as late from a click on, and the chunk whose pause was
\* looked at before it is the only one.
PauseInv ==
    /\ late <= 1
    /\ ~paused => late = 0
    /\ main = "write" => late = 0

\* The last count passed on, or being passed on, is the one that the register
\* is asked for, unless somebody else has called since; the register, once
\* nobody is in it, has it.
KnobInv ==
    /\ main = "create" => thread = "none"
    /\ thread = "key" => now = last
    /\ setter = Player =>
          wanted = Play!VolumeOf(IF thread = "called" THEN now ELSE last)
    /\ trust = "exact" /\ busy = {} => value = wanted

ProgramInv ==
    /\ subject = "program" => Play!TypeOK /\ PauseInv /\ KnobInv
    /\ subject # "program" => late = 0 /\ thread = "gone"

LEMMA ProgramConstants ==
    /\ Command # Player /\ MaxChunks \in Nat /\ Counts \subseteq Int
BY ChipAssumption DEF Play!CommandAssumption, Play!ChunksAssumption, Play!CountsAssumption

LEMMA InitProgram == MCInit => ProgramInv
<1> SUFFICES ASSUME MCInit PROVE ProgramInv
  OBVIOUS
<1>1. CASE subject = "program"
  <2>1. Play!Init /\ Play!Driver!Init /\ setter = Command
    BY <1>1 DEF MCInit, Play!SystemInit
  <2>2. Play!TypeOK
    <3>1. keep \in BOOLEAN /\ paused \in BOOLEAN /\ woken \in BOOLEAN /\ click \in BOOLEAN
      BY <2>1 DEF Play!Init
    <3>2. left \in 0 .. MaxChunks /\ late \in Nat
      <4>1. left \in 0 .. MaxChunks /\ late = 0
        BY <2>1 DEF Play!Init
      <4> QED
        BY <4>1
    <3> QED
      BY <2>1, <3>1, <3>2 DEF Play!Init, Play!TypeOK
  <2>3. PauseInv
    <3>1. late = 0
      BY <2>1 DEF Play!Init
    <3> QED
      BY <3>1 DEF PauseInv
  <2>4. KnobInv
    BY <2>1, ProgramConstants DEF Play!Init, Play!Driver!Init, KnobInv
  <2> QED
    BY <1>1, <2>2, <2>3, <2>4 DEF ProgramInv
<1>2. CASE subject # "program"
  BY <1>2 DEF MCInit, ProgramInv
<1> QED
  BY <1>1, <1>2

LEMMA TypeKept ==
    ASSUME Play!TypeOK, [Play!SystemNext]_(Play!system) PROVE Play!TypeOK'
<1> USE DEF Play!TypeOK
<1>1. ASSUME Play!Main \/ Play!WakeSpuriously PROVE Play!TypeOK'
  <2> USE DEF Play!report, Play!pause, Play!Finish
  <2>1. left' = left \/ (left > 0 /\ left' = left - 1)
    BY <1>1 DEF Play!Main, Play!WakeSpuriously, Play!Create, Play!OpenFiles, Play!Fetch,
       Play!Test, Play!Wake, Play!Write, Play!Join
  <2>2. left' \in 0 .. MaxChunks
    BY <2>1, ProgramConstants
  <2>3. late' = late \/ late' = late + 1
    BY <1>1 DEF Play!Main, Play!WakeSpuriously, Play!Create, Play!OpenFiles, Play!Fetch,
       Play!Test, Play!Wake, Play!Write, Play!Join
  <2>4. late' \in Nat
    BY <2>3
  <2> QED
    BY <1>1, <2>2, <2>4 DEF Play!Main, Play!WakeSpuriously, Play!Create, Play!OpenFiles,
       Play!Fetch, Play!Test, Play!Wake, Play!Write, Play!Join
<1>2. ASSUME Play!Thread \/ Play!StartIoctl \/ Play!IoctlReturns PROVE Play!TypeOK'
  <2> USE DEF Play!mainVars, Play!report, Play!pause
  <2>1. late' = late \/ late' = 0
    BY <1>2 DEF Play!Thread, Play!StartIoctl, Play!IoctlReturns, Play!OpenDevices,
       Play!Loop, Play!Read, Play!Key
  <2>2. late' \in Nat
    BY <2>1
  <2> QED
    BY <1>2, <2>2 DEF Play!Thread, Play!StartIoctl, Play!IoctlReturns, Play!OpenDevices,
       Play!Loop, Play!Read, Play!Key
<1>3. ASSUME UNCHANGED Play!program PROVE Play!TypeOK'
  BY <1>3 DEF Play!program, Play!vars
<1> QED
  BY <1>1, <1>2, <1>3 DEF Play!SystemNext, Play!MainStep, Play!ThreadStep, Play!CallIoctl,
     Play!ReturnFromIoctl, Play!SetVolume, Play!SetVolumeDone, Play!Chip, Play!system

\* A chunk is written late only if it was tested before the click.
LEMMA PauseKept ==
    ASSUME Play!TypeOK, PauseInv, [Play!SystemNext]_(Play!system) PROVE PauseInv'
<1> USE DEF PauseInv
<1>1. CASE Play!Write
  <2>1. late = 0 /\ (paused \/ ~paused)
    BY <1>1 DEF Play!Write
  <2>2. late' = IF paused THEN 1 ELSE 0
    BY <1>1, <2>1 DEF Play!Write
  <2>3. late' <= 1 /\ (late' = 0 \/ late' = 1)
    BY <2>2
  <2>4. paused' = paused /\ main' # "write"
    BY <1>1 DEF Play!Write, Play!Finish
  <2> QED
    BY <2>2, <2>3, <2>4
<1>2. CASE Play!Key
  <2>1. CASE click
    <3>1. late' = 0
      BY <1>2, <2>1 DEF Play!Key
    <3> QED
      BY <3>1
  <2>2. CASE ~click
    <3>1. late' = late /\ main' = main /\ (paused' <=> paused)
      BY <1>2, <2>2 DEF Play!Key, Play!TypeOK, Play!mainVars
    <3> QED
      BY <3>1
  <2> QED
    BY <2>1, <2>2
<1>3. CASE Play!Test
  BY <1>3 DEF Play!Test, Play!report, Play!pause
<1>4. CASE \/ Play!Create \/ Play!OpenFiles \/ Play!Fetch \/ Play!Wake \/ Play!Join
           \/ Play!WakeSpuriously
  BY <1>4 DEF Play!Create, Play!OpenFiles, Play!Fetch, Play!Wake, Play!Join, Play!Finish,
     Play!WakeSpuriously, Play!report, Play!pause
<1>5. CASE \/ Play!OpenDevices \/ Play!Loop \/ Play!Read \/ Play!StartIoctl
           \/ Play!IoctlReturns
  BY <1>5 DEF Play!OpenDevices, Play!Loop, Play!Read, Play!StartIoctl, Play!IoctlReturns,
     Play!mainVars, Play!report, Play!pause
<1>6. CASE UNCHANGED Play!program
  BY <1>6 DEF Play!program, Play!vars
<1> QED
  BY <1>1, <1>2, <1>3, <1>4, <1>5, <1>6
  DEF Play!SystemNext, Play!MainStep, Play!ThreadStep, Play!Main, Play!Thread,
      Play!CallIoctl, Play!ReturnFromIoctl, Play!SetVolume, Play!SetVolumeDone,
      Play!Chip, Play!system

\* Only the count is compared, and only the thread changes it.
LEMMA KnobKept ==
    ASSUME Play!TypeOK, KnobInv, [Play!SystemNext]_(Play!system) PROVE KnobInv'
<1> USE DEF KnobInv
<1>1. CASE UNCHANGED <<main, thread, now, last, Play!driver>>
  BY <1>1 DEF Play!driver, Play!register
<1>2. CASE (Play!Thread \/ Play!Main \/ Play!WakeSpuriously) /\ UNCHANGED Play!driver
  <2>1. CASE Play!Main \/ Play!WakeSpuriously \/ Play!Key \/ Play!OpenDevices \/ Play!Loop
    <3>1. /\ UNCHANGED <<now, last>>
          /\ thread' = thread \/ thread' \in {"open", "loop", "read", "gone"}
          /\ main' # "create" \/ UNCHANGED <<main, thread>>
          /\ thread = "called" => thread' = "called"
      <4>1. CASE Play!Key \/ Play!OpenDevices \/ Play!Loop
        BY <4>1 DEF Play!OpenDevices, Play!Loop, Play!Key, Play!mainVars, Play!report,
           Play!pause
      <4>2. CASE Play!Create
        BY <4>2 DEF Play!Create, Play!report
      <4>3. CASE \/ Play!OpenFiles \/ Play!Fetch \/ Play!Test \/ Play!Wake \/ Play!Write
                 \/ Play!Join \/ Play!WakeSpuriously
        BY <4>3 DEF Play!OpenFiles, Play!Fetch, Play!Test, Play!Wake, Play!Write, Play!Join,
           Play!WakeSpuriously, Play!Finish, Play!report
      <4> QED
        BY <2>1, <4>1, <4>2, <4>3 DEF Play!Main
    <3> QED
      BY <1>2, <3>1 DEF Play!driver, Play!register
  <2>2. CASE Play!Read
    <3>1. /\ thread = "read" /\ last' = last /\ main' = main
          /\ thread' \in {"ioctl", "key", "loop"}
          /\ thread' = "key" => now' = last
      BY <2>2 DEF Play!Read, Play!mainVars
    <3> QED
      BY <1>2, <3>1 DEF Play!driver, Play!register
  <2> QED
    BY <1>2, <2>1, <2>2 DEF Play!Thread
<1>3. CASE Play!CallIoctl
  BY <1>3 DEF Play!CallIoctl, Play!StartIoctl, Play!Driver!Ask, Play!mainVars,
     Play!report
<1>4. CASE Play!ReturnFromIoctl
  BY <1>4 DEF Play!ReturnFromIoctl, Play!IoctlReturns, Play!Driver!Return,
     Play!mainVars
<1>5. CASE Play!SetVolume
  BY <1>5, ProgramConstants DEF Play!SetVolume, Play!Driver!Ask, Play!program, Play!vars
<1>6. CASE Play!SetVolumeDone
  BY <1>6 DEF Play!SetVolumeDone, Play!Driver!Return, Play!program, Play!vars
<1>7. CASE Play!Chip
  BY <1>7 DEF Play!Chip, Play!Driver!Set, Play!Driver!Fail, Play!program, Play!vars
<1> QED
  BY <1>1, <1>2, <1>3, <1>4, <1>5, <1>6, <1>7
  DEF Play!SystemNext, Play!MainStep, Play!ThreadStep, Play!system, Play!program,
      Play!vars

LEMMA NextProgram == ASSUME ProgramInv, [MCNext]_MCvars PROVE ProgramInv'
<1>1. CASE subject = "program"
  <2>1. [Play!SystemNext]_(Play!system) /\ subject' = subject
    BY <1>1 DEF MCNext, MCvars, playing, Play!system, Play!program, Play!driver,
       Play!register, Play!vars
  <2>2. Play!TypeOK /\ PauseInv /\ KnobInv
    BY <1>1 DEF ProgramInv
  <2>3. Play!TypeOK' /\ PauseInv' /\ KnobInv'
    BY <2>1, <2>2, TypeKept, PauseKept, KnobKept
  <2> QED
    BY <1>1, <2>1, <2>3 DEF ProgramInv
<1>2. CASE subject # "program"
  <2>1. UNCHANGED <<subject, late, thread>>
    BY <1>2 DEF MCNext, MCvars, playing
  <2> QED
    BY <1>2, <2>1 DEF ProgramInv
<1> QED
  BY <1>1, <1>2

LEMMA ProgramInvariant == MCSpec => []ProgramInv
BY InitProgram, NextProgram, PTL DEF MCSpec

\* For any song and any clicks, a click stops the music after one chunk at
\* most (ioctl_vol_ctrl.c, the loop of main and is_paused).
THEOREM OneChunkLate == MCSpec => []PauseHolds
<1>1. ProgramInv => PauseHolds
  BY DEF ProgramInv, PauseInv, PauseHolds, Play!PauseHolds
<1> QED
  BY <1>1, ProgramInvariant, PTL

\* After each report the chip plays at the volume of its count, although only
\* changes are passed on, whatever the encoder reports and whatever volumes
\* setvolume is called with (ioctl_vol_ctrl.c, volume_control_thread_func).
THEOREM KnobIsFollowed == MCSpec => []VolumeFollowsKnob
<1>1. ProgramInv => VolumeFollowsKnob
  BY DEF ProgramInv, KnobInv, VolumeFollowsKnob, Play!VolumeFollowsKnob
<1> QED
  BY <1>1, ProgramInvariant, PTL

-----------------------------------------------------------------------------
\* Every part keeps its types (the control path by Vs10xxControl_proofs).
THEOREM ChipTypes == MCSpec => []TypesOK
<1>1. IInv /\ LifeInv /\ EntriesInv /\ ProgramInv => TypesOK
  BY DEF IInv, LifeInv, EntriesInv, ProgramInv, TypesOK
<1> QED
  BY <1>1, Parts, Invariance, LifeInvariant, QueueInvariant, ProgramInvariant, PTL

=============================================================================
