------------------------------- MODULE Vs10xxTx -------------------------------
(***************************************************************************)
(* The transmit path of the vs10xx audio decoder driver                    *)
(* (mp3_decoder_github/vs10xx_main.c, vs10xx_queue.c, vs10xx_iocomm.c).    *)
(*                                                                         *)
(* A chip owns a fixed set of 32-byte buffers.  They circulate between the *)
(* pool of free buffers (tx_pool_q) and the queue of filled ones           *)
(* (tx_data_q).  Every process inside write() first queues all its chunks  *)
(* and then drains the data queue, its own chunks or not, into the chip.   *)
(* Both queues have a spinlock, taken inside get_head and put_tail, so     *)
(* each of these calls is one step; the list_add that returns a buffer to  *)
(* the front of the data queue takes no lock and is two steps.             *)
(*                                                                         *)
(* Chips share nothing, so one chip is modelled.                           *)
(***************************************************************************)
EXTENDS Naturals, Sequences, FiniteSets

CONSTANTS
    Writers,        \* the processes that call write() on the device
    N,              \* buffers of a chip (VS10XX_QUEUE_MAX_ELEMENTS)
    MaxCalls,       \* bound: write() calls of each process
    MaxChunks,      \* bound: 32-byte chunks of one call
    MaxSignals,     \* bound: signals delivered to sleeping processes
    Env,            \* what the surroundings of the driver may do
    Blank           \* what a fresh or zero-filled buffer holds

\* The members of Env.  "stall": the chip holds DREQ low through all polls of
\* vs10xx_io_wtready; "short": a write is not a multiple of 32 bytes long;
\* "efault": the user's buffer is not mapped; "spi": an SPI transfer fails;
\* "signal": a signal reaches a sleeping process; "control": a control
\* command of another process makes the chip busy.
Surroundings == {"stall", "short", "efault", "spi", "signal", "control"}

ASSUME WritersAssumption == IsFiniteSet(Writers) /\ Writers # {}
ASSUME PoolAssumption == N \in Nat \ {0}
ASSUME BoundAssumption ==
    /\ MaxCalls \in Nat
    /\ MaxChunks \in Nat
    /\ MaxSignals \in Nat
ASSUME EnvAssumption == Env \subseteq Surroundings

Buffers == 1 .. N
NoBuffer == 0                      \* get_head returned NULL
Buffer == Buffers \cup {NoBuffer}

\* A chunk is identified by the call that hands it over; only the last chunk
\* of a call can be shorter than a buffer.
Chunk == [by : Writers, call : 1 .. MaxCalls, index : 1 .. MaxChunks,
          whole : BOOLEAN]
ASSUME BlankAssumption == Blank \notin Chunk
Byte == Chunk \cup {Blank}
\* The front of a buffer is what even the shortest chunk overwrites.
Block == [front : Byte, back : Byte]

VARIABLES
    pool,       \* tx_pool_q, head first
    data,       \* tx_data_q, head first
    content,    \* what each buffer holds
    held,       \* the buffer a process has taken out of the queues (qel)
    pc,         \* where in write() each process is
    size,       \* chunks of the call in progress (count)
    short,      \* its last chunk is shorter than a buffer
    done,       \* chunks it has queued so far (total_written)
    asleep,     \* processes waiting on tx_wq
    snap,       \* head.next as the unlocked list_add read it
    damaged,    \* an unlocked list_add raced: the data list is undefined
    dreq,       \* the chip's data-request line
    late,       \* history: blocks each process has sent to a chip that did not
                \* ask for data, since the chip asked last
    calls,      \* write() calls started (bounds the run)
    signals,    \* signals delivered (bounds the run)
    accepted,   \* history: the chunks put in the data queue by write()
    sent        \* history: the blocks that reached the chip

queues == <<pool, data, content, snap, damaged>>
job == <<size, short, calls>>
chip == <<dreq, late>>
vars == <<pool, data, content, held, pc, size, short, done, asleep, snap,
          damaged, dreq, late, calls, signals, accepted, sent>>

Labels == {"idle", "fill", "copy", "drain", "poll", "send", "requeue",
           "recycle", "wake"}

TypeOK ==
    /\ pool \in Seq(Buffers)
    /\ data \in Seq(Buffers)
    /\ content \in [Buffers -> Block]
    /\ held \in [Writers -> Buffer]
    /\ pc \in [Writers -> Labels]
    /\ size \in [Writers -> 0 .. MaxChunks]
    /\ short \in [Writers -> BOOLEAN]
    /\ done \in [Writers -> 0 .. MaxChunks]
    /\ asleep \subseteq Writers
    /\ snap \in [Writers -> Buffer]
    /\ damaged \in BOOLEAN
    /\ dreq \in BOOLEAN
    /\ late \in [Writers -> Nat]
    /\ calls \in [Writers -> 0 .. MaxCalls]
    /\ signals \in 0 .. MaxSignals
    /\ accepted \in Seq(Chunk)
    /\ sent \in Seq(Block)

-----------------------------------------------------------------------------
(* The queues.  get_head removes the first element, or returns NULL.       *)

First(q) == IF q = <<>> THEN NoBuffer ELSE Head(q)
PutTail(q, b) == Append(q, b)
\* Mutant: list_add_tail where the code has list_add.
PutFrontAtTail(q, b) == Append(q, b)

PutFront(q, b) == <<b>> \o q

Init ==
    /\ pool = [i \in Buffers |-> i]
    /\ data = <<>>
    /\ content = [b \in Buffers |-> [front |-> Blank, back |-> Blank]]
    /\ held = [w \in Writers |-> NoBuffer]
    /\ pc = [w \in Writers |-> "idle"]
    /\ size = [w \in Writers |-> 0]
    /\ short = [w \in Writers |-> FALSE]
    /\ done = [w \in Writers |-> 0]
    /\ asleep = {}
    /\ snap = [w \in Writers |-> NoBuffer]
    /\ damaged = FALSE
    /\ dreq = TRUE
    /\ late = [w \in Writers |-> 0]
    /\ calls = [w \in Writers |-> 0]
    /\ signals = 0
    /\ accepted = <<>>
    /\ sent = <<>>

-----------------------------------------------------------------------------
(* The filling loop of vs10xx_write, lines 43 to 61.                        *)

\* Mutant: <= for < in the loop test.
LoopHeadPastEnd(queued, n) == IF queued <= n THEN "fill" ELSE "drain"

\* The loop test: another chunk to queue, or on to the draining loop.
LoopHead(queued, n) == IF queued < n THEN "fill" ELSE "drain"

\* A process enters write() with n chunks, the last one whole or not.  An
\* empty write skips the filling loop and only drains.
Begin(w, n, cut) ==
    /\ ~damaged
    /\ pc[w] = "idle"
    /\ calls[w] < MaxCalls
    /\ cut => "short" \in Env /\ n > 0
    /\ calls' = [calls EXCEPT ![w] = @ + 1]
    /\ size' = [size EXCEPT ![w] = n]
    /\ short' = [short EXCEPT ![w] = cut]
    /\ done' = [done EXCEPT ![w] = 0]
    /\ pc' = [pc EXCEPT ![w] = LoopHead(0, n)]
    /\ UNCHANGED <<queues, held, asleep, chip, signals, accepted, sent>>

\* wait_event_interruptible: the condition itself takes the buffer.
TakeFree(w) ==
    /\ ~damaged
    /\ pc[w] = "fill"
    /\ w \notin asleep
    /\ pool # <<>>
    /\ held' = [held EXCEPT ![w] = Head(pool)]
    /\ pool' = Tail(pool)
    /\ pc' = [pc EXCEPT ![w] = "copy"]
    /\ UNCHANGED <<data, content, snap, damaged, job, done, asleep, chip,
                   signals, accepted, sent>>

\* The process is on the wait queue before the condition is evaluated, so
\* finding the pool empty and going to sleep is one step to any waker.
Sleep(w) ==
    /\ ~damaged
    /\ pc[w] = "fill"
    /\ w \notin asleep
    /\ pool = <<>>
    /\ asleep' = asleep \cup {w}
    /\ UNCHANGED <<queues, held, pc, job, done, chip, signals, accepted,
                   sent>>

\* A signal wakes a sleeping process.  The condition is evaluated once more:
\* the process takes a buffer if there is one, otherwise write() gives up
\* with ERESTARTSYS, which forgets how many chunks it has queued and either
\* starts the call again from its first byte or returns EINTR.
Signal(w) ==
    /\ ~damaged
    /\ "signal" \in Env
    /\ signals < MaxSignals
    /\ w \in asleep
    /\ signals' = signals + 1
    /\ asleep' = asleep \ {w}
    /\ \/ /\ pool # <<>>
          /\ held' = [held EXCEPT ![w] = Head(pool)]
          /\ pool' = Tail(pool)
          /\ pc' = [pc EXCEPT ![w] = "copy"]
          /\ UNCHANGED done
       \/ /\ pool = <<>>
          /\ \/ /\ pc' = [pc EXCEPT ![w] = LoopHead(0, size[w])]
                /\ done' = [done EXCEPT ![w] = 0]
             \/ /\ pc' = [pc EXCEPT ![w] = "idle"]
                /\ UNCHANGED done
          /\ UNCHANGED <<held, pool>>
    /\ UNCHANGED <<data, content, snap, damaged, job, chip, accepted, sent>>

\* The chunk the process copies now.
NextChunk(w) ==
    [by |-> w, call |-> calls[w], index |-> done[w] + 1,
     whole |-> short[w] => done[w] + 1 < size[w]]

\* Mutant: the end of the buffer is never written.
OverwriteFrontOnly(block, c) == [front |-> c, back |-> block.back]

\* A short chunk leaves the end of the buffer as it was.
Overwrite(block, c) ==
    [front |-> c, back |-> IF c.whole THEN c ELSE block.back]

CopyAndQueue(w) ==
    /\ ~damaged
    /\ pc[w] = "copy"
    /\ content' = [content EXCEPT ![held[w]] = Overwrite(@, NextChunk(w))]
    /\ data' = PutTail(data, held[w])
    /\ held' = [held EXCEPT ![w] = NoBuffer]
    /\ accepted' = Append(accepted, NextChunk(w))
    /\ done' = [done EXCEPT ![w] = @ + 1]
    /\ pc' = [pc EXCEPT ![w] = LoopHead(done[w] + 1, size[w])]
    /\ UNCHANGED <<pool, snap, damaged, job, asleep, chip, signals, sent>>

\* What copy_from_user leaves in the buffer when it faults: a part of the
\* chunk, and zeros up to the length it was asked for.
Faulted(block, c) ==
    {[front |-> f, back |-> b] : f \in {Blank, c},
        b \in IF c.whole THEN {Blank, c} ELSE {block.back}}

\* Mutant: EFAULT returns without giving the buffer back.
CopyFaultForgets(w) ==
    /\ "efault" \in Env
    /\ pc[w] = "copy"
    /\ held' = [held EXCEPT ![w] = NoBuffer]
    /\ pc' = [pc EXCEPT ![w] = "idle"]
    /\ UNCHANGED <<queues, job, done, asleep, chip, signals, accepted, sent>>

\* The buffer goes back to the pool; write() returns EFAULT at once, without
\* waking anyone and without draining what it has queued.
CopyFault(w) ==
    /\ ~damaged
    /\ "efault" \in Env
    /\ pc[w] = "copy"
    /\ \E block \in Faulted(content[held[w]], NextChunk(w)) :
          content' = [content EXCEPT ![held[w]] = block]
    /\ pool' = PutTail(pool, held[w])
    /\ held' = [held EXCEPT ![w] = NoBuffer]
    /\ pc' = [pc EXCEPT ![w] = "idle"]
    /\ UNCHANGED <<data, snap, damaged, job, done, asleep, chip, signals,
                   accepted, sent>>

-----------------------------------------------------------------------------
(* The draining loop of vs10xx_write, lines 64 to 84.                       *)

TakeData(w) ==
    /\ ~damaged
    /\ pc[w] = "drain"
    /\ data # <<>>
    /\ held' = [held EXCEPT ![w] = Head(data)]
    /\ data' = Tail(data)
    /\ pc' = [pc EXCEPT ![w] = "poll"]
    /\ UNCHANGED <<pool, content, snap, damaged, job, done, asleep, chip,
                   signals, accepted, sent>>

\* The data queue is empty: write() returns the number of bytes accepted.
Return(w) ==
    /\ ~damaged
    /\ pc[w] = "drain"
    /\ data = <<>>
    /\ pc' = [pc EXCEPT ![w] = "idle"]
    /\ UNCHANGED <<queues, held, job, done, asleep, chip, signals, accepted,
                   sent>>

\* Mutant: the draining loop does not look at DREQ.
ReadyUnchecked(w) ==
    /\ ~damaged
    /\ pc[w] = "poll"
    /\ pc' = [pc EXCEPT ![w] = "send"]
    /\ UNCHANGED <<queues, held, job, done, asleep, chip, signals, accepted,
                   sent>>

\* A poll of vs10xx_io_wtready finds DREQ high.
Ready(w) ==
    /\ ~damaged
    /\ pc[w] = "poll"
    /\ dreq
    /\ pc' = [pc EXCEPT ![w] = "send"]
    /\ UNCHANGED <<queues, held, job, done, asleep, chip, signals, accepted,
                   sent>>

\* All polls found DREQ low.  list_add starts by reading head.next.
GiveUp(w) ==
    /\ ~damaged
    /\ "stall" \in Env
    /\ pc[w] = "poll"
    /\ ~dreq
    /\ snap' = [snap EXCEPT ![w] = First(data)]
    /\ pc' = [pc EXCEPT ![w] = "requeue"]
    /\ UNCHANGED <<pool, data, content, damaged, held, job, done, asleep,
                   chip, signals, accepted, sent>>

\* Mutant: the break after list_add is missing.
RequeueAndSend(w) ==
    /\ ~damaged
    /\ pc[w] = "requeue"
    /\ snap[w] = First(data)
    /\ data' = PutFront(data, held[w])
    /\ pc' = [pc EXCEPT ![w] = "send"]
    /\ UNCHANGED <<pool, content, snap, damaged, held, job, done, asleep,
                   chip, signals, accepted, sent>>

\* list_add links the buffer between the list head and the element it read,
\* and the loop is left.  If that is still the first element, the buffer is
\* at the front of the queue ...
Requeue(w) ==
    /\ ~damaged
    /\ pc[w] = "requeue"
    /\ snap[w] = First(data)
    /\ data' = PutFront(data, held[w])
    /\ held' = [held EXCEPT ![w] = NoBuffer]
    /\ pc' = [pc EXCEPT ![w] = "idle"]
    /\ UNCHANGED <<pool, content, snap, damaged, job, done, asleep, chip,
                   signals, accepted, sent>>

\* ... otherwise the stores of two list operations mix, and nothing is known
\* of the list any more.
RequeueTorn(w) ==
    /\ ~damaged
    /\ pc[w] = "requeue"
    /\ snap[w] # First(data)
    /\ damaged' = TRUE
    /\ UNCHANGED <<pool, data, content, snap, held, pc, job, done, asleep,
                   chip, signals, accepted, sent>>

\* vs10xx_io_data_tx always transfers the whole buffer.  The chip may be full
\* afterwards.  A failed transfer is logged and otherwise ignored.
Send(w) ==
    /\ ~damaged
    /\ pc[w] = "send"
    /\ \/ /\ sent' = Append(sent, content[held[w]])
          /\ dreq' \in {dreq, FALSE}
          /\ late' = IF dreq THEN late ELSE [late EXCEPT ![w] = @ + 1]
       \/ /\ "spi" \in Env
          /\ UNCHANGED <<sent, chip>>
    /\ pc' = [pc EXCEPT ![w] = "recycle"]
    /\ UNCHANGED <<queues, held, job, done, asleep, signals, accepted>>

\* Mutant: nobody is woken after a buffer has become free.
RecycleSilently(w) ==
    /\ ~damaged
    /\ pc[w] = "recycle"
    /\ pool' = PutTail(pool, held[w])
    /\ held' = [held EXCEPT ![w] = NoBuffer]
    /\ pc' = [pc EXCEPT ![w] = "drain"]
    /\ UNCHANGED <<data, content, snap, damaged, job, done, asleep, chip,
                   signals, accepted, sent>>

Recycle(w) ==
    /\ ~damaged
    /\ pc[w] = "recycle"
    /\ pool' = PutTail(pool, held[w])
    /\ held' = [held EXCEPT ![w] = NoBuffer]
    /\ pc' = [pc EXCEPT ![w] = "wake"]
    /\ UNCHANGED <<data, content, snap, damaged, job, done, asleep, chip,
                   signals, accepted, sent>>

\* Mutant: one block per call ("if" for "while" in line 64).
WakeAndLeave(w) ==
    /\ ~damaged
    /\ pc[w] = "wake"
    /\ asleep' = {}
    /\ pc' = [pc EXCEPT ![w] = "idle"]
    /\ UNCHANGED <<queues, held, job, done, chip, signals, accepted, sent>>

\* wake_up_interruptible wakes every process on tx_wq.
Wake(w) ==
    /\ ~damaged
    /\ pc[w] = "wake"
    /\ asleep' = {}
    /\ pc' = [pc EXCEPT ![w] = "drain"]
    /\ UNCHANGED <<queues, held, job, done, chip, signals, accepted, sent>>

-----------------------------------------------------------------------------
(* The chip.                                                               *)

ChipReady ==
    /\ ~damaged
    /\ ~dreq
    /\ dreq' = TRUE
    /\ late' = [w \in Writers |-> 0]
    /\ UNCHANGED <<queues, held, pc, job, done, asleep, signals, accepted,
                   sent>>

ChipBusy ==
    /\ ~damaged
    /\ "control" \in Env
    /\ dreq
    /\ dreq' = FALSE
    /\ UNCHANGED <<late, queues, held, pc, job, done, asleep, signals, accepted,
                   sent>>

-----------------------------------------------------------------------------
\* What the kernel does for a process once it has called write().
Step(w) ==
    \/ TakeFree(w) \/ Sleep(w) \/ CopyAndQueue(w) \/ CopyFault(w)
    \/ TakeData(w) \/ Return(w) \/ Ready(w) \/ GiveUp(w)
    \/ Requeue(w) \/ RequeueTorn(w) \/ Send(w) \/ Recycle(w) \/ Wake(w)

Call(w) == \E n \in 0 .. MaxChunks, cut \in BOOLEAN : Begin(w, n, cut)

Next ==
    \/ \E w \in Writers : Call(w) \/ Signal(w) \/ Step(w)
    \/ ChipReady
    \/ ChipBusy

Spec == Init /\ [][Next]_vars

\* The scheduler runs every runnable process and the chip eventually plays
\* what it holds; nobody has to call write() or to send a signal.
Fairness ==
    /\ \A w \in Writers : WF_vars(Step(w))
    /\ WF_vars(ChipReady)

FairSpec == Spec /\ Fairness
-----------------------------------------------------------------------------
(* Safety.                                                                 *)

Elems(q) == {q[i] : i \in 1 .. Len(q)}
NoDup(q) == \A i, j \in 1 .. Len(q) : q[i] = q[j] => i = j

\* The places of write() at which a process owns a buffer.
Owning == {"copy", "poll", "send", "requeue", "recycle"}

\* Every buffer is in exactly one place: the pool, the data queue, or the
\* hands of one process between the two.  No path of write() (EFAULT, a
\* signal, a stalled chip, a failed transfer) leaks a buffer or frees it
\* twice, however many processes write.
HeldApart ==
    /\ \A w \in Writers : held[w] # NoBuffer <=> pc[w] \in Owning
    /\ \A v, w \in Writers : held[v] = held[w] /\ v # w => held[v] = NoBuffer
    /\ \A w \in Writers : held[w] \notin Elems(pool) \cup Elems(data)
QueuesApart ==
    /\ NoDup(pool)
    /\ NoDup(data)
    /\ Elems(pool) \cap Elems(data) = {}
NoneLeaked ==
    Buffers \subseteq Elems(pool) \cup Elems(data) \cup {held[w] : w \in Writers}
Conservation == HeldApart /\ QueuesApart /\ NoneLeaked

\* A process sleeps on tx_wq only while the pool is empty, unless the process
\* that refilled the pool is about to call wake_up_interruptible
\* (vs10xx_main.c:48, 80-83).
NoLostWakeup ==
    asleep # {} /\ pool # <<>> => \E w \in Writers : pc[w] = "wake"

\* The buffers whose chunk was accepted and is neither sent nor lost.
Backlog ==
    Elems(data) \cup
    {held[w] : w \in {v \in Writers : pc[v] \in {"poll", "send", "requeue"}}}
Fronts(blocks) == [i \in DOMAIN blocks |-> blocks[i].front]
Occurrences(q, c) == Cardinality({i \in DOMAIN q : q[i] = c})

\* Whatever the order, each accepted chunk is sent once or still waits in
\* exactly one buffer, and nothing else is sent: no buffer is filled again
\* while its chunk waits.  Only a failed transfer loses a chunk.
EachChunkOnce ==
    \A c \in Byte :
        LET kept == Cardinality({b \in Backlog : content[b].front = c})
            seen == Occurrences(Fronts(sent), c) + kept
            owed == Occurrences(accepted, c)
        IN  IF "spi" \in Env THEN seen <= owed ELSE seen = owed

\* A chunk that fills its buffer reaches the chip unmixed; the stale end of a
\* buffer is only ever sent behind the short last chunk of a write.
WholeChunksUnmixed ==
    \A i \in DOMAIN sent :
        sent[i].front \in Chunk /\ sent[i].front.whole
            => sent[i].back = sent[i].front

\* While chunks wait in the data queue, some process inside write() is awake
\* and will reach the draining loop: not everybody sleeps on tx_wq for
\* buffers nobody frees.  (Provided no chip stall, fault or signal takes a
\* process out of write(), and the pool is larger than what all processes
\* can queue while each still wants one more buffer.)
SomeoneDrains ==
    data # <<>> => \E w \in Writers \ asleep : pc[w] # "idle"

\* DREQ is tested before each block (vs10xx_main.c:66) and the block sent in a
\* later step; a block of another process or a control command can fill the
\* chip in between.  But until the chip asks for data again, each process sends
\* it at most the one block for which it had found DREQ high: the chip gets no
\* more blocks too many than there are processes.
OneLateBlock == \A w \in Writers : late[w] <= 1

\* No two list operations race on the data list.
ListIntact == ~damaged

-----------------------------------------------------------------------------
(* Liveness.                                                               *)

\* Every write() returns (vs10xx.h:44-45: processes sleep for a while).
EveryWriteReturns ==
    \A w \in Writers : pc[w] # "idle" ~> pc[w] = "idle"

\* What a write() has queued is eventually taken out to be sent.
BacklogDrains == data # <<>> ~> data = <<>>
=============================================================================
