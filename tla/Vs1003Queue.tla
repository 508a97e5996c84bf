------------------------------ MODULE Vs1003Queue ------------------------------
(***************************************************************************)
(* The buffer queue of the older driver (mp3_decoder): a pool of empty     *)
(* entries and a list of filled ones, a counter of the free ones and a     *)
(* flag that says whether it was allocated.  The queue takes no lock; its  *)
(* user calls one operation at a time, asks isfull before it takes a slot  *)
(* and isempty before it takes the head, and is outside the repository.    *)
(***************************************************************************)
EXTENDS Integers, Sequences

CONSTANTS
    QueueLen,       \* queuelen
    MaxFills,       \* bound: buffers filled by the user
    MaxFlushed,     \* bound: entries that have been flushed before a flush
    MaxInits        \* bound: calls of vs1003_queue_init

QueueLenAssumption == QueueLen \in Nat \ {0}
BoundsAssumption == MaxFills \in Nat /\ MaxFlushed \in Nat /\ MaxInits \in Nat

Entries == 1 .. QueueLen

VARIABLES
    pool, data,     \* the two lists of entries
    len,            \* whether the buffer of an entry has a length above 0
    body,           \* the number of the filling that is in its buffer
    free, valid,
    inits,          \* initialisations so far (bounds the run)
    fills,          \* fillings so far (bounds the run)
    flushed         \* history: entries moved by a flush since then

vars == <<pool, data, len, body, free, valid, inits, fills, flushed>>
buffers == <<len, body>>
bounds == <<inits, fills>>

TypeOK ==
    /\ pool \in Seq(Entries) /\ data \in Seq(Entries)
    /\ len \in [Entries -> BOOLEAN]
    /\ body \in [Entries -> 0 .. MaxFills]
    /\ free \in Int
    /\ valid \in BOOLEAN
    /\ inits \in 0 .. MaxInits /\ fills \in 0 .. MaxFills
    /\ flushed \in Nat

Init ==
    /\ pool = <<>> /\ data = <<>>
    /\ len = [e \in Entries |-> FALSE]
    /\ body = [e \in Entries |-> 0]
    /\ free = 0
    /\ valid = FALSE
    /\ inits = 0 /\ fills = 0 /\ flushed = 0

\* vs1003_queue_alloc: each entry goes to the front.  After a failed kzalloc
\* the entries that were allocated stay in the pool of a queue that is not
\* valid: nothing frees them.
Alloc ==
    /\ ~valid
    /\ inits < MaxInits
    /\ inits' = inits + 1
    /\ \E n \in 0 .. QueueLen :
          /\ pool' = [i \in 1 .. n |-> n + 1 - i]
          /\ valid' = (n = QueueLen)
          /\ free' = IF n = QueueLen THEN QueueLen ELSE 0
    /\ data' = <<>>
    /\ len' = [e \in Entries |-> FALSE]
    /\ body' = [e \in Entries |-> 0]
    /\ flushed' = 0
    /\ UNCHANGED fills

\* The user fills the slot that vs1003_queue_getslot returns.
Fill ==
    /\ valid
    /\ pool # <<>>
    /\ fills < MaxFills
    /\ fills' = fills + 1
    /\ len' = [len EXCEPT ![Head(pool)] = TRUE]
    /\ body' = [body EXCEPT ![Head(pool)] = fills + 1]
    /\ UNCHANGED <<pool, data, free, valid, inits, flushed>>

\* A slot that was not filled is not taken over.
Enqueue ==
    /\ valid
    /\ pool # <<>>
    /\ len[Head(pool)]
    /\ data' = Append(data, Head(pool))
    /\ pool' = Tail(pool)
    /\ free' = free - 1
    /\ UNCHANGED <<buffers, valid, bounds, flushed>>

\* Mutant: the length of the buffer is left as it is.
DequeueKept ==
    /\ valid
    /\ data # <<>>
    /\ pool' = Append(pool, Head(data))
    /\ data' = Tail(data)
    /\ free' = free + 1
    /\ UNCHANGED <<buffers, valid, bounds, flushed>>

Dequeue ==
    /\ valid
    /\ data # <<>>
    /\ pool' = Append(pool, Head(data))
    /\ data' = Tail(data)
    /\ len' = [len EXCEPT ![Head(data)] = FALSE]
    /\ free' = free + 1
    /\ UNCHANGED <<body, valid, bounds, flushed>>

\* Mutant: the entries are counted, but not moved.
FlushForgetful ==
    /\ valid
    /\ flushed <= MaxFlushed
    /\ data' = <<>>
    /\ flushed' = flushed + Len(data)
    /\ UNCHANGED <<pool, buffers, free, valid, bounds>>

\* The entries go back to the pool as they are, lengths included, and the
\* counter is not told.
Flush ==
    /\ valid
    /\ flushed <= MaxFlushed
    /\ pool' = pool \o data
    /\ data' = <<>>
    /\ flushed' = flushed + Len(data)
    /\ UNCHANGED <<buffers, free, valid, bounds>>

\* vs1003_queue_exit.
Free ==
    /\ valid
    /\ pool' = <<>> /\ data' = <<>>
    /\ free' = 0
    /\ valid' = FALSE
    /\ flushed' = 0
    /\ UNCHANGED <<buffers, bounds>>

Next == Alloc \/ Fill \/ Enqueue \/ Dequeue \/ Flush \/ Free

Spec == Init /\ [][Next]_vars

-----------------------------------------------------------------------------
\* No operation loses or doubles an entry, and the counter of the free ones is
\* behind by just what flushes have moved, never ahead: it may fall below 0,
\* but a user who trusts it does not write into an entry that is not free.
\* Until the first flush the queue hands out the fillings in their order, each
\* once: an entry that was taken out and not filled again does not come back.
EntriesAccounted ==
    LET all == pool \o data
    IN  valid =>
        /\ Len(all) = QueueLen
        /\ \A i, j \in 1 .. Len(all) : i # j => all[i] # all[j]
        /\ free + flushed = Len(pool)
        /\ flushed = 0 => \A i, j \in 1 .. Len(data) :
              len[data[i]] /\ (i < j => body[data[i]] < body[data[j]])
=============================================================================
