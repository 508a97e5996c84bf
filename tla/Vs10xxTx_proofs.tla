--------------------------- MODULE Vs10xxTx_proofs ---------------------------
(***************************************************************************)
(* Proofs about the transmit path, for any pool, any processes and any     *)
(* surroundings.                                                           *)
(***************************************************************************)
EXTENDS Vs10xxTx, TLAPS

(* The two queues as sequences of buffers. *)

\* get_head and put_tail, and list_add, change the members of a queue by
\* exactly the buffer they move.
LEMMA PutTailElems ==
    ASSUME NEW q \in Seq(Buffers), NEW b \in Buffers
    PROVE  /\ PutTail(q, b) \in Seq(Buffers)
           /\ Elems(PutTail(q, b)) = Elems(q) \cup {b}
<1>1. PutTail(q, b) \in Seq(Buffers)
  BY DEF PutTail
<1>2. /\ Len(PutTail(q, b)) = Len(q) + 1
      /\ \A i \in 1 .. Len(q) : PutTail(q, b)[i] = q[i]
      /\ PutTail(q, b)[Len(q) + 1] = b
  BY DEF PutTail
<1>3. Len(q) \in Nat
  OBVIOUS
<1> QED
  BY <1>1, <1>2, <1>3 DEF Elems

\* So for a buffer put back at the front.
LEMMA PutFrontElems ==
    ASSUME NEW q \in Seq(Buffers), NEW b \in Buffers
    PROVE  /\ PutFront(q, b) \in Seq(Buffers)
           /\ Elems(PutFront(q, b)) = Elems(q) \cup {b}
<1>1. PutFront(q, b) \in Seq(Buffers)
  BY DEF PutFront
<1>2. /\ Len(PutFront(q, b)) = Len(q) + 1
      /\ \A i \in 1 .. Len(q) : PutFront(q, b)[i + 1] = q[i]
      /\ PutFront(q, b)[1] = b
  BY DEF PutFront
<1>3. Len(q) \in Nat
  OBVIOUS
<1>4. ASSUME NEW i \in 1 .. Len(PutFront(q, b))
      PROVE  PutFront(q, b)[i] \in Elems(q) \cup {b}
  <2>1. CASE i = 1
    BY <1>2, <2>1
  <2>2. CASE i # 1
    <3>1. i - 1 \in 1 .. Len(q) /\ (i - 1) + 1 = i
      BY <1>2, <1>3, <2>2
    <3> QED
      BY <1>2, <3>1 DEF Elems
  <2> QED
    BY <2>1, <2>2
<1>5. \A i \in 1 .. Len(q) : /\ i + 1 \in 1 .. Len(PutFront(q, b))
                             /\ PutFront(q, b)[i + 1] = q[i]
  BY <1>2, <1>3
<1>6. 1 \in 1 .. Len(PutFront(q, b))
  BY <1>2, <1>3
<1>7. Elems(PutFront(q, b)) \subseteq Elems(q) \cup {b}
  BY <1>4 DEF Elems
<1>8. Elems(q) \cup {b} \subseteq Elems(PutFront(q, b))
  BY <1>2, <1>5, <1>6 DEF Elems
<1> QED
  BY <1>1, <1>7, <1>8

\* So for the head of a queue.
LEMMA TakeHeadElems ==
    ASSUME NEW q \in Seq(Buffers), q # <<>>, NoDup(q)
    PROVE  /\ Head(q) \in Elems(q)
           /\ Head(q) \in Buffers
           /\ Tail(q) \in Seq(Buffers)
           /\ Elems(Tail(q)) = Elems(q) \ {Head(q)}
           /\ NoDup(Tail(q))
<1>1. /\ Len(q) \in Nat \ {0}
      /\ Head(q) = q[1]
      /\ Head(q) \in Buffers
      /\ Tail(q) \in Seq(Buffers)
      /\ Len(Tail(q)) = Len(q) - 1
      /\ \A i \in 1 .. Len(q) - 1 : Tail(q)[i] = q[i + 1]
  OBVIOUS
<1>2. \A i \in 1 .. Len(q) - 1 : i + 1 \in 1 .. Len(q) /\ i + 1 # 1
  BY <1>1
<1>3. 1 \in 1 .. Len(q)
  BY <1>1
<1>4. NoDup(Tail(q))
  BY <1>1, <1>2 DEF NoDup
<1>5. Elems(Tail(q)) \subseteq Elems(q) \ {Head(q)}
  BY <1>1, <1>2, <1>3 DEF Elems, NoDup
<1>6. ASSUME NEW i \in 1 .. Len(q), q[i] # Head(q)
      PROVE  q[i] \in Elems(Tail(q))
  <2>1. i - 1 \in 1 .. Len(q) - 1 /\ (i - 1) + 1 = i
    BY <1>1, <1>6
  <2>2. Tail(q)[i - 1] = q[i]
    BY <1>1, <2>1
  <2> QED
    BY <1>1, <2>1, <2>2 DEF Elems
<1>7. Elems(q) \ {Head(q)} \subseteq Elems(Tail(q))
  BY <1>6 DEF Elems
<1> QED
  BY <1>1, <1>3, <1>4, <1>5, <1>7 DEF Elems

\* A queue without duplicates stays so when a buffer from outside joins it.
LEMMA PutTailNoDup ==
    ASSUME NEW q \in Seq(Buffers), NEW b \in Buffers,
           NoDup(q), b \notin Elems(q)
    PROVE  NoDup(PutTail(q, b))
<1>1. /\ Len(PutTail(q, b)) = Len(q) + 1
      /\ \A i \in 1 .. Len(q) : PutTail(q, b)[i] = q[i] /\ q[i] # b
      /\ PutTail(q, b)[Len(q) + 1] = b
      /\ Len(q) \in Nat
  BY DEF PutTail, Elems
<1>2. \A i \in 1 .. Len(q) + 1 : i \in 1 .. Len(q) \/ i = Len(q) + 1
  BY <1>1
<1> QED
  BY <1>1, <1>2 DEF NoDup

\* The same at the front.
LEMMA PutFrontNoDup ==
    ASSUME NEW q \in Seq(Buffers), NEW b \in Buffers,
           NoDup(q), b \notin Elems(q)
    PROVE  NoDup(PutFront(q, b))
<1>1. /\ Len(PutFront(q, b)) = Len(q) + 1
      /\ \A i \in 1 .. Len(q) : PutFront(q, b)[i + 1] = q[i] /\ q[i] # b
      /\ PutFront(q, b)[1] = b
      /\ Len(q) \in Nat
  BY DEF PutFront, Elems
<1>2. \A i \in 1 .. Len(q) + 1 :
         i = 1 \/ (i - 1 \in 1 .. Len(q) /\ (i - 1) + 1 = i)
  BY <1>1
<1>3. \A i \in 1 .. Len(q) + 1 :
         i = 1 \/ (i - 1 \in 1 .. Len(q) /\ PutFront(q, b)[i] = q[i - 1])
  BY <1>1, <1>2
<1> QED
  BY <1>1, <1>2, <1>3 DEF NoDup
-----------------------------------------------------------------------------
(* Type correctness.  A process that copies a chunk holds a buffer and has  *)
(* a chunk left to copy, which is what keeps chunk numbers in range.        *)

\* A process in write() has started a call, and the filling loop still has a
\* chunk to queue.
Counted ==
    \A w \in Writers :
        /\ pc[w] # "idle" => calls[w] \in 1 .. MaxCalls
        /\ pc[w] \in {"fill", "copy"} => done[w] < size[w]

SleepersFill == \A w \in asleep : pc[w] = "fill"

IInv == TypeOK /\ Counted /\ SleepersFill /\ Conservation

\* The loop test leaves the filling loop exactly when all chunks are queued.
LEMMA LoopHeadType ==
    ASSUME NEW k \in Nat, NEW n \in Nat, k <= n
    PROVE  /\ LoopHead(k, n) \in {"fill", "drain"}
           /\ LoopHead(k, n) = "fill" => k < n
BY DEF LoopHead

\* A process that copies has a chunk to copy, within its call.
LEMMA NextChunkType ==
    ASSUME TypeOK, Counted, NEW w \in Writers, pc[w] = "copy"
    PROVE  /\ NextChunk(w) \in Chunk
           /\ done[w] + 1 \in 0 .. MaxChunks
           /\ done[w] + 1 <= size[w]
<1>1. /\ calls[w] \in 1 .. MaxCalls
      /\ done[w] \in 0 .. MaxChunks
      /\ size[w] \in 0 .. MaxChunks
      /\ done[w] < size[w]
      /\ short[w] \in BOOLEAN
  BY DEF TypeOK, Counted
<1>2. done[w] + 1 \in 1 .. MaxChunks
  BY <1>1, BoundAssumption
<1>3. (short[w] => done[w] + 1 < size[w]) \in BOOLEAN
  OBVIOUS
<1>4. NextChunk(w) \in Chunk
  BY <1>1, <1>2, <1>3 DEF NextChunk, Chunk
<1> QED
  BY <1>1, <1>2, <1>4, BoundAssumption

\* The driver as the module is loaded.
LEMMA InitIInv == Init => IInv
<1> SUFFICES ASSUME Init PROVE IInv
  OBVIOUS
<1>1. pool \in Seq(Buffers) /\ Len(pool) = N /\ \A i \in Buffers : pool[i] = i
  BY PoolAssumption DEF Init, Buffers
<1>2. data \in Seq(Buffers) /\ Len(data) = 0
  BY DEF Init
<1>3. TypeOK
  <2>1. content \in [Buffers -> Block]
    BY DEF Init, Block, Byte
  <2>2. accepted \in Seq(Chunk) /\ sent \in Seq(Block)
    BY DEF Init
  <2>3. /\ size \in [Writers -> 0 .. MaxChunks]
        /\ done \in [Writers -> 0 .. MaxChunks]
        /\ calls \in [Writers -> 0 .. MaxCalls]
        /\ signals \in 0 .. MaxSignals
    BY BoundAssumption DEF Init
  <2>4. /\ held \in [Writers -> Buffer]
        /\ snap \in [Writers -> Buffer]
        /\ pc \in [Writers -> Labels]
        /\ short \in [Writers -> BOOLEAN]
        /\ asleep \subseteq Writers
        /\ damaged \in BOOLEAN
        /\ dreq \in BOOLEAN
        /\ late \in [Writers -> Nat]
    BY DEF Init, Buffer, Labels
  <2> QED
    BY <1>1, <1>2, <2>1, <2>2, <2>3, <2>4 DEF TypeOK
<1>4. Elems(pool) = Buffers /\ Elems(data) = {} /\ NoDup(pool) /\ NoDup(data)
  BY <1>1, <1>2 DEF Elems, NoDup, Buffers
<1>5. NoBuffer \notin Buffers
  BY PoolAssumption DEF NoBuffer, Buffers
<1>6. Conservation
  BY <1>4, <1>5 DEF Init, Conservation, HeldApart, QueuesApart, NoneLeaked, Owning
<1>7. Counted /\ SleepersFill
  BY DEF Init, Counted, SleepersFill
<1> QED
  BY <1>3, <1>6, <1>7 DEF IInv

\* What the places of write() say of the buffer a process holds.
LEMMA OwnedBuffer ==
    ASSUME IInv, NEW w \in Writers, pc[w] \in Owning
    PROVE  /\ held[w] \in Buffers
           /\ held[w] \notin Elems(pool)
           /\ held[w] \notin Elems(data)
<1>1. held[w] \in Buffer /\ held[w] # NoBuffer
  BY DEF IInv, TypeOK, Conservation, HeldApart
<1> QED
  BY <1>1 DEF IInv, Conservation, HeldApart, Buffer

\* The first buffer of a list, or none.
LEMMA FirstType ==
    ASSUME NEW q \in Seq(Buffers) PROVE First(q) \in Buffer
<1>1. q # <<>> => Head(q) \in Buffers
  OBVIOUS
<1> QED
  BY <1>1 DEF First, Buffer

\* Every step keeps the types.
LEMMA NextTypeOK == ASSUME IInv, Next PROVE TypeOK'
<1> USE DEF queues, job, chip
<1>1. TypeOK
  BY DEF IInv
<1>2. ASSUME NEW w \in Writers, Call(w) PROVE TypeOK'
  <2>1. PICK n \in 0 .. MaxChunks, cut \in BOOLEAN : Begin(w, n, cut)
    BY <1>2 DEF Call
  <2>2. LoopHead(0, n) \in Labels
    BY LoopHeadType, BoundAssumption DEF Labels
  <2>3. calls[w] + 1 \in 0 .. MaxCalls
    BY <1>1, <2>1, BoundAssumption DEF Begin, TypeOK
  <2> QED
    BY <1>1, <2>1, <2>2, <2>3, BoundAssumption DEF Begin, TypeOK
<1>3. ASSUME NEW w \in Writers, TakeFree(w) PROVE TypeOK'
  <2>1. Head(pool) \in Buffer /\ Tail(pool) \in Seq(Buffers)
    BY <1>1, <1>3 DEF TypeOK, TakeFree, Buffer
  <2> QED
    BY <1>1, <1>3, <2>1 DEF TypeOK, TakeFree, Labels
<1>4. ASSUME NEW w \in Writers, Sleep(w) PROVE TypeOK'
  BY <1>1, <1>4 DEF TypeOK, Sleep
<1>5. ASSUME NEW w \in Writers, Signal(w) PROVE TypeOK'
  <2>1. signals' \in 0 .. MaxSignals /\ asleep' \subseteq Writers
    BY <1>1, <1>5, BoundAssumption DEF TypeOK, Signal
  <2>2. LoopHead(0, size[w]) \in Labels
    BY <1>1, LoopHeadType, BoundAssumption DEF Labels, TypeOK
  <2>3. pool # <<>> => Head(pool) \in Buffer /\ Tail(pool) \in Seq(Buffers)
    BY <1>1 DEF TypeOK, Buffer
  <2>4. 0 \in 0 .. MaxChunks
    BY BoundAssumption
  <2>5. pool' \in Seq(Buffers) /\ held' \in [Writers -> Buffer]
    BY <1>1, <1>5, <2>3 DEF TypeOK, Signal
  <2>6. pc' \in [Writers -> Labels] /\ done' \in [Writers -> 0 .. MaxChunks]
    BY <1>1, <1>5, <2>2, <2>4 DEF TypeOK, Signal, Labels
  <2> QED
    BY <1>1, <1>5, <2>1, <2>5, <2>6 DEF TypeOK, Signal
<1>6. ASSUME NEW w \in Writers, CopyAndQueue(w) PROVE TypeOK'
  <2>1. held[w] \in Buffers
    BY <1>6, OwnedBuffer DEF CopyAndQueue, Owning
  <2>2. /\ NextChunk(w) \in Chunk
        /\ done[w] + 1 \in 0 .. MaxChunks
        /\ done[w] + 1 <= size[w]
    BY <1>6, NextChunkType DEF CopyAndQueue, IInv
  <2>3. content[held[w]] \in Block
    BY <1>1, <2>1 DEF TypeOK
  <2>4. Overwrite(content[held[w]], NextChunk(w)) \in Block
    BY <2>2, <2>3 DEF Overwrite, Block, Byte
  <2>5. data' \in Seq(Buffers)
    BY <1>1, <1>6, <2>1, PutTailElems DEF TypeOK, CopyAndQueue
  <2>6. LoopHead(done[w] + 1, size[w]) \in Labels
    BY <1>1, <2>2, LoopHeadType, BoundAssumption DEF TypeOK, Labels
  <2>7. accepted' \in Seq(Chunk)
    BY <1>1, <1>6, <2>2 DEF TypeOK, CopyAndQueue
  <2>8. content' \in [Buffers -> Block]
    BY <1>1, <1>6, <2>1, <2>4 DEF TypeOK, CopyAndQueue
  <2> QED
    BY <1>1, <1>6, <2>2, <2>5, <2>6, <2>7, <2>8
    DEF TypeOK, CopyAndQueue, Buffer
<1>7. ASSUME NEW w \in Writers, CopyFault(w) PROVE TypeOK'
  <2>1. held[w] \in Buffers
    BY <1>7, OwnedBuffer DEF CopyFault, Owning
  <2>2. NextChunk(w) \in Chunk
    BY <1>7, NextChunkType DEF CopyFault, IInv
  <2>3. content[held[w]] \in Block
    BY <1>1, <2>1 DEF TypeOK
  <2>4. Faulted(content[held[w]], NextChunk(w)) \subseteq Block
    BY <2>2, <2>3 DEF Faulted, Block, Byte
  <2>5. content' \in [Buffers -> Block]
    BY <1>1, <1>7, <2>1, <2>4 DEF TypeOK, CopyFault
  <2>6. pool' \in Seq(Buffers)
    BY <1>1, <1>7, <2>1, PutTailElems DEF TypeOK, CopyFault
  <2> QED
    BY <1>1, <1>7, <2>5, <2>6 DEF TypeOK, CopyFault, Buffer, Labels
<1>8. ASSUME NEW w \in Writers, TakeData(w) PROVE TypeOK'
  <2>1. Head(data) \in Buffer /\ Tail(data) \in Seq(Buffers)
    BY <1>1, <1>8 DEF TypeOK, TakeData, Buffer
  <2> QED
    BY <1>1, <1>8, <2>1 DEF TypeOK, TakeData, Labels
<1>9. ASSUME NEW w \in Writers, Return(w) \/ Ready(w) PROVE TypeOK'
  BY <1>1, <1>9 DEF TypeOK, Return, Ready, Labels
<1>10. ASSUME NEW w \in Writers, GiveUp(w) PROVE TypeOK'
  <2>1. First(data) \in Buffer
    BY <1>1, FirstType DEF TypeOK
  <2> QED
    BY <1>1, <1>10, <2>1 DEF TypeOK, GiveUp, Labels
<1>11. ASSUME NEW w \in Writers, Requeue(w) PROVE TypeOK'
  <2>1. held[w] \in Buffers
    BY <1>11, OwnedBuffer DEF Requeue, Owning
  <2>2. data' \in Seq(Buffers)
    BY <1>1, <1>11, <2>1, PutFrontElems DEF TypeOK, Requeue
  <2> QED
    BY <1>1, <1>11, <2>2 DEF TypeOK, Requeue, Buffer, Labels
<1>12. ASSUME NEW w \in Writers, RequeueTorn(w) PROVE TypeOK'
  BY <1>1, <1>12 DEF TypeOK, RequeueTorn
<1>13. ASSUME NEW w \in Writers, Send(w) PROVE TypeOK'
  <2>1. held[w] \in Buffers
    BY <1>13, OwnedBuffer DEF Send, Owning
  <2>2. content[held[w]] \in Block
    BY <1>1, <2>1 DEF TypeOK
  <2>3. sent' \in Seq(Block)
    <3>1. sent \in Seq(Block)
      BY <1>1 DEF TypeOK
    <3>2. sent' = Append(sent, content[held[w]]) \/ sent' = sent
      BY <1>13 DEF Send
    <3> QED
      BY <2>2, <3>1, <3>2
  <2>4. dreq' \in BOOLEAN /\ pc' \in [Writers -> Labels]
    BY <1>1, <1>13 DEF TypeOK, Send, Labels
  <2>5. late' \in [Writers -> Nat]
    <3>1. late' = late \/ late' = [late EXCEPT ![w] = @ + 1]
      BY <1>13 DEF Send
    <3>2. late \in [Writers -> Nat] /\ late[w] + 1 \in Nat
      BY <1>1 DEF TypeOK
    <3> QED
      BY <3>1, <3>2
  <2> QED
    BY <1>1, <1>13, <2>3, <2>4, <2>5 DEF TypeOK, Send
<1>14. ASSUME NEW w \in Writers, Recycle(w) PROVE TypeOK'
  <2>1. held[w] \in Buffers
    BY <1>14, OwnedBuffer DEF Recycle, Owning
  <2>2. pool' \in Seq(Buffers)
    BY <1>1, <1>14, <2>1, PutTailElems DEF TypeOK, Recycle
  <2> QED
    BY <1>1, <1>14, <2>2 DEF TypeOK, Recycle, Buffer, Labels
<1>15. ASSUME NEW w \in Writers, Wake(w) PROVE TypeOK'
  BY <1>1, <1>15 DEF TypeOK, Wake, Labels
<1>16. ASSUME ChipReady \/ ChipBusy PROVE TypeOK'
  <2>1. late' \in [Writers -> Nat]
    <3>1. late' = late \/ late' = [w \in Writers |-> 0]
      BY <1>16 DEF ChipReady, ChipBusy
    <3> QED
      BY <1>1, <3>1 DEF TypeOK
  <2>2. dreq' \in BOOLEAN
    BY <1>16 DEF ChipReady, ChipBusy
  <2> QED
    BY <1>1, <1>16, <2>1, <2>2 DEF TypeOK, ChipReady, ChipBusy
<1> QED
  BY <1>2, <1>3, <1>4, <1>5, <1>6, <1>7, <1>8, <1>9, <1>10, <1>11, <1>12,
     <1>13, <1>14, <1>15, <1>16 DEF Next, Step
-----------------------------------------------------------------------------
(* The places of write().                                                  *)

\* Every step keeps the calls counted and the sleepers at the wait.
LEMMA NextCounted == ASSUME IInv, Next PROVE Counted' /\ SleepersFill'
<1> USE DEF queues, job, chip
<1>1. /\ pc \in [Writers -> Labels] /\ size \in [Writers -> 0 .. MaxChunks]
      /\ done \in [Writers -> 0 .. MaxChunks] /\ asleep \subseteq Writers
      /\ calls \in [Writers -> 0 .. MaxCalls]
      /\ Counted /\ SleepersFill
  BY DEF IInv, TypeOK
<1>2. ASSUME NEW w \in Writers, Call(w) PROVE Counted' /\ SleepersFill'
  <2>1. PICK n \in 0 .. MaxChunks, cut \in BOOLEAN : Begin(w, n, cut)
    BY <1>2 DEF Call
  <2>2. LoopHead(0, n) = "fill" => 0 < n
    BY LoopHeadType, BoundAssumption
  <2>3. LoopHead(0, n) # "copy"
    BY DEF LoopHead
  <2>4. calls[w] + 1 \in 1 .. MaxCalls
    BY <1>1, <2>1, BoundAssumption DEF Begin
  <2>5. Counted'
    BY <1>1, <2>1, <2>2, <2>3, <2>4 DEF Begin, Counted
  <2>6. SleepersFill'
    BY <1>1, <2>1 DEF Begin, SleepersFill
  <2> QED
    BY <2>5, <2>6
<1>3. ASSUME NEW w \in Writers, TakeFree(w) PROVE Counted' /\ SleepersFill'
  BY <1>1, <1>3 DEF TakeFree, Counted, SleepersFill
<1>4. ASSUME NEW w \in Writers, Sleep(w) PROVE Counted' /\ SleepersFill'
  BY <1>1, <1>4 DEF Sleep, Counted, SleepersFill
<1>5. ASSUME NEW w \in Writers, Signal(w) PROVE Counted' /\ SleepersFill'
  <2>1. LoopHead(0, size[w]) = "fill" => 0 < size[w]
    BY <1>1, LoopHeadType, BoundAssumption
  <2>2. LoopHead(0, size[w]) # "copy"
    BY DEF LoopHead
  <2>3. SleepersFill'
    BY <1>1, <1>5 DEF Signal, SleepersFill
  <2>4. pc[w] = "fill"
    BY <1>1, <1>5 DEF Signal, SleepersFill
  <2>5. Counted'
    BY <1>1, <1>5, <2>1, <2>2, <2>4 DEF Signal, Counted
  <2> QED
    BY <2>3, <2>5
<1>6. ASSUME NEW w \in Writers, CopyAndQueue(w) PROVE Counted' /\ SleepersFill'
  <2>1. done[w] + 1 \in Nat /\ size[w] \in Nat /\ done[w] + 1 <= size[w]
    BY <1>1, <1>6, BoundAssumption DEF CopyAndQueue, Counted
  <2>2. LoopHead(done[w] + 1, size[w]) = "fill" => done[w] + 1 < size[w]
    BY <2>1, LoopHeadType
  <2>3. LoopHead(done[w] + 1, size[w]) # "copy"
    BY DEF LoopHead
  <2>4. Counted'
    BY <1>1, <1>6, <2>2, <2>3 DEF CopyAndQueue, Counted
  <2>5. SleepersFill'
    BY <1>1, <1>6 DEF CopyAndQueue, SleepersFill
  <2> QED
    BY <2>4, <2>5
<1>7. ASSUME NEW w \in Writers, CopyFault(w) PROVE Counted' /\ SleepersFill'
  BY <1>1, <1>7 DEF CopyFault, Counted, SleepersFill
<1>8. ASSUME NEW w \in Writers, TakeData(w) \/ Return(w) \/ Ready(w) \/ GiveUp(w)
      PROVE  Counted' /\ SleepersFill'
  BY <1>1, <1>8 DEF TakeData, Return, Ready, GiveUp, Counted, SleepersFill
<1>9. ASSUME NEW w \in Writers,
             Requeue(w) \/ RequeueTorn(w) \/ Send(w) \/ Recycle(w) \/ Wake(w)
      PROVE  Counted' /\ SleepersFill'
  BY <1>1, <1>9
  DEF Requeue, RequeueTorn, Send, Recycle, Wake, Counted, SleepersFill
<1>10. ASSUME ChipReady \/ ChipBusy PROVE Counted' /\ SleepersFill'
  BY <1>1, <1>10 DEF ChipReady, ChipBusy, Counted, SleepersFill
<1> QED
  BY <1>2, <1>3, <1>4, <1>5, <1>6, <1>7, <1>8, <1>9, <1>10 DEF Next, Step

-----------------------------------------------------------------------------
(* Conservation: a step moves at most one buffer, between a queue and the  *)
(* process that takes the step.                                            *)

\* A step that moves no buffer.
LEMMA NoMove ==
    ASSUME Conservation, UNCHANGED <<pool, data, held>>,
           \A v \in Writers : pc'[v] \in Owning <=> pc[v] \in Owning
    PROVE  Conservation'
<1>1. HeldApart'
  BY DEF Conservation, HeldApart, Elems
<1>2. QueuesApart'
  BY DEF Conservation, QueuesApart, Elems, NoDup
<1>3. NoneLeaked'
  BY DEF Conservation, NoneLeaked, Elems
<1> QED
  BY <1>1, <1>2, <1>3 DEF Conservation

\* A process takes the head of the pool.
LEMMA PoolToHand ==
    ASSUME IInv, NEW w \in Writers, pc[w] \notin Owning, pool # <<>>,
           pool' = Tail(pool), data' = data,
           held' = [held EXCEPT ![w] = Head(pool)],
           pc' = [pc EXCEPT ![w] = "copy"]
    PROVE  Conservation'
<1>1. /\ Head(pool) \in Elems(pool)
      /\ Head(pool) \in Buffers
      /\ Elems(pool') = Elems(pool) \ {Head(pool)}
      /\ NoDup(pool')
  BY TakeHeadElems DEF IInv, TypeOK, Conservation, QueuesApart
<1>2. Elems(data') = Elems(data) /\ (NoDup(data) => NoDup(data'))
  BY DEF Elems, NoDup
<1>3. NoBuffer \notin Buffers
  BY PoolAssumption DEF NoBuffer, Buffers
<1>4. held \in [Writers -> Buffer] /\ pc \in [Writers -> Labels] /\ Conservation
  BY DEF IInv, TypeOK
<1>5. HeldApart'
  BY <1>1, <1>2, <1>3, <1>4 DEF Conservation, HeldApart, QueuesApart, Owning
<1>6. QueuesApart'
  BY <1>1, <1>2, <1>4 DEF Conservation, QueuesApart
<1>7. held[w] = NoBuffer
  BY <1>4 DEF Conservation, HeldApart
<1>8. NoneLeaked'
  <2> SUFFICES ASSUME NEW b \in Buffers
               PROVE  \/ b \in Elems(pool') \/ b \in Elems(data')
                      \/ \E v \in Writers : b = held'[v]
    BY DEF NoneLeaked
  <2> QED
    BY <1>1, <1>2, <1>3, <1>4, <1>7 DEF Conservation, NoneLeaked
<1> QED
  BY <1>5, <1>6, <1>8 DEF Conservation

\* A process takes the head of the data queue.
LEMMA DataToHand ==
    ASSUME IInv, NEW w \in Writers, TakeData(w)
    PROVE  Conservation'
<1>1. /\ Head(data) \in Elems(data)
      /\ Head(data) \in Buffers
      /\ Elems(data') = Elems(data) \ {Head(data)}
      /\ NoDup(data')
  BY TakeHeadElems DEF IInv, TypeOK, Conservation, QueuesApart, TakeData
<1>2. Elems(pool') = Elems(pool) /\ (NoDup(pool) => NoDup(pool'))
  BY DEF Elems, NoDup, TakeData
<1>3. NoBuffer \notin Buffers
  BY PoolAssumption DEF NoBuffer, Buffers
<1>4. held \in [Writers -> Buffer] /\ pc \in [Writers -> Labels] /\ Conservation
  BY DEF IInv, TypeOK
<1>5. HeldApart'
  BY <1>1, <1>2, <1>3, <1>4
  DEF Conservation, HeldApart, QueuesApart, Owning, TakeData
<1>6. QueuesApart'
  BY <1>1, <1>2, <1>4 DEF Conservation, QueuesApart
<1>7. held[w] = NoBuffer
  BY <1>4 DEF Conservation, HeldApart, Owning, TakeData
<1>8. NoneLeaked'
  <2> SUFFICES ASSUME NEW b \in Buffers
               PROVE  \/ b \in Elems(pool') \/ b \in Elems(data')
                      \/ \E v \in Writers : b = held'[v]
    BY DEF NoneLeaked
  <2> QED
    BY <1>1, <1>2, <1>3, <1>4, <1>7 DEF Conservation, NoneLeaked, TakeData
<1> QED
  BY <1>5, <1>6, <1>8 DEF Conservation

\* A process puts the buffer it holds into one of the queues.
LEMMA HandToQueue ==
    ASSUME IInv, NEW w \in Writers, pc[w] \in Owning,
           held' = [held EXCEPT ![w] = NoBuffer],
           pc' \in [Writers -> Labels],
           pc'[w] \notin Owning,
           \A v \in Writers \ {w} : pc'[v] = pc[v],
           \/ pool' = PutTail(pool, held[w]) /\ data' = data
           \/ pool' = pool /\ data' = PutTail(data, held[w])
           \/ pool' = pool /\ data' = PutFront(data, held[w])
    PROVE  Conservation'
<1>1. /\ held[w] \in Buffers
      /\ held[w] \notin Elems(pool)
      /\ held[w] \notin Elems(data)
  BY OwnedBuffer
<1>2. /\ held \in [Writers -> Buffer] /\ pc \in [Writers -> Labels]
      /\ pool \in Seq(Buffers) /\ data \in Seq(Buffers)
      /\ HeldApart /\ QueuesApart /\ NoneLeaked
  BY DEF IInv, TypeOK, Conservation
<1>3. NoBuffer \notin Buffers
  BY PoolAssumption DEF NoBuffer, Buffers
<1>4. /\ NoDup(pool') /\ NoDup(data')
      /\ \/ Elems(pool') = Elems(pool) \cup {held[w]} /\ Elems(data') = Elems(data)
         \/ Elems(pool') = Elems(pool) /\ Elems(data') = Elems(data) \cup {held[w]}
  <2>1. CASE pool' = PutTail(pool, held[w]) /\ data' = data
    BY <1>1, <1>2, <2>1, PutTailElems, PutTailNoDup DEF QueuesApart
  <2>2. CASE pool' = pool /\ data' = PutTail(data, held[w])
    BY <1>1, <1>2, <2>2, PutTailElems, PutTailNoDup DEF QueuesApart
  <2>3. CASE pool' = pool /\ data' = PutFront(data, held[w])
    BY <1>1, <1>2, <2>3, PutFrontElems, PutFrontNoDup DEF QueuesApart
  <2> QED
    BY <2>1, <2>2, <2>3
<1>5. Elems(pool) \subseteq Buffers /\ Elems(data) \subseteq Buffers
  BY <1>2 DEF Elems
<1>6. HeldApart'
  <2>1. \A v \in Writers : held'[v] # NoBuffer <=> pc'[v] \in Owning
    BY <1>2 DEF HeldApart
  <2>2. \A u, v \in Writers : held'[u] = held'[v] /\ u # v => held'[u] = NoBuffer
    BY <1>2 DEF HeldApart
  <2>3. \A v \in Writers : held'[v] \notin Elems(pool') \cup Elems(data')
    BY <1>1, <1>2, <1>3, <1>4, <1>5 DEF HeldApart
  <2> QED
    BY <2>1, <2>2, <2>3 DEF HeldApart
<1>7. QueuesApart'
  BY <1>1, <1>2, <1>4 DEF QueuesApart
<1>8. NoneLeaked'
  <2> SUFFICES ASSUME NEW b \in Buffers
               PROVE  \/ b \in Elems(pool') \/ b \in Elems(data')
                      \/ \E v \in Writers : b = held'[v]
    BY DEF NoneLeaked
  <2> QED
    BY <1>2, <1>4 DEF NoneLeaked
<1> QED
  BY <1>6, <1>7, <1>8 DEF Conservation

\* Every step keeps each buffer in one place.
LEMMA NextConservation == ASSUME IInv, Next PROVE Conservation'
<1> USE DEF queues, job, chip, Owning
<1>1. pc \in [Writers -> Labels] /\ Conservation
  BY DEF IInv, TypeOK
<1>2. pc' \in [Writers -> Labels]
  BY NextTypeOK DEF TypeOK
<1>3. ASSUME NEW w \in Writers, Call(w) PROVE Conservation'
  <2>1. PICK n \in 0 .. MaxChunks, cut \in BOOLEAN : Begin(w, n, cut)
    BY <1>3 DEF Call
  <2>2. LoopHead(0, n) \in {"fill", "drain"}
    BY DEF LoopHead
  <2> QED
    BY <1>1, <2>1, <2>2, NoMove DEF Begin
<1>4. ASSUME NEW w \in Writers, TakeFree(w) PROVE Conservation'
  BY <1>1, <1>4, PoolToHand DEF TakeFree
<1>5. ASSUME NEW w \in Writers, Signal(w) PROVE Conservation'
  <2>1. pc[w] = "fill"
    BY <1>5 DEF IInv, SleepersFill, Signal
  <2>2. CASE pool # <<>>
    BY <1>1, <1>5, <2>1, <2>2, PoolToHand DEF Signal
  <2>3. CASE pool = <<>>
    <3>1. LoopHead(0, size[w]) \in {"fill", "drain"}
      BY DEF LoopHead
    <3> QED
      BY <1>1, <1>5, <2>1, <2>3, <3>1, NoMove DEF Signal
  <2> QED
    BY <2>2, <2>3
<1>6. ASSUME NEW w \in Writers, CopyAndQueue(w) PROVE Conservation'
  <2>1. LoopHead(done[w] + 1, size[w]) \in {"fill", "drain"}
    BY DEF LoopHead
  <2> QED
    BY <1>1, <1>2, <1>6, <2>1, HandToQueue DEF CopyAndQueue
<1>7. ASSUME NEW w \in Writers, CopyFault(w) PROVE Conservation'
  BY <1>1, <1>2, <1>7, HandToQueue DEF CopyFault
<1>8. ASSUME NEW w \in Writers, TakeData(w) PROVE Conservation'
  BY <1>8, DataToHand
<1>9. ASSUME NEW w \in Writers, Requeue(w) PROVE Conservation'
  BY <1>1, <1>2, <1>9, HandToQueue DEF Requeue
<1>10. ASSUME NEW w \in Writers, Recycle(w) PROVE Conservation'
  BY <1>1, <1>2, <1>10, HandToQueue DEF Recycle
<1>11. ASSUME NEW w \in Writers, Sleep(w) \/ Return(w) \/ Ready(w) \/ GiveUp(w)
       PROVE  Conservation'
  BY <1>1, <1>11, NoMove DEF Sleep, Return, Ready, GiveUp
<1>12. ASSUME NEW w \in Writers, RequeueTorn(w) \/ Send(w) \/ Wake(w)
       PROVE  Conservation'
  BY <1>1, <1>12, NoMove DEF RequeueTorn, Send, Wake
<1>13. ASSUME ChipReady \/ ChipBusy PROVE Conservation'
  BY <1>1, <1>13, NoMove DEF ChipReady, ChipBusy
<1> QED
  BY <1>3, <1>4, <1>5, <1>6, <1>7, <1>8, <1>9, <1>10, <1>11, <1>12, <1>13
  DEF Next, Step

-----------------------------------------------------------------------------
\* So does a stuttering step.
LEMMA StutterIInv == ASSUME IInv, UNCHANGED vars PROVE IInv'
<1>1. TypeOK'
  BY DEF IInv, TypeOK, vars
<1>2. Counted' /\ SleepersFill'
  BY DEF IInv, Counted, SleepersFill, vars
<1>3. Conservation'
  BY NoMove DEF IInv, vars
<1> QED
  BY <1>1, <1>2, <1>3 DEF IInv

\* The inductive invariant holds in every state of the driver.
LEMMA Inductive == Spec => []IInv
<1>1. IInv /\ [Next]_vars => IInv'
  BY NextTypeOK, NextCounted, NextConservation, StutterIInv DEF IInv
<1> QED
  BY <1>1, InitIInv, PTL DEF Spec

\* In every state, the variables of vs10xx_write have the values the code
\* gives them, for any number of buffers and of writing processes.
THEOREM TypeCorrect == Spec => []TypeOK
<1>1. IInv => TypeOK
  BY DEF IInv
<1> QED
  BY <1>1, Inductive, PTL

\* However many processes write, and whatever faults, signals, stalls and
\* failed transfers they meet, no buffer of the chip is lost or is in two
\* places (vs10xx_main.c:43-84).
THEOREM BuffersConserved == Spec => []Conservation
<1>1. IInv => Conservation
  BY DEF IInv
<1> QED
  BY <1>1, Inductive, PTL
-----------------------------------------------------------------------------
(* Wake-ups.  Only vs10xx_write puts buffers into the pool: after a block   *)
(* is sent, which is followed by wake_up_interruptible, and after a fault,  *)
(* which is not.                                                            *)

\* No step leaves a sleeper beside a free buffer unannounced.
LEMMA NextWakeup ==
    ASSUME "efault" \notin Env, IInv, NoLostWakeup, Next
    PROVE  NoLostWakeup'
<1> USE DEF queues, job, chip, NoLostWakeup
<1>1. pc \in [Writers -> Labels] /\ pool \in Seq(Buffers) /\ SleepersFill
  BY DEF IInv, TypeOK
<1>2. ASSUME NEW w \in Writers, Call(w) PROVE NoLostWakeup'
  BY <1>1, <1>2 DEF Call, Begin
<1>3. ASSUME NEW w \in Writers, TakeFree(w) PROVE NoLostWakeup'
  <2>1. pool # <<>>
    BY <1>3 DEF TakeFree
  <2> QED
    BY <1>1, <1>3, <2>1 DEF TakeFree
<1>4. ASSUME NEW w \in Writers, Sleep(w) PROVE NoLostWakeup'
  BY <1>1, <1>4 DEF Sleep
<1>5. ASSUME NEW w \in Writers, Signal(w) PROVE NoLostWakeup'
  <2>1. CASE pool # <<>>
    <3>1. PICK v \in Writers : pc[v] = "wake"
      BY <1>5, <2>1 DEF Signal
    <3>2. pc'[v] = "wake"
      BY <1>1, <1>5, <2>1, <3>1 DEF Signal, SleepersFill
    <3> QED
      BY <3>2
  <2>2. CASE pool = <<>>
    BY <1>5, <2>2 DEF Signal
  <2> QED
    BY <2>1, <2>2
<1>6. ASSUME NEW w \in Writers, Step(w), ~TakeFree(w), ~Sleep(w)
      PROVE  NoLostWakeup'
  BY <1>1, <1>6
  DEF Step, CopyAndQueue, CopyFault, TakeData, Return, Ready, GiveUp, Requeue,
      RequeueTorn, Send, Recycle, Wake
<1>7. ASSUME ChipReady \/ ChipBusy PROVE NoLostWakeup'
  BY <1>7 DEF ChipReady, ChipBusy
<1> QED
  BY <1>2, <1>3, <1>4, <1>5, <1>6, <1>7 DEF Next
\* Unless a write fails with EFAULT, no process sleeps on tx_wq beside a free
\* buffer that nobody will announce (vs10xx_main.c:48, 80-83).
THEOREM WakeupNotLost ==
    ASSUME "efault" \notin Env PROVE Spec => []NoLostWakeup
<1>1. Init => NoLostWakeup
  BY DEF Init, NoLostWakeup
<1>2. IInv /\ NoLostWakeup /\ [Next]_vars => NoLostWakeup'
  <2>1. ASSUME NoLostWakeup, UNCHANGED vars PROVE NoLostWakeup'
    BY <2>1 DEF NoLostWakeup, vars
  <2> QED
    BY <2>1, NextWakeup
<1> QED
  BY <1>1, <1>2, Inductive, PTL DEF Spec

-----------------------------------------------------------------------------
(* Overruns of the chip.                                                   *)

\* While the chip asks for data nobody is late, and a process that is about
\* to send has not been late since.
LateInv ==
    \A w \in Writers :
        /\ dreq \/ pc[w] = "send" => late[w] = 0
        /\ late[w] <= 1

\* Every step keeps the late blocks apart: only Send counts one, for a process
\* that had none and is not about to send after it.
LEMMA NextLate == ASSUME IInv, LateInv, Next PROVE LateInv'
<1> USE DEF queues, job, chip, LateInv
<1>1. /\ pc \in [Writers -> Labels]
      /\ late \in [Writers -> Nat]
      /\ dreq \in BOOLEAN
  BY DEF IInv, TypeOK
<1>2. ASSUME NEW w \in Writers, Call(w) \/ TakeFree(w) \/ Sleep(w) \/ Signal(w)
      PROVE  LateInv'
  BY <1>1, <1>2 DEF Call, Begin, TakeFree, Sleep, Signal, LoopHead
<1>3. ASSUME NEW w \in Writers,
             CopyAndQueue(w) \/ CopyFault(w) \/ TakeData(w) \/ Return(w)
      PROVE  LateInv'
  BY <1>1, <1>3 DEF CopyAndQueue, CopyFault, TakeData, Return, LoopHead
<1>4. ASSUME NEW w \in Writers, Ready(w) PROVE LateInv'
  BY <1>1, <1>4 DEF Ready
<1>5. ASSUME NEW w \in Writers,
             \/ GiveUp(w) \/ Requeue(w) \/ RequeueTorn(w)
             \/ Recycle(w) \/ Wake(w)
      PROVE  LateInv'
  BY <1>1, <1>5 DEF GiveUp, Requeue, RequeueTorn, Recycle, Wake
<1>6. ASSUME NEW w \in Writers, Send(w) PROVE LateInv'
  <2>1. late[w] = 0 /\ pc' = [pc EXCEPT ![w] = "recycle"]
    BY <1>1, <1>6 DEF Send
  <2>2. CASE dreq
    <3>1. late' = late
      BY <1>6, <2>2 DEF Send
    <3> QED
      BY <1>1, <2>1, <2>2, <3>1
  <2>3. CASE ~dreq
    <3>1. ~dreq'
      BY <1>1, <1>6, <2>3 DEF Send
    <3>2. late' = late \/ late' = [late EXCEPT ![w] = @ + 1]
      BY <1>6 DEF Send
    <3> QED
      BY <1>1, <2>1, <2>3, <3>1, <3>2
  <2> QED
    BY <2>2, <2>3
<1>7. ASSUME ChipReady \/ ChipBusy PROVE LateInv'
  BY <1>1, <1>7 DEF ChipReady, ChipBusy
<1> QED
  BY <1>2, <1>3, <1>4, <1>5, <1>6, <1>7 DEF Next, Step

\* Any number of processes, whatever they write and whatever control commands
\* come between: each sends at most one block to a chip that does not ask for
\* data until it asks again (vs10xx_main.c:64-74).
THEOREM OverrunBounded == Spec => []OneLateBlock
<1>1. Init => LateInv
  BY DEF Init, LateInv
<1>2. IInv /\ LateInv /\ [Next]_vars => LateInv'
  <2>1. ASSUME LateInv, UNCHANGED vars PROVE LateInv'
    BY <2>1 DEF LateInv, vars
  <2> QED
    BY <2>1, NextLate
<1>3. LateInv => OneLateBlock
  BY DEF LateInv, OneLateBlock
<1> QED
  BY <1>1, <1>2, <1>3, Inductive, PTL DEF Spec
=============================================================================
