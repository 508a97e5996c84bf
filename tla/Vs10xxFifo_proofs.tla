--------------------------- MODULE Vs10xxFifo_proofs ---------------------------
(***************************************************************************)
(* What becomes of the chunks that write() accepts, for any pool, any      *)
(* number and length of writes, and any surroundings: stalls that put a    *)
(* buffer back, faults, signals and failed transfers included.             *)
(*                                                                         *)
(* With one writing process the transmit path implements TxChannel (with   *)
(* two it does not: see the run TxReordered).  With any number each chunk  *)
(* is sent once or waits in one buffer, and none is mixed with another.    *)
(***************************************************************************)
EXTENDS Vs10xxFifo, Vs10xxTx_proofs, FiniteSetTheorems,
        SequenceTheorems

OneWriterOnly(w) == Writers = {w}

\* The chunk of each waiting buffer is the accepted one at its distance from
\* the end; the buffer in flight is just ahead of the data queue; an unlocked
\* list_add finds the list as it read it.
InOrder(w) ==
    /\ \A i \in 1 .. Len(data) :
          content[data[i]].front = accepted[Len(accepted) - Len(data) + i]
    /\ w \in InFlight =>
          content[held[w]].front = accepted[Len(accepted) - Len(data)]
    /\ Len(data) + (IF w \in InFlight THEN 1 ELSE 0) <= Len(accepted)
    /\ pc[w] = "requeue" => snap[w] = First(data)
    /\ ~damaged

\* What one writer makes of the refinement mapping.
LEMMA TakenOne ==
    ASSUME NEW w, OneWriterOnly(w)
    PROVE  Taken = Len(accepted) - Len(data) - (IF w \in InFlight THEN 1 ELSE 0)
<1>1. InFlight = IF w \in InFlight THEN {w} ELSE {}
  BY DEF OneWriterOnly, InFlight
<1>2. Cardinality({w}) = 1 /\ Cardinality({}) = 0
  BY FS_Singleton, FS_EmptySet
<1> QED
  BY <1>1, <1>2 DEF Taken

\* The same in the next state.
LEMMA TakenOnePrime ==
    ASSUME NEW CONSTANT w, OneWriterOnly(w)
    PROVE  Taken' = Len(accepted') - Len(data')
                    - (IF pc'[w] \in {"poll", "send", "requeue"} THEN 1 ELSE 0)
<1>1. InFlight' = IF pc'[w] \in {"poll", "send", "requeue"} THEN {w} ELSE {}
  BY DEF OneWriterOnly, InFlight
<1>2. Cardinality({w}) = 1 /\ Cardinality({}) = 0
  BY FS_Singleton, FS_EmptySet
<1> QED
  BY <1>1, <1>2 DEF Taken

\* The chunks in a backlog are chunks.
LEMMA FrontsType ==
    ASSUME NEW s \in Seq(Block)
    PROVE  /\ Fronts(s) \in Seq(Byte)
           /\ Len(Fronts(s)) = Len(s)
           /\ \A i \in 1 .. Len(s) : Fronts(s)[i] = s[i].front
<1>1. Len(s) \in Nat /\ DOMAIN s = 1 .. Len(s)
  OBVIOUS
<1>2. \A i \in 1 .. Len(s) : s[i] \in Block
  OBVIOUS
<1>3. \A i \in 1 .. Len(s) : s[i].front \in Byte
  BY <1>2 DEF Block
<1>4. Fronts(s) \in [1 .. Len(s) -> Byte]
  BY <1>1, <1>3 DEF Fronts
<1>5. Fronts(s) \in Seq(Byte)
  BY <1>1, <1>4, SeqDef
<1>6. Len(Fronts(s)) = Len(s)
  BY <1>1, <1>4, <1>5
<1> QED
  BY <1>1, <1>5, <1>6 DEF Fronts

\* A buffer that joins the backlog puts its chunk at the end.
LEMMA FrontsAppend ==
    ASSUME NEW s \in Seq(Block), NEW b \in Block
    PROVE  Fronts(Append(s, b)) = Append(Fronts(s), b.front)
<1>1. /\ Append(s, b) \in Seq(Block)
      /\ Len(Append(s, b)) = Len(s) + 1
      /\ \A i \in 1 .. Len(s) : Append(s, b)[i] = s[i]
      /\ Append(s, b)[Len(s) + 1] = b
      /\ Len(s) \in Nat
  OBVIOUS
<1>2. /\ Fronts(s) \in Seq(Byte) /\ Len(Fronts(s)) = Len(s)
      /\ \A i \in 1 .. Len(s) : Fronts(s)[i] = s[i].front
  BY FrontsType
<1>3. /\ Fronts(Append(s, b)) \in Seq(Byte)
      /\ Len(Fronts(Append(s, b))) = Len(s) + 1
      /\ \A i \in 1 .. Len(s) + 1 :
            Fronts(Append(s, b))[i] = Append(s, b)[i].front
  BY <1>1, FrontsType
<1>4. b.front \in Byte
  BY DEF Block
<1>5. /\ Append(Fronts(s), b.front) \in Seq(Byte)
      /\ Len(Append(Fronts(s), b.front)) = Len(s) + 1
      /\ \A i \in 1 .. Len(s) : Append(Fronts(s), b.front)[i] = s[i].front
      /\ Append(Fronts(s), b.front)[Len(s) + 1] = b.front
  BY <1>2, <1>4
<1>6. ASSUME NEW i \in 1 .. Len(s) + 1
      PROVE  Fronts(Append(s, b))[i] = Append(Fronts(s), b.front)[i]
  <2>1. i \in 1 .. Len(s) \/ i = Len(s) + 1
    BY <1>1
  <2> QED
    BY <1>1, <1>3, <1>5, <2>1
<1> QED
  BY <1>3, <1>5, <1>6, SeqEqual

\* Nothing has been accepted at first.
LEMMA InitInOrder ==
    ASSUME NEW w \in Writers, Init PROVE InOrder(w)
BY DEF Init, InOrder, InFlight

\* The initial states are those of the channel.
LEMMA InitChannel ==
    ASSUME NEW w, OneWriterOnly(w), Init PROVE Chan!Init
<1>1. w \in Writers
  BY DEF OneWriterOnly
<1>2. Fronts(sent) = <<>>
  BY DEF Init, Fronts
<1>3. Taken = 0
  BY <1>1, TakenOne DEF Init, InFlight
<1> QED
  BY <1>2, <1>3 DEF Init, Chan!Init
-----------------------------------------------------------------------------
(* One step of the writer, or of the chip.                                 *)

\* A step that moves no chunk past the refinement mapping.
LEMMA ChannelStutter ==
    ASSUME NEW CONSTANT w, OneWriterOnly(w), TypeOK,
           UNCHANGED <<accepted, sent>>,
           Len(data') + (IF pc'[w] \in {"poll", "send", "requeue"} THEN 1 ELSE 0)
             = Len(data) + (IF w \in InFlight THEN 1 ELSE 0),
           Len(data') \in Nat
    PROVE  UNCHANGED Chan!vars
<1>1. Taken' = Taken
  <2>1. /\ Taken = Len(accepted) - Len(data) - (IF w \in InFlight THEN 1 ELSE 0)
        /\ Taken' = Len(accepted) - Len(data')
                    - (IF pc'[w] \in {"poll", "send", "requeue"} THEN 1 ELSE 0)
    BY TakenOne, TakenOnePrime
  <2>2. Len(accepted) \in Nat /\ Len(data) \in Nat
    BY DEF TypeOK
  <2> QED
    BY <2>1, <2>2
<1> QED
  BY <1>1 DEF Chan!vars, Fronts

\* Every step keeps the backlog in order and is a step of the channel.
LEMMA NextInOrder ==
    ASSUME NEW CONSTANT w, OneWriterOnly(w), IInv, InOrder(w), Next
    PROVE  InOrder(w)' /\ [Chan!Next]_(Chan!vars)
<1> DEFINE Flying == {"poll", "send", "requeue"}
<1> USE DEF queues, job, chip, InFlight
<1>1. /\ w \in Writers /\ TypeOK /\ Conservation /\ Counted /\ SleepersFill
      /\ pc \in [Writers -> Labels] /\ held \in [Writers -> Buffer]
      /\ data \in Seq(Buffers) /\ pool \in Seq(Buffers)
      /\ content \in [Buffers -> Block]
      /\ accepted \in Seq(Chunk) /\ sent \in Seq(Block)
      /\ snap \in [Writers -> Buffer]
  BY DEF OneWriterOnly, IInv, TypeOK
<1>2. Len(data) \in Nat /\ Len(accepted) \in Nat /\ Len(pool) \in Nat
  BY <1>1
<1>3. \A i \in 1 .. Len(data) : data[i] \in Buffers /\ data[i] \in Elems(data)
  BY <1>1 DEF Elems
\* Steps that leave the data queue, the contents of its buffers and the
\* buffer in flight alone.
<1>4. ASSUME UNCHANGED <<data, content, accepted, sent, damaged>>,
             pc'[w] \in Flying <=> pc[w] \in Flying,
             pc[w] \in Flying => held'[w] = held[w],
             pc'[w] = "requeue" => snap'[w] = First(data)
      PROVE  InOrder(w)' /\ [Chan!Next]_(Chan!vars)
  <2>1. InOrder(w)'
    BY <1>1, <1>4 DEF InOrder, First
  <2>2. UNCHANGED Chan!vars
    BY <1>1, <1>2, <1>4, ChannelStutter
  <2> QED
    BY <2>1, <2>2
<1>5. CASE Call(w)
  <2>1. PICK n \in 0 .. MaxChunks, cut \in BOOLEAN : Begin(w, n, cut)
    BY <1>5 DEF Call
  <2>2. LoopHead(0, n) \in {"fill", "drain"}
    BY DEF LoopHead
  <2> QED
    BY <1>1, <1>4, <2>1, <2>2 DEF Begin
<1>6. CASE TakeFree(w)
  BY <1>1, <1>4, <1>6 DEF TakeFree
<1>7. CASE Sleep(w)
  BY <1>1, <1>4, <1>7 DEF Sleep
<1>8. CASE Signal(w)
  <2>1. pc[w] = "fill"
    BY <1>1, <1>8 DEF Signal, SleepersFill
  <2>2. LoopHead(0, size[w]) \in {"fill", "drain"}
    BY DEF LoopHead
  <2>3. pc'[w] \in {"copy", "fill", "drain", "idle"}
    BY <1>1, <1>8, <2>2 DEF Signal
  <2> QED
    BY <1>1, <1>4, <1>8, <2>1, <2>3 DEF Signal
<1>9. CASE CopyAndQueue(w)
  <2>1. /\ held[w] \in Buffers /\ held[w] \notin Elems(data)
    BY <1>1, <1>9, OwnedBuffer DEF CopyAndQueue, Owning
  <2>2. NextChunk(w) \in Chunk
    BY <1>1, <1>9, NextChunkType DEF CopyAndQueue
  <2>3. pc[w] = "copy" /\ pc'[w] \in {"fill", "drain"}
    BY <1>1, <1>9 DEF CopyAndQueue, LoopHead
  <2>4. /\ Len(data') = Len(data) + 1
        /\ \A i \in 1 .. Len(data) : data'[i] = data[i]
        /\ data'[Len(data) + 1] = held[w]
    BY <1>1, <1>9, <2>1 DEF CopyAndQueue, PutTail
  <2>5. /\ Len(accepted') = Len(accepted) + 1
        /\ \A i \in 1 .. Len(accepted) : accepted'[i] = accepted[i]
        /\ accepted'[Len(accepted) + 1] = NextChunk(w)
    BY <1>1, <1>9, <2>2 DEF CopyAndQueue
  <2>6. /\ content'[held[w]].front = NextChunk(w)
        /\ \A b \in Buffers \ {held[w]} : content'[b] = content[b]
    BY <1>1, <1>9, <2>1 DEF CopyAndQueue, Overwrite
  <2>7. Len(data) <= Len(accepted)
    BY <1>2, <2>3 DEF InOrder
  <2>8. ASSUME NEW i \in 1 .. Len(data')
        PROVE  content'[data'[i]].front
                 = accepted'[Len(accepted') - Len(data') + i]
    <3>1. CASE i = Len(data) + 1
      BY <1>2, <2>4, <2>5, <2>6, <3>1
    <3>2. CASE i \in 1 .. Len(data)
      <4>1. data[i] \in Buffers \ {held[w]}
        BY <1>3, <2>1, <3>2
      <4>2. content[data[i]].front = accepted[Len(accepted) - Len(data) + i]
        BY <3>2 DEF InOrder
      <4>3. Len(accepted) - Len(data) + i \in 1 .. Len(accepted)
        BY <1>2, <2>7, <3>2
      <4>4. Len(accepted') - Len(data') = Len(accepted) - Len(data)
        BY <1>2, <2>4, <2>5
      <4> QED
        BY <2>4, <2>5, <2>6, <3>2, <4>1, <4>2, <4>3, <4>4
    <3> QED
      BY <1>2, <2>4, <3>1, <3>2
  <2>9. InOrder(w)'
    <3>1. ~damaged'
      BY <1>9 DEF CopyAndQueue
    <3>2. Len(data') <= Len(accepted')
      BY <1>2, <2>4, <2>5, <2>7
    <3> QED
      BY <1>2, <2>3, <2>4, <2>8, <3>1, <3>2 DEF InOrder
  <2>10. Taken' = Taken
    BY <1>2, <2>3, <2>4, <2>5, TakenOne, TakenOnePrime
  <2>11. Chan!Accept(NextChunk(w))
    BY <1>9, <2>10 DEF CopyAndQueue, Chan!Accept, Fronts
  <2> QED
    BY <2>2, <2>9, <2>11 DEF Chan!Next
<1>10. CASE CopyFault(w)
  <2>1. held[w] \in Buffers /\ held[w] \notin Elems(data)
    BY <1>1, <1>10, OwnedBuffer DEF CopyFault, Owning
  <2>2. pc[w] = "copy" /\ pc'[w] = "idle"
    BY <1>1, <1>10 DEF CopyFault
  <2>3. \A b \in Buffers \ {held[w]} : content'[b] = content[b]
    BY <1>1, <1>10, <2>1 DEF CopyFault
  <2>4. UNCHANGED <<data, accepted, sent, damaged>>
    BY <1>10 DEF CopyFault
  <2>5. InOrder(w)'
    BY <1>3, <2>1, <2>2, <2>3, <2>4 DEF InOrder
  <2>6. UNCHANGED Chan!vars
    BY <1>1, <1>2, <2>2, <2>4, ChannelStutter
  <2> QED
    BY <2>5, <2>6
<1>11. CASE TakeData(w)
  <2>1. /\ data # <<>> /\ data' = Tail(data) /\ pc[w] = "drain" /\ pc'[w] = "poll"
        /\ held'[w] = Head(data)
        /\ UNCHANGED <<content, accepted, sent, damaged>>
    BY <1>1, <1>11 DEF TakeData
  <2>2. /\ Len(data') = Len(data) - 1 /\ Len(data) >= 1
        /\ \A i \in 1 .. Len(data') : data'[i] = data[i + 1] /\ i + 1 \in 1 .. Len(data)
        /\ held'[w] = data[1]
    BY <1>1, <1>2, <2>1
  <2>3. Len(data) <= Len(accepted)
    BY <1>2, <2>1 DEF InOrder
  <2>4. ASSUME NEW i \in 1 .. Len(data')
        PROVE  content'[data'[i]].front
                 = accepted'[Len(accepted') - Len(data') + i]
    <3>1. content[data[i + 1]].front = accepted[Len(accepted) - Len(data) + (i + 1)]
      BY <2>2 DEF InOrder
    <3>2. Len(accepted) - Len(data) + (i + 1) = Len(accepted) - Len(data') + i
      BY <1>2, <2>2
    <3> QED
      BY <2>1, <2>2, <3>1, <3>2
  <2>5. content'[held'[w]].front = accepted'[Len(accepted') - Len(data')]
    <3>1. content[data[1]].front = accepted[Len(accepted) - Len(data) + 1]
      BY <1>2, <2>2 DEF InOrder
    <3>2. Len(accepted) - Len(data) + 1 = Len(accepted) - Len(data')
      BY <1>2, <2>2
    <3> QED
      BY <2>1, <2>2, <3>1, <3>2
  <2>6. InOrder(w)'
    BY <1>2, <2>1, <2>2, <2>3, <2>4, <2>5 DEF InOrder
  <2>7. UNCHANGED Chan!vars
    <3>1. w \notin InFlight /\ Len(data') \in Nat
      BY <1>1, <1>2, <2>1, <2>2
    <3>2. Len(data') + 1 = Len(data) + 0
      BY <1>2, <2>2
    <3> QED
      BY <1>1, <2>1, <3>1, <3>2, ChannelStutter
  <2> QED
    BY <2>6, <2>7
<1>12. CASE Return(w)
  BY <1>1, <1>4, <1>12 DEF Return
<1>13. CASE Ready(w)
  BY <1>1, <1>4, <1>13 DEF Ready
<1>14. CASE GiveUp(w)
  BY <1>1, <1>4, <1>14 DEF GiveUp
<1>15. CASE Requeue(w)
  <2>1. held[w] \in Buffers /\ pc[w] = "requeue" /\ pc'[w] = "idle"
    BY <1>1, <1>15, OwnedBuffer DEF Requeue, Owning
  <2>2. /\ Len(data') = Len(data) + 1
        /\ data'[1] = held[w]
        /\ \A i \in 1 .. Len(data) : data'[i + 1] = data[i]
    BY <1>1, <1>15, <2>1 DEF Requeue, PutFront
  <2>3. UNCHANGED <<content, accepted, sent, damaged>>
    BY <1>15 DEF Requeue
  <2>4. Len(data) + 1 <= Len(accepted)
    BY <1>1, <2>1 DEF InOrder
  <2>5. ASSUME NEW i \in 1 .. Len(data')
        PROVE  content'[data'[i]].front
                 = accepted'[Len(accepted') - Len(data') + i]
    <3>1. CASE i = 1
      <4>1. content[held[w]].front = accepted[Len(accepted) - Len(data)]
        BY <1>1, <2>1 DEF InOrder
      <4>2. Len(accepted) - Len(data') + 1 = Len(accepted) - Len(data)
        BY <1>2, <2>2
      <4> QED
        BY <2>2, <2>3, <3>1, <4>1, <4>2
    <3>2. CASE i # 1
      <4>1. i - 1 \in 1 .. Len(data) /\ (i - 1) + 1 = i
        BY <1>2, <2>2, <3>2
      <4>2. data'[i] = data[i - 1]
        BY <2>2, <4>1
      <4>3. content[data[i - 1]].front = accepted[Len(accepted) - Len(data) + (i - 1)]
        BY <4>1 DEF InOrder
      <4>4. Len(accepted) - Len(data) + (i - 1) = Len(accepted) - Len(data') + i
        BY <1>2, <2>2, <4>1
      <4> QED
        BY <2>3, <4>2, <4>3, <4>4
    <3> QED
      BY <3>1, <3>2
  <2>6. InOrder(w)'
    BY <1>2, <2>1, <2>2, <2>3, <2>4, <2>5 DEF InOrder
  <2>7. UNCHANGED Chan!vars
    BY <1>1, <1>2, <2>1, <2>2, <2>3, ChannelStutter
  <2> QED
    BY <2>6, <2>7
\* Nobody else touches the data queue inside list_add.
<1>16. ~RequeueTorn(w)
  BY DEF RequeueTorn, InOrder
<1>17. CASE Send(w)
  <2>1. held[w] \in Buffers /\ pc[w] = "send" /\ pc'[w] = "recycle"
    BY <1>1, <1>17, OwnedBuffer DEF Send, Owning
  <2>2. UNCHANGED <<data, content, accepted, damaged, held>>
    BY <1>17 DEF Send
  <2>3. /\ content[held[w]].front = accepted[Len(accepted) - Len(data)]
        /\ Len(data) + 1 <= Len(accepted)
    BY <1>1, <2>1 DEF InOrder
  <2>4. InOrder(w)'
    BY <1>2, <2>1, <2>2, <2>3 DEF InOrder
  <2>5. /\ Taken = Len(accepted) - Len(data) - 1
        /\ Taken' = Taken + 1
        /\ Taken < Len(accepted)
        /\ Taken + 1 = Len(accepted) - Len(data)
    <3>1. Taken = Len(accepted) - Len(data) - 1
      BY <1>1, <2>1, TakenOne
    <3>2. Taken' = Len(accepted) - Len(data) - 0
      BY <1>1, <2>1, <2>2, TakenOnePrime
    <3> HIDE DEF InFlight
    <3> QED
      BY <1>2, <2>3, <3>1, <3>2
  <2>6. CASE sent' = sent
    <3>1. Chan!Lose
      BY <2>2, <2>5, <2>6 DEF Chan!Lose, Fronts
    <3> QED
      BY <2>4, <3>1 DEF Chan!Next
  <2>7. CASE sent' = Append(sent, content[held[w]])
    <3>1. content[held[w]] \in Block
      BY <1>1, <2>1
    <3>2. Fronts(sent') = Append(Fronts(sent), content[held[w]].front)
      BY <1>1, <2>7, <3>1, FrontsAppend
    <3>3. Fronts(sent)' = Fronts(sent')
      BY DEF Fronts
    <3>4. Chan!Transmit
      BY <2>2, <2>3, <2>5, <3>2, <3>3 DEF Chan!Transmit
    <3> QED
      BY <2>4, <3>4 DEF Chan!Next
  <2> QED
    BY <1>17, <2>6, <2>7 DEF Send
<1>18. CASE Recycle(w)
  BY <1>1, <1>4, <1>18 DEF Recycle
<1>19. CASE Wake(w)
  BY <1>1, <1>4, <1>19 DEF Wake
<1>20. CASE ChipReady \/ ChipBusy
  BY <1>1, <1>4, <1>20 DEF ChipReady, ChipBusy, InOrder
<1>21. \/ Call(w) \/ Signal(w) \/ Step(w)
       \/ ChipReady \/ ChipBusy
  BY DEF Next, OneWriterOnly
<1> QED
  BY <1>5, <1>6, <1>7, <1>8, <1>9, <1>10, <1>11, <1>12, <1>13, <1>14, <1>15,
     <1>16, <1>17, <1>18, <1>19, <1>20, <1>21 DEF Step

-----------------------------------------------------------------------------
\* So does a stuttering step.
LEMMA StutterInOrder ==
    ASSUME NEW CONSTANT w, OneWriterOnly(w), InOrder(w), UNCHANGED vars
    PROVE  InOrder(w)' /\ UNCHANGED Chan!vars
<1>1. InOrder(w)'
  BY DEF InOrder, InFlight, First, vars
<1>2. UNCHANGED Chan!vars
  BY DEF Chan!vars, Taken, InFlight, Fronts, vars
<1> QED
  BY <1>1, <1>2

\* A single process that writes to the device finds its chunks on the wire in
\* the order of its calls, none twice and none lost but by a failed transfer
\* (vs10xx.h:48-51).
THEOREM OneWriterFifo ==
    ASSUME NEW CONSTANT w, OneWriterOnly(w) PROVE Spec => FifoChannel
<1>1. w \in Writers
  BY DEF OneWriterOnly
<1>2. Init => InOrder(w) /\ Chan!Init
  BY <1>1, InitInOrder, InitChannel
<1>3. IInv /\ InOrder(w) /\ [Next]_vars => InOrder(w)' /\ [Chan!Next]_(Chan!vars)
  BY NextInOrder, StutterInOrder
<1> QED
  BY <1>2, <1>3, Inductive, PTL DEF Spec, FifoChannel, Chan!Spec

\* With a single writing process the unlocked list_add (vs10xx_main.c:68)
\* never meets another list operation.
THEOREM OneWriterListIntact ==
    ASSUME NEW CONSTANT w, OneWriterOnly(w) PROVE Spec => []ListIntact
<1>1. w \in Writers
  BY DEF OneWriterOnly
<1>2. Init => InOrder(w)
  BY <1>1, InitInOrder
<1>3. IInv /\ InOrder(w) /\ [Next]_vars => InOrder(w)'
  BY NextInOrder, StutterInOrder
<1>4. InOrder(w) => ListIntact
  BY DEF InOrder, ListIntact
<1> QED
  BY <1>2, <1>3, <1>4, Inductive, PTL DEF Spec
-----------------------------------------------------------------------------
(* Any number of writing processes.  A step shows itself in the backlog in *)
(* one of three ways: a buffer joins it with the chunk that is accepted, a *)
(* buffer leaves it as its block is sent or lost, or nothing changes.      *)

Waits == {"poll", "send", "requeue"}
InHand == {held[v] : v \in {u \in Writers : pc[u] \in Waits}}

Quiet ==
    /\ Backlog' = Backlog
    /\ \A b \in Backlog : content'[b] = content[b]
    /\ UNCHANGED <<accepted, sent>>

Joins ==
    \E b \in Buffers, c \in Chunk :
        /\ b \notin Backlog
        /\ Backlog' = Backlog \cup {b}
        /\ content'[b] = Overwrite(content[b], c)
        /\ \A d \in Backlog : content'[d] = content[d]
        /\ accepted' = Append(accepted, c)
        /\ UNCHANGED sent

Leaves ==
    \E b \in Backlog :
        /\ Backlog' = Backlog \ {b}
        /\ UNCHANGED <<content, accepted>>
        /\ \/ sent' = Append(sent, content[b])
           \/ "spi" \in Env /\ UNCHANGED sent

-----------------------------------------------------------------------------
\* The backlog is the data queue and what is in the hands of who drains it.
LEMMA BacklogParts ==
    /\ Backlog = Elems(data) \cup InHand
    /\ Backlog' = Elems(data') \cup InHand'
BY DEF Backlog, InHand, Waits

\* A buffer that a process holds elsewhere is not in the backlog.
LEMMA OutsideBacklog ==
    ASSUME IInv, NEW w \in Writers, pc[w] \in Owning \ Waits
    PROVE  held[w] \in Buffers \ Backlog
<1>1. held[w] \in Buffers /\ held[w] \notin Elems(data)
  BY OwnedBuffer
<1>2. held[w] # NoBuffer
  BY <1>1, PoolAssumption DEF Buffers, NoBuffer
<1>3. held[w] \notin InHand
  BY <1>2 DEF InHand, IInv, Conservation, HeldApart
<1> QED
  BY <1>1, <1>3, BacklogParts

\* A step in which one process, outside the draining places, goes elsewhere
\* outside them leaves what is in hand as it was.
LEMMA HandsStill ==
    ASSUME NEW w \in Writers, pc[w] \notin Waits, pc'[w] \notin Waits,
           \A v \in Writers \ {w} : pc'[v] = pc[v] /\ held'[v] = held[v]
    PROVE  InHand' = InHand
BY DEF InHand

\* The hands of the others.
LEMMA HandsApart ==
    ASSUME IInv, NEW w \in Writers, pc[w] \in Waits
    PROVE  /\ held[w] \in InHand /\ held[w] \in Buffers /\ held[w] \notin Elems(data)
           /\ InHand \ {held[w]}
                = {held[v] : v \in {u \in Writers \ {w} : pc[u] \in Waits}}
<1>1. held[w] \in Buffers /\ held[w] \notin Elems(data)
  BY OwnedBuffer DEF Waits, Owning
<1>2. held[w] # NoBuffer
  BY <1>1, PoolAssumption DEF Buffers, NoBuffer
<1>3. \A v \in Writers \ {w} : held[v] # held[w]
  BY <1>2 DEF IInv, Conservation, HeldApart
<1> QED
  BY <1>1, <1>3 DEF InHand

\* What waits, waits in buffers of the chip.
LEMMA BacklogType == ASSUME IInv PROVE Backlog \subseteq Buffers
<1>1. Elems(data) \subseteq Buffers
  <2>1. data \in Seq(Buffers)
    BY DEF IInv, TypeOK
  <2> QED
    BY <2>1 DEF Elems
<1>2. InHand \subseteq Buffers
  BY HandsApart DEF InHand
<1> QED
  BY <1>1, <1>2, BacklogParts

\* The steps that leave the backlog alone.
LEMMA QuietSteps ==
    ASSUME IInv, NEW w \in Writers,
           \/ Call(w) \/ Signal(w) \/ TakeFree(w) \/ Sleep(w) \/ CopyFault(w)
           \/ Return(w) \/ Ready(w) \/ GiveUp(w) \/ RequeueTorn(w) \/ Recycle(w)
           \/ Wake(w)
    PROVE  Quiet
<1> USE DEF queues, job, chip
<1>1. pc \in [Writers -> Labels] /\ held \in [Writers -> Buffer] /\ SleepersFill
      /\ content \in [Buffers -> Block]
  BY DEF IInv, TypeOK
<1>2. UNCHANGED <<data, accepted, sent>>
  BY DEF Call, Begin, Signal, TakeFree, Sleep, CopyFault, Return, Ready, GiveUp,
         RequeueTorn, Recycle, Wake
<1>3. Elems(data') = Elems(data)
  BY <1>2 DEF Elems
<1>4. InHand' = InHand
  <2>1. CASE Ready(w) \/ GiveUp(w) \/ RequeueTorn(w) \/ Sleep(w)
    <3>1. /\ held' = held
          /\ \A v \in Writers : pc'[v] \in Waits <=> pc[v] \in Waits
      BY <1>1, <2>1 DEF Ready, GiveUp, RequeueTorn, Sleep, Waits
    <3> QED
      BY <3>1 DEF InHand
  <2>2. CASE Call(w) \/ Signal(w) \/ TakeFree(w) \/ CopyFault(w) \/ Return(w)
             \/ Recycle(w) \/ Wake(w)
    <3>1. \A k, n : LoopHead(k, n) \notin Waits
      BY DEF LoopHead, Waits
    <3>2. pc[w] \notin Waits
      BY <1>1, <2>2 DEF Call, Begin, Signal, TakeFree, CopyFault, Return, Recycle,
                        Wake, Waits, SleepersFill
    <3>3. pc'[w] \notin Waits
          /\ \A v \in Writers \ {w} : pc'[v] = pc[v] /\ held'[v] = held[v]
      BY <1>1, <2>2, <3>1 DEF Call, Begin, Signal, TakeFree, CopyFault, Return,
                              Recycle, Wake, Waits
    <3> QED
      BY <3>2, <3>3, HandsStill
  <2> QED
    BY <2>1, <2>2
<1>5. \A b \in Backlog : content'[b] = content[b]
  <2>1. CASE CopyFault(w)
    <3>1. held[w] \notin Backlog
      BY <2>1, OutsideBacklog DEF CopyFault, Owning, Waits
    <3>2. PICK block : content' = [content EXCEPT ![held[w]] = block]
      BY <2>1 DEF CopyFault
    <3>3. Backlog \subseteq Buffers
      BY BacklogType
    <3> QED
      BY <1>1, <3>1, <3>2, <3>3
  <2>2. CASE ~CopyFault(w)
    BY <2>2 DEF Call, Begin, Signal, TakeFree, Sleep, Return, Ready, GiveUp,
                RequeueTorn, Recycle, Wake
  <2> QED
    BY <2>1, <2>2
<1> QED
  BY <1>2, <1>3, <1>4, <1>5, BacklogParts DEF Quiet

\* A chunk is copied into a buffer from outside the backlog, which joins it.
LEMMA CopyJoins ==
    ASSUME IInv, NEW w \in Writers, CopyAndQueue(w)
    PROVE  Joins
<1>1. pc \in [Writers -> Labels] /\ held \in [Writers -> Buffer]
      /\ content \in [Buffers -> Block] /\ data \in Seq(Buffers)
  BY DEF IInv, TypeOK
<1>2. held[w] \in Buffers \ Backlog
  BY OutsideBacklog DEF CopyAndQueue, Owning, Waits
<1>3. NextChunk(w) \in Chunk
  BY NextChunkType DEF IInv, CopyAndQueue
<1>4. Elems(data') = Elems(data) \cup {held[w]}
  BY <1>1, <1>2, PutTailElems DEF CopyAndQueue
<1>5. InHand' = InHand
  <2>1. LoopHead(done[w] + 1, size[w]) \notin Waits
    BY DEF LoopHead, Waits
  <2>2. pc[w] \notin Waits /\ pc'[w] \notin Waits
        /\ \A v \in Writers \ {w} : pc'[v] = pc[v] /\ held'[v] = held[v]
    BY <1>1, <2>1 DEF CopyAndQueue, Waits
  <2> QED
    BY <2>2, HandsStill
<1>6. Backlog' = Backlog \cup {held[w]}
  BY <1>4, <1>5, BacklogParts
<1>7. Backlog \subseteq Buffers
  BY BacklogType
<1>8. content' = [content EXCEPT ![held[w]] = Overwrite(content[held[w]], NextChunk(w))]
      /\ accepted' = Append(accepted, NextChunk(w)) /\ sent' = sent
  BY DEF CopyAndQueue
<1>9. \A d \in Backlog : content'[d] = content[d]
  BY <1>1, <1>2, <1>7, <1>8
<1>10. content'[held[w]] = Overwrite(content[held[w]], NextChunk(w))
  BY <1>1, <1>2, <1>8
<1> QED
  BY <1>2, <1>3, <1>6, <1>8, <1>9, <1>10 DEF Joins

\* From the queue to the hand and back: the backlog is the same.
LEMMA HandOver ==
    ASSUME IInv, NEW w \in Writers, TakeData(w) \/ Requeue(w)
    PROVE  Quiet
<1>1. pc \in [Writers -> Labels] /\ held \in [Writers -> Buffer]
      /\ data \in Seq(Buffers) /\ NoDup(data)
  BY DEF IInv, TypeOK, Conservation, QueuesApart
<1>2. UNCHANGED <<content, accepted, sent>>
  BY DEF TakeData, Requeue
<1>3. CASE TakeData(w)
  <2>1. Head(data) \in Elems(data) /\ Elems(data') = Elems(data) \ {Head(data)}
    BY <1>1, <1>3, TakeHeadElems DEF TakeData
  <2>2. InHand' = InHand \cup {Head(data)}
    <3>1. pc[w] \notin Waits /\ pc'[w] \in Waits /\ held'[w] = Head(data)
          /\ \A v \in Writers \ {w} : pc'[v] = pc[v] /\ held'[v] = held[v]
      BY <1>1, <1>3 DEF TakeData, Waits
    <3> QED
      BY <3>1 DEF InHand
  <2>3. Backlog' = Backlog
    BY <2>1, <2>2, BacklogParts
  <2> QED
    BY <1>2, <2>3 DEF Quiet
<1>4. CASE Requeue(w)
  <2>1. pc[w] \in Waits /\ pc'[w] \notin Waits
        /\ \A v \in Writers \ {w} : pc'[v] = pc[v] /\ held'[v] = held[v]
    BY <1>1, <1>4 DEF Requeue, Waits
  <2>2. held[w] \in InHand /\ held[w] \in Buffers
    BY <2>1, HandsApart
  <2>3. InHand' = InHand \ {held[w]}
    <3>1. InHand' = {held[v] : v \in {u \in Writers \ {w} : pc[u] \in Waits}}
      BY <2>1 DEF InHand
    <3> QED
      BY <2>1, <3>1, HandsApart
  <2>4. Elems(data') = Elems(data) \cup {held[w]}
    BY <1>1, <1>4, <2>2, PutFrontElems DEF Requeue
  <2>5. Backlog' = Backlog
    BY <2>2, <2>3, <2>4, BacklogParts
  <2> QED
    BY <1>2, <2>5 DEF Quiet
<1> QED
  BY <1>3, <1>4

\* A block is sent, or lost by a failed transfer, and its buffer leaves.
LEMMA SendLeaves ==
    ASSUME IInv, NEW w \in Writers, Send(w)
    PROVE  Leaves
<1>1. pc \in [Writers -> Labels] /\ pc[w] \in Waits
  BY DEF IInv, TypeOK, Send, Waits
<1>2. /\ held' = held /\ pc'[w] \notin Waits
      /\ \A v \in Writers \ {w} : pc'[v] = pc[v]
      /\ UNCHANGED <<data, content, accepted>>
  BY <1>1 DEF Send, Waits, queues
<1>3. InHand' = InHand \ {held[w]}
  <2>1. InHand' = {held[v] : v \in {u \in Writers \ {w} : pc[u] \in Waits}}
    BY <1>2 DEF InHand
  <2> QED
    BY <1>1, <2>1, HandsApart
<1>4. held[w] \in Backlog /\ Backlog' = Backlog \ {held[w]}
  <2>1. held[w] \in InHand /\ held[w] \notin Elems(data)
    BY <1>1, HandsApart
  <2>2. Elems(data') = Elems(data)
    BY <1>2 DEF Elems
  <2> QED
    BY <1>3, <2>1, <2>2, BacklogParts
<1>5. \/ sent' = Append(sent, content[held[w]])
      \/ "spi" \in Env /\ UNCHANGED sent
  BY DEF Send
<1> QED
  BY <1>2, <1>4, <1>5 DEF Leaves

\* Every step, as the backlog sees it.
LEMMA Moves == ASSUME IInv, [Next]_vars PROVE Quiet \/ Joins \/ Leaves
<1>1. CASE UNCHANGED vars \/ ChipReady \/ ChipBusy
  <2>1. UNCHANGED <<data, content, held, pc, accepted, sent>>
    BY <1>1 DEF vars, ChipReady, ChipBusy, queues
  <2> QED
    BY <2>1 DEF Quiet, Backlog, Elems
<1>2. ASSUME NEW w \in Writers, Call(w) \/ Signal(w) \/ Step(w)
      PROVE  Quiet \/ Joins \/ Leaves
  BY <1>2, QuietSteps, CopyJoins, HandOver, SendLeaves DEF Step
<1> QED
  BY <1>1, <1>2 DEF Next

-----------------------------------------------------------------------------
(* Chunks whole.                                                           *)

Whole(block) == block.front \in Chunk /\ block.front.whole => block.back = block.front

AllWhole ==
    /\ \A b \in Backlog : Whole(content[b])
    /\ \A i \in DOMAIN sent : Whole(sent[i])

\* A chunk that fills its buffer overwrites all of it.
LEMMA OverwrittenWhole ==
    ASSUME NEW block, NEW c \in Chunk
    PROVE  Whole(Overwrite(block, c)) /\ Overwrite(block, c).front = c
BY DEF Whole, Overwrite

LEMMA NextWhole ==
    ASSUME IInv, AllWhole, [Next]_vars
    PROVE  AllWhole'
<1>1. CASE Quiet
  BY <1>1 DEF Quiet, AllWhole
<1>2. CASE Joins
  <2>1. PICK b \in Buffers, c \in Chunk :
           /\ Backlog' = Backlog \cup {b}
           /\ content'[b] = Overwrite(content[b], c)
           /\ \A d \in Backlog : content'[d] = content[d]
           /\ UNCHANGED sent
    BY <1>2 DEF Joins
  <2>2. Whole(content'[b])
    BY <2>1, OverwrittenWhole
  <2> QED
    BY <2>1, <2>2 DEF AllWhole
<1>3. CASE Leaves
  <2>1. PICK b \in Backlog :
           /\ Backlog' = Backlog \ {b}
           /\ UNCHANGED content
           /\ sent' = Append(sent, content[b]) \/ UNCHANGED sent
    BY <1>3 DEF Leaves
  <2>2. CASE UNCHANGED sent
    BY <2>1, <2>2 DEF AllWhole
  <2>3. CASE sent' = Append(sent, content[b])
    <3>1. sent \in Seq(Block)
      BY DEF IInv, TypeOK
    <3>2. \A i \in DOMAIN sent' : \/ i \in DOMAIN sent /\ sent'[i] = sent[i]
                                  \/ sent'[i] = content[b]
      BY <2>3, <3>1
    <3> QED
      BY <2>1, <3>2 DEF AllWhole
  <2> QED
    BY <2>1, <2>2, <2>3
<1> QED
  BY <1>1, <1>2, <1>3, Moves

\* However many processes write, a chunk that fills its buffer reaches the chip
\* unmixed (vs10xx_main.c:53-74).
THEOREM ChunksUnmixed == Spec => []WholeChunksUnmixed
<1>1. Init => AllWhole
  <2>1. Init => Backlog = {} /\ sent = <<>>
    BY DEF Init, Backlog, Elems
  <2> QED
    BY <2>1 DEF AllWhole
<1>2. AllWhole => WholeChunksUnmixed
  BY DEF AllWhole, Whole, WholeChunksUnmixed
<1> QED
  BY <1>1, <1>2, Inductive, NextWhole, PTL DEF Spec

-----------------------------------------------------------------------------
(* Each chunk once.                                                        *)

Kept(c) == {b \in Backlog : content[b].front = c}
At(q, c) == {i \in DOMAIN q : q[i] = c}

\* A sequence holds a chunk finitely often.
LEMMA CountsFinite ==
    ASSUME NEW S, NEW q \in Seq(S), NEW c
    PROVE  /\ IsFiniteSet(At(q, c))
           /\ Occurrences(q, c) = Cardinality(At(q, c))
           /\ Occurrences(q, c) \in Nat
<1>1. Len(q) \in Nat /\ DOMAIN q = 1 .. Len(q)
  OBVIOUS
<1>2. IsFiniteSet(At(q, c))
  <2>1. IsFiniteSet(1 .. Len(q))
    BY <1>1, FS_Interval
  <2> QED
    BY <1>1, <2>1, FS_Subset DEF At
<1>3. Occurrences(q, c) = Cardinality(At(q, c))
  BY DEF Occurrences, At
<1> QED
  BY <1>2, <1>3, FS_CardinalityType

\* What is appended occurs once more.
LEMMA AppendCounts ==
    ASSUME NEW S, NEW q \in Seq(S), NEW x \in S, NEW c
    PROVE  Occurrences(Append(q, x), c)
             = Occurrences(q, c) + (IF x = c THEN 1 ELSE 0)
<1>1. Len(q) \in Nat /\ DOMAIN q = 1 .. Len(q)
  OBVIOUS
<1>2. Append(q, x) \in Seq(S)
  OBVIOUS
<1>3. At(Append(q, x), c) = IF x = c THEN At(q, c) \cup {Len(q) + 1} ELSE At(q, c)
  <2>1. /\ DOMAIN Append(q, x) = 1 .. Len(q) + 1
        /\ \A i \in 1 .. Len(q) : Append(q, x)[i] = q[i]
        /\ Append(q, x)[Len(q) + 1] = x
    OBVIOUS
  <2>2. \A i \in 1 .. Len(q) + 1 : i \in 1 .. Len(q) \/ i = Len(q) + 1
    BY <1>1
  <2>3. Len(q) + 1 \in 1 .. Len(q) + 1 /\ 1 .. Len(q) \subseteq 1 .. Len(q) + 1
    BY <1>1
  <2> QED
    BY <1>1, <2>1, <2>2, <2>3 DEF At
<1>4. Len(q) + 1 \notin At(q, c)
  BY <1>1 DEF At
<1>5. Cardinality(At(q, c) \cup {Len(q) + 1}) = Cardinality(At(q, c)) + 1
  BY <1>4, CountsFinite, FS_AddElement
<1>6. /\ Occurrences(q, c) = Cardinality(At(q, c)) /\ Occurrences(q, c) \in Nat
      /\ Occurrences(Append(q, x), c) = Cardinality(At(Append(q, x), c))
  BY <1>2, CountsFinite
<1>7. CASE x = c
  BY <1>3, <1>5, <1>6, <1>7
<1>8. CASE x # c
  BY <1>3, <1>6, <1>8
<1> QED
  BY <1>7, <1>8

\* The backlog is finite, and so is what it keeps of a chunk.
LEMMA KeptFinite == ASSUME IInv, NEW c PROVE IsFiniteSet(Kept(c))
<1>1. Backlog \subseteq Buffers
  BY BacklogType
<1>2. IsFiniteSet(Buffers)
  BY PoolAssumption, FS_Interval DEF Buffers
<1> QED
  BY <1>1, <1>2, FS_Subset DEF Kept

Seen(c) == Occurrences(Fronts(sent), c) + Cardinality(Kept(c))
Owed(c) == Occurrences(accepted, c)
Balance ==
    \A c \in Byte : IF "spi" \in Env THEN Seen(c) <= Owed(c) ELSE Seen(c) = Owed(c)

LEMMA BalanceIsOnce == Balance <=> EachChunkOnce
BY DEF Balance, EachChunkOnce, Seen, Owed, Kept

LEMMA NextBalance == ASSUME IInv, IInv', Balance, [Next]_vars PROVE Balance'
<1>1. /\ accepted \in Seq(Chunk) /\ sent \in Seq(Block) /\ content \in [Buffers -> Block]
      /\ Backlog \subseteq Buffers
  BY BacklogType DEF IInv, TypeOK
<1>2. SUFFICES ASSUME NEW c \in Byte
               PROVE  IF "spi" \in Env THEN Seen(c)' <= Owed(c)' ELSE Seen(c)' = Owed(c)'
  BY DEF Balance
<1>3. IF "spi" \in Env THEN Seen(c) <= Owed(c) ELSE Seen(c) = Owed(c)
  BY DEF Balance
<1>4. Cardinality(Kept(c)) \in Nat
  BY KeptFinite, FS_CardinalityType
<1>5. Occurrences(Fronts(sent), c) \in Nat
  <2>1. Fronts(sent) \in Seq(Byte)
    BY <1>1, FrontsType
  <2> QED
    BY <2>1, CountsFinite
<1>6. Owed(c) \in Nat
  BY <1>1, CountsFinite DEF Owed
<1>7. CASE Quiet
  <2>1. Kept(c)' = Kept(c)
    BY <1>7 DEF Quiet, Kept
  <2>2. Seen(c)' = Seen(c) /\ Owed(c)' = Owed(c)
    BY <1>7, <2>1 DEF Quiet, Seen, Owed
  <2> QED
    BY <1>3, <2>2
<1>8. CASE Joins
  <2>1. PICK b \in Buffers, d \in Chunk :
           /\ b \notin Backlog
           /\ Backlog' = Backlog \cup {b}
           /\ content'[b] = Overwrite(content[b], d)
           /\ \A e \in Backlog : content'[e] = content[e]
           /\ accepted' = Append(accepted, d)
           /\ UNCHANGED sent
    BY <1>8 DEF Joins
  <2>2. content'[b].front = d
    BY <2>1, OverwrittenWhole
  <2>3. Kept(c)' = IF d = c THEN Kept(c) \cup {b} ELSE Kept(c)
    BY <2>1, <2>2 DEF Kept
  <2>4. b \notin Kept(c)
    BY <2>1 DEF Kept
  <2>5. Cardinality(Kept(c)') = Cardinality(Kept(c)) + (IF d = c THEN 1 ELSE 0)
    <3>1. Cardinality(Kept(c) \cup {b}) = Cardinality(Kept(c)) + 1
      BY <2>4, KeptFinite, FS_AddElement
    <3> QED
      BY <1>4, <2>3, <3>1
  <2>6. Owed(c)' = Owed(c) + (IF d = c THEN 1 ELSE 0)
    BY <1>1, <2>1, AppendCounts DEF Owed
  <2>7. Seen(c)' = Seen(c) + (IF d = c THEN 1 ELSE 0)
    BY <1>4, <1>5, <2>1, <2>5 DEF Seen
  <2>8. Seen(c) \in Nat
    BY <1>4, <1>5 DEF Seen
  <2> QED
    BY <1>3, <1>6, <2>6, <2>7, <2>8
<1>9. CASE Leaves
  <2>1. PICK b \in Backlog :
           /\ Backlog' = Backlog \ {b}
           /\ UNCHANGED <<content, accepted>>
           /\ \/ sent' = Append(sent, content[b])
              \/ "spi" \in Env /\ UNCHANGED sent
    BY <1>9 DEF Leaves
  <2>2. content[b] \in Block
    BY <1>1
  <2>3. Kept(c)' = Kept(c) \ {b}
    BY <2>1 DEF Kept
  <2>4. b \in Kept(c) <=> content[b].front = c
    BY DEF Kept
  <2>5. Cardinality(Kept(c)')
          = Cardinality(Kept(c)) - (IF content[b].front = c THEN 1 ELSE 0)
    <3>1. Cardinality(Kept(c) \ {b})
            = IF b \in Kept(c) THEN Cardinality(Kept(c)) - 1 ELSE Cardinality(Kept(c))
      BY KeptFinite, FS_RemoveElement
    <3> QED
      BY <1>4, <2>3, <2>4, <3>1
  <2>6. Owed(c)' = Owed(c)
    BY <2>1 DEF Owed
  <2>7. CASE sent' = Append(sent, content[b])
    <3>1. content[b].front \in Byte
      BY <2>2 DEF Block
    <3>2. Fronts(sent) \in Seq(Byte)
          /\ Fronts(sent') = Append(Fronts(sent), content[b].front)
      BY <1>1, <2>2, <2>7, FrontsType, FrontsAppend
    <3>3. Occurrences(Fronts(sent'), c)
            = Occurrences(Fronts(sent), c) + (IF content[b].front = c THEN 1 ELSE 0)
      BY <3>1, <3>2, AppendCounts
    <3>4. Seen(c)' = Seen(c)
      BY <1>4, <1>5, <2>5, <3>3 DEF Seen
    <3> QED
      BY <1>3, <2>6, <3>4
  <2>8. CASE "spi" \in Env /\ UNCHANGED sent
    <3>1. Seen(c)' = Seen(c) - (IF content[b].front = c THEN 1 ELSE 0)
      BY <1>4, <1>5, <2>5, <2>8 DEF Seen
    <3>2. Seen(c) \in Nat
      BY <1>4, <1>5 DEF Seen
    <3> QED
      BY <1>3, <1>6, <2>6, <2>8, <3>1, <3>2
  <2> QED
    BY <2>1, <2>7, <2>8
<1> QED
  BY <1>7, <1>8, <1>9, Moves

\* However many processes write, and through stalls, faults and signals, each
\* accepted chunk is sent once or waits in exactly one buffer; only a failed
\* transfer loses one (vs10xx_main.c:43-84).
THEOREM ChunksSentOnce == Spec => []EachChunkOnce
<1>1. Init => Balance
  <2> SUFFICES ASSUME Init, NEW c \in Byte
               PROVE  Seen(c) = 0 /\ Owed(c) = 0
    BY DEF Balance
  <2>1. Backlog = {} /\ sent = <<>> /\ accepted = <<>>
    BY DEF Init, Backlog, Elems
  <2>2. Kept(c) = {}
    BY <2>1 DEF Kept
  <2>3. At(accepted, c) = {} /\ At(Fronts(sent), c) = {}
    BY <2>1 DEF At, Fronts
  <2> QED
    BY <2>2, <2>3, FS_EmptySet DEF Seen, Owed, Occurrences, At
<1>2. Balance => EachChunkOnce
  BY BalanceIsOnce
<1> QED
  BY <1>1, <1>2, Inductive, NextBalance, PTL DEF Spec
-----------------------------------------------------------------------------
(* Everybody inside write() is not asleep.                                 *)

\* Who has queued a buffer is still in the call that did, which has numbered
\* its chunks from 1 on.
From(b) == content[b].front.by
Number(b) == content[b].front.index

Queued ==
    /\ \A w \in Writers : pc[w] # "requeue"
    /\ \A b \in Elems(data) :
          /\ content[b].front \in Chunk
          /\ pc[From(b)] # "idle"
          /\ Number(b) <= done[From(b)]
    /\ \A b, d \in Elems(data) : From(b) = From(d) /\ Number(b) = Number(d) => b = d

\* A step that queues nothing: nobody who has queued a buffer leaves its call
\* or forgets its chunks.
LEMMA NothingQueued ==
    ASSUME Queued, NEW w \in Writers,
           Elems(data') \subseteq Elems(data),
           \A b \in Elems(data) : content'[b] = content[b],
           \A v \in Writers \ {w} : pc'[v] = pc[v] /\ done'[v] = done[v],
           pc'[w] # "requeue",
           \/ pc'[w] # "idle" /\ done'[w] = done[w]
           \/ pc[w] = "idle"
           \/ Elems(data) = {}
    PROVE  Queued'
<1>1. \A b \in Elems(data) : content[b].front \in Chunk /\ From(b) \in Writers
  BY DEF Queued, From, Chunk
<1>2. \A b \in Elems(data') :
         /\ content'[b].front \in Chunk
         /\ pc'[content'[b].front.by] # "idle"
         /\ content'[b].front.index <= done'[content'[b].front.by]
  BY <1>1 DEF Queued, From, Number
<1>3. \A b, d \in Elems(data') :
         content'[b].front.by = content'[d].front.by
         /\ content'[b].front.index = content'[d].front.index => b = d
  BY DEF Queued, From, Number
<1>4. \A v \in Writers : pc'[v] # "requeue"
  BY DEF Queued
<1> QED
  BY <1>2, <1>3, <1>4 DEF Queued, From, Number, Elems

\* The chunk that is queued has a number above those of its call before it.
LEMMA CopyQueues ==
    ASSUME IInv, Queued, NEW w \in Writers, CopyAndQueue(w)
    PROVE  Queued'
<1> DEFINE b == held[w]
           c == NextChunk(w)
<1>1. /\ pc[w] = "copy" /\ data' = PutTail(data, b)
      /\ content' = [content EXCEPT ![b] = Overwrite(@, c)]
      /\ done' = [done EXCEPT ![w] = @ + 1]
      /\ pc' = [pc EXCEPT ![w] = LoopHead(done[w] + 1, size[w])]
  BY DEF CopyAndQueue
<1>2. b \in Buffers /\ b \notin Elems(data)
  BY <1>1, OwnedBuffer DEF Owning
<1>3. c \in Chunk /\ c.by = w /\ c.index = done[w] + 1
  BY <1>1, NextChunkType DEF IInv, NextChunk
<1>4. content' = [content EXCEPT ![b] = [front |-> c, back |-> @.back]]
      \/ content' = [content EXCEPT ![b] = [front |-> c, back |-> c]]
  BY <1>1 DEF Overwrite
<1>5. /\ content'[b].front = c
      /\ \A d \in Elems(data) : content'[d] = content[d]
  BY <1>2, <1>4 DEF IInv, TypeOK, Elems
<1>6. Elems(data') = Elems(data) \cup {b}
  BY <1>1, <1>2, PutTailElems DEF IInv, TypeOK
<1>7. /\ pc'[w] \in {"fill", "drain"} /\ done'[w] = done[w] + 1 /\ done[w] \in Nat
      /\ \A v \in Writers \ {w} : pc'[v] = pc[v] /\ done'[v] = done[v]
  BY <1>1 DEF IInv, TypeOK, LoopHead
<1> HIDE DEF b, c
<1>8. \A d \in Elems(data) :
         /\ content[d].front \in Chunk /\ content[d].front.by \in Writers
         /\ content[d].front.index \in Nat
         /\ pc[content[d].front.by] # "idle"
         /\ content[d].front.index <= done[content[d].front.by]
  BY DEF Queued, From, Number, Chunk
<1>9. \A d \in Elems(data) :
         ~(content[d].front.by = w /\ content[d].front.index = done[w] + 1)
  BY <1>7, <1>8
<1>10. \A d \in Elems(data') :
          /\ content'[d].front \in Chunk
          /\ pc'[content'[d].front.by] # "idle"
          /\ content'[d].front.index <= done'[content'[d].front.by]
  <2> SUFFICES ASSUME NEW d \in Elems(data')
               PROVE  /\ content'[d].front \in Chunk
                      /\ pc'[content'[d].front.by] # "idle"
                      /\ content'[d].front.index <= done'[content'[d].front.by]
    OBVIOUS
  <2>1. CASE d = b
    BY <1>3, <1>5, <1>7, <2>1
  <2>2. CASE d \in Elems(data)
    <3>1. content'[d] = content[d]
      BY <1>5, <2>2
    <3>2. CASE content[d].front.by = w
      BY <1>7, <1>8, <2>2, <3>1, <3>2
    <3>3. CASE content[d].front.by # w
      BY <1>7, <1>8, <2>2, <3>1, <3>3
    <3> QED
      BY <3>2, <3>3
  <2> QED
    BY <1>6, <2>1, <2>2
<1>11. \A d, e \in Elems(data') :
          content'[d].front.by = content'[e].front.by
          /\ content'[d].front.index = content'[e].front.index => d = e
  BY <1>3, <1>5, <1>6, <1>9 DEF Queued, From, Number
<1>12. \A v \in Writers : pc'[v] # "requeue"
  BY <1>7 DEF Queued
<1> QED
  BY <1>10, <1>11, <1>12 DEF Queued, From, Number, Elems

\* No stall, fault or signal takes a process out of write() with the data
\* queue not empty.
LEMMA NextQueued ==
    ASSUME IInv, Queued, [Next]_vars, Env \cap {"stall", "efault", "signal"} = {}
    PROVE  Queued'
<1> USE DEF queues, job, chip
<1>1. CASE UNCHANGED vars \/ ChipReady \/ ChipBusy
  <2>1. UNCHANGED <<data, content, pc, done>>
    BY <1>1 DEF vars, ChipReady, ChipBusy
  <2> QED
    BY <2>1 DEF Queued, From, Number, Elems
<1>2. ASSUME NEW w \in Writers, CopyAndQueue(w) PROVE Queued'
  BY <1>2, CopyQueues
<1>3. ASSUME NEW w \in Writers, Call(w) PROVE Queued'
  <2>1. PICK n \in 0 .. MaxChunks, cut \in BOOLEAN : Begin(w, n, cut)
    BY <1>3 DEF Call
  <2>2. /\ pc[w] = "idle" /\ pc'[w] \in {"fill", "drain"} /\ UNCHANGED <<data, content>>
        /\ \A v \in Writers \ {w} : pc'[v] = pc[v] /\ done'[v] = done[v]
    BY <2>1 DEF Begin, LoopHead, IInv, TypeOK
  <2> QED
    BY <2>2, NothingQueued
<1>4. ASSUME NEW w \in Writers, TakeData(w) PROVE Queued'
  <2>1. /\ data # <<>> /\ data' = Tail(data) /\ pc'[w] = "poll"
        /\ UNCHANGED <<content, done>>
        /\ \A v \in Writers \ {w} : pc'[v] = pc[v]
    BY <1>4 DEF TakeData, IInv, TypeOK
  <2>2. Elems(data') = Elems(data) \ {Head(data)}
    BY <2>1, TakeHeadElems DEF IInv, TypeOK, Conservation, QueuesApart
  <2> QED
    BY <2>1, <2>2, NothingQueued
<1>5. ASSUME NEW w \in Writers, Return(w) PROVE Queued'
  <2>1. /\ data = <<>> /\ pc'[w] = "idle" /\ UNCHANGED <<data, content, done>>
        /\ \A v \in Writers \ {w} : pc'[v] = pc[v]
    BY <1>5 DEF Return, IInv, TypeOK
  <2>2. Elems(data) = {}
    BY <2>1 DEF Elems
  <2> QED
    BY <2>1, <2>2, NothingQueued
<1>6. ASSUME NEW w \in Writers,
             \/ TakeFree(w) \/ Sleep(w) \/ Ready(w) \/ Send(w) \/ Recycle(w) \/ Wake(w)
      PROVE Queued'
  <2>1. /\ pc[w] # "idle" /\ UNCHANGED <<data, content, done>>
        /\ pc'[w] \notin {"idle", "requeue"}
        /\ \A v \in Writers \ {w} : pc'[v] = pc[v]
    BY <1>6 DEF TakeFree, Sleep, Ready, Send, Recycle, Wake, IInv, TypeOK
  <2> QED
    BY <2>1, NothingQueued
<1>7. ASSUME NEW w \in Writers,
             Signal(w) \/ CopyFault(w) \/ GiveUp(w) \/ Requeue(w) \/ RequeueTorn(w)
      PROVE FALSE
  BY <1>7 DEF Signal, CopyFault, GiveUp, Requeue, RequeueTorn, Queued
<1> QED
  BY <1>1, <1>2, <1>3, <1>4, <1>5, <1>6, <1>7 DEF Next, Step

\* If everybody inside write() slept, each buffer would be queued by one of
\* them, who still wants one more: there are too many buffers for that.
LEMMA NotAllAsleep ==
    ASSUME IInv, Queued, NoLostWakeup, N > Cardinality(Writers) * (MaxChunks - 1)
    PROVE  SomeoneDrains
<1> SUFFICES ASSUME data # <<>>, \A w \in Writers \ asleep : pc[w] = "idle"
             PROVE  FALSE
  BY DEF SomeoneDrains
<1>1. \A w \in Writers : pc[w] \in {"idle", "fill"} /\ (w \in asleep => pc[w] = "fill")
  BY DEF IInv, SleepersFill
<1>2. \A b \in Elems(data) :
         /\ From(b) \in Writers
         /\ Number(b) \in 1 .. MaxChunks - 1
  <2> SUFFICES ASSUME NEW b \in Elems(data)
               PROVE  From(b) \in Writers /\ Number(b) \in 1 .. MaxChunks - 1
    OBVIOUS
  <2>1. /\ From(b) \in Writers /\ Number(b) \in 1 .. MaxChunks
        /\ pc[From(b)] # "idle" /\ Number(b) <= done[From(b)]
    BY DEF Queued, From, Number, Chunk
  <2>2. pc[From(b)] = "fill"
    BY <1>1, <2>1
  <2>3. done[From(b)] < size[From(b)]
    BY <2>1, <2>2 DEF IInv, Counted
  <2>4. done[From(b)] \in Nat /\ size[From(b)] \in 0 .. MaxChunks
    BY <2>1, BoundAssumption DEF IInv, TypeOK
  <2> QED
    BY <2>1, <2>3, <2>4, BoundAssumption
<1>3. data \in Seq(Buffers) /\ 1 \in 1 .. Len(data) /\ data[1] \in Elems(data)
  BY DEF IInv, TypeOK, Elems
<1>4. pool = <<>>
  <2>1. From(data[1]) \in Writers /\ pc[From(data[1])] # "idle"
    BY <1>2, <1>3 DEF Queued
  <2>2. asleep # {}
    BY <2>1
  <2> QED
    BY <1>1, <2>2 DEF NoLostWakeup
<1>5. Buffers \subseteq Elems(data)
  <2>1. \A w \in Writers : held[w] = NoBuffer
    BY <1>1 DEF IInv, Conservation, HeldApart, Owning
  <2>2. Elems(pool) = {} /\ NoBuffer \notin Buffers
    BY <1>4 DEF Elems, Buffers, NoBuffer
  <2> QED
    BY <2>1, <2>2 DEF IInv, Conservation, NoneLeaked
<1>6. DEFINE whose == [b \in Buffers |-> <<From(b), Number(b)>>]
             room == Writers \X (1 .. MaxChunks - 1)
<1>7. whose \in [Buffers -> room]
  BY <1>2, <1>5
<1>8. \A b, d \in Buffers : whose[b] = whose[d] => b = d
  BY <1>5 DEF Queued
<1>9. MaxChunks \in Nat \ {0}
  BY <1>2, <1>3, BoundAssumption
<1>10. IsFiniteSet(room) /\ Cardinality(room) = Cardinality(Writers) * (MaxChunks - 1)
  <2>1. /\ IsFiniteSet(1 .. MaxChunks - 1)
        /\ Cardinality(1 .. MaxChunks - 1) = MaxChunks - 1
    BY <1>9, FS_Interval
  <2> QED
    BY <2>1, WritersAssumption, FS_Product
<1>11. IsFiniteSet(Buffers) /\ Cardinality(Buffers) = N
  BY PoolAssumption, FS_Interval DEF Buffers
<1> HIDE DEF whose, room
<1>12. Cardinality(room) < Cardinality(Buffers)
  BY <1>10, <1>11
<1>13. \E b, d \in Buffers : b # d /\ whose[b] = whose[d]
  BY <1>7, <1>10, <1>11, <1>12, FS_PigeonHole
<1> QED
  BY <1>8, <1>13

\* For any processes and writes: while chunks wait in the data queue somebody
\* inside write() is awake, as long as no stall, fault or signal ends a write()
\* early and the pool is larger than what all processes can queue while each
\* still wants one more buffer (vs10xx_main.c:43-84).
THEOREM DrainsGoOn ==
    ASSUME Env \cap {"stall", "efault", "signal"} = {},
           N > Cardinality(Writers) * (MaxChunks - 1)
    PROVE  Spec => []SomeoneDrains
<1>1. Init => Queued
  BY DEF Init, Queued, Elems
<1>2. Spec => []NoLostWakeup
  BY WakeupNotLost
<1> QED
  BY <1>1, <1>2, Inductive, NextQueued, NotAllAsleep, PTL DEF Spec

=============================================================================
