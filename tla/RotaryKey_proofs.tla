--------------------------- MODULE RotaryKey_proofs ---------------------------
(***************************************************************************)
(* That at most one process has the rotary encoder open, for any number of *)
(* processes, however their calls of open() and release() interleave, and  *)
(* that every click of the key is accounted for.                           *)
(***************************************************************************)
EXTENDS RotaryKey, FiniteSetTheorems, TLAPS

\* The types of what decides who owns an interrupt.
Typed ==
    /\ pc \in [Users -> Samples \cup {"closed", "timer", "irqs", "open", "clear",
                                     "copy", "stop", "free"}]
    /\ irq \in [Users -> 1 .. 4]
    /\ result \in [Users -> BOOLEAN]
    /\ owner \in [Irqs -> Users \cup {Nobody}]

\* The interrupts that are certainly a process' own: in open(), if no request
\* has failed, those it has passed; in release(), those it has still to free.
Holds(u, i) ==
    \/ pc[u] \in Inside
    \/ pc[u] \in Samples \cup {"timer", "irqs"} /\ ~result[u] /\ i < irq[u]
    \/ pc[u] = "free" /\ irq[u] <= i

Owned == \A u \in Users, i \in Irqs : Holds(u, i) => owner[i] = u

IInv == Typed /\ Owned

-----------------------------------------------------------------------------
\* Nobody has the device open at first.
LEMMA InitIInv == Init => IInv
BY DEF Init, IInv, Typed, Owned, Holds, Inside, Samples, Irqs

\* A step that touches no owner and lets nobody pass an interrupt.
LEMMA NoClaim ==
    ASSUME IInv, Typed', UNCHANGED owner,
           \A u \in Users, i \in Irqs : Holds(u, i)' => Holds(u, i)
    PROVE  IInv'
BY DEF IInv, Owned

\* my_open: a request succeeds only on an interrupt nobody has.
LEMMA RequestKeeps ==
    ASSUME IInv, NEW u \in Users, RequestIrq(u)
    PROVE  IInv'
<1> USE DEF IInv
<1>1. Typed'
  <2>1. irq' \in [Users -> 1 .. 4] /\ pc' = pc
    BY DEF RequestIrq, Typed, Irqs
  <2>2. result' \in [Users -> BOOLEAN]
    BY DEF RequestIrq, Typed
  <2>3. owner' \in [Irqs -> Users \cup {Nobody}]
    BY DEF RequestIrq, Typed
  <2> QED
    BY <2>1, <2>2, <2>3 DEF Typed
<1>2. ASSUME NEW v \in Users, NEW i \in Irqs, Holds(v, i)'
      PROVE  owner'[i] = v
  <2>1. CASE v = u
    <3>1. pc'[u] = "irqs" /\ ~result'[u] /\ i < irq'[u]
      BY <1>2, <2>1 DEF RequestIrq, Holds, Inside, Samples, Typed
    <3>2. irq'[u] = irq[u] + 1 /\ irq[u] \in Irqs
      BY DEF RequestIrq, Typed
    <3>3. ~result[u] /\ owner[irq[u]] = Nobody
          /\ owner' = [owner EXCEPT ![irq[u]] = u]
      BY <3>1 DEF RequestIrq, Typed
    <3>4. CASE i = irq[u]
      BY <2>1, <3>3, <3>4, <3>2 DEF Typed
    <3>5. CASE i # irq[u]
      <4>1. i < irq[u]
        BY <3>1, <3>2, <3>5 DEF Irqs
      <4>2. owner[i] = u
        BY <4>1, <3>3 DEF Owned, Holds, RequestIrq
      <4> QED
        BY <2>1, <3>3, <3>5, <4>2 DEF Typed
    <3> QED
      BY <3>4, <3>5
  <2>2. CASE v # u
    <3>1. Holds(v, i)
      BY <1>2, <2>2 DEF RequestIrq, Holds, Typed
    <3>2. owner[i] = v
      BY <3>1 DEF Owned
    <3>3. owner' = owner \/ (owner[irq[u]] = Nobody
                             /\ owner' = [owner EXCEPT ![irq[u]] = u])
      BY DEF RequestIrq
    <3> QED
      BY <3>2, <3>3, UsersAssumption DEF Typed
  <2> QED
    BY <2>1, <2>2
<1> QED
  BY <1>1, <1>2 DEF Owned

\* my_release: a process frees only what it owns.
LEMMA FreeKeeps ==
    ASSUME IInv, NEW u \in Users, FreeIrq(u)
    PROVE  IInv'
<1> USE DEF IInv
<1>1. Typed'
  BY DEF FreeIrq, Typed, Irqs
<1>2. owner[irq[u]] = u
  BY DEF FreeIrq, Owned, Holds, Typed, Irqs
<1>3. ASSUME NEW v \in Users, NEW i \in Irqs, Holds(v, i)'
      PROVE  owner'[i] = v
  <2>1. CASE v = u
    <3>1. pc[u] = "free" /\ irq[u] + 1 <= i
      BY <1>3, <2>1 DEF FreeIrq, Holds, Inside, Samples, Typed
    <3>2. irq[u] <= i /\ i # irq[u]
      BY <3>1 DEF Typed, Irqs
    <3>3. owner[i] = u
      BY <3>1, <3>2 DEF Owned, Holds
    <3> QED
      BY <2>1, <3>2, <3>3 DEF FreeIrq, Typed
  <2>2. CASE v # u
    <3>1. owner[i] = v
      BY <1>3, <2>2 DEF FreeIrq, Holds, Owned, Typed
    <3> QED
      BY <1>2, <2>2, <3>1 DEF FreeIrq, Typed
  <2> QED
    BY <2>1, <2>2
<1> QED
  BY <1>1, <1>3 DEF Owned

\* Every step of the processes, the key and the timer.
LEMMA NextIInv == ASSUME IInv, [Next]_vars PROVE IInv'
<1> USE DEF IInv
<1>1. CASE Press \/ LetGo \/ HandleKey \/ Expire \/ UNCHANGED vars
  <2>1. UNCHANGED <<pc, irq, result, owner>>
    BY <1>1 DEF Press, LetGo, HandleKey, Expire, user, vars
  <2> QED
    BY <2>1 DEF Typed, Owned, Holds, Samples
<1>2. ASSUME NEW u \in Users, RequestIrq(u)
      PROVE  IInv'
  BY <1>2, RequestKeeps
<1>3. ASSUME NEW u \in Users, FreeIrq(u)
      PROVE  IInv'
  BY <1>3, FreeKeeps
<1>4. ASSUME NEW u \in Users, Open(u)
      PROVE  IInv'
  <2>1. Typed' /\ UNCHANGED owner
    BY <1>4 DEF Open, Goto, Typed, Samples
  <2>2. \A v \in Users, i \in Irqs : Holds(v, i)' => Holds(v, i)
    BY <1>4 DEF Open, Goto, Typed, Irqs, Holds, Inside, Samples
  <2> QED
    BY <2>1, <2>2, NoClaim
<1>13. ASSUME NEW u \in Users, Sample(u)
      PROVE  IInv'
  <2>1. Typed' /\ UNCHANGED owner
    BY <1>13 DEF Sample, Goto, Typed, Samples
  <2>2. \A v \in Users, i \in Irqs : Holds(v, i)' => Holds(v, i)
    BY <1>13 DEF Sample, Goto, Typed, Irqs, Holds, Inside, Samples
  <2> QED
    BY <2>1, <2>2, NoClaim
<1>5. ASSUME NEW u \in Users, SetupTimer(u)
      PROVE  IInv'
  <2>1. Typed' /\ UNCHANGED owner
    BY <1>5 DEF SetupTimer, Goto, Typed
  <2>2. \A v \in Users, i \in Irqs : Holds(v, i)' => Holds(v, i)
    BY <1>5 DEF SetupTimer, Goto, Typed, Irqs, Holds, Inside, Samples
  <2> QED
    BY <2>1, <2>2, NoClaim
<1>6. ASSUME NEW u \in Users, Opened(u)
      PROVE  IInv'
  <2>1. Typed' /\ UNCHANGED owner
    BY <1>6 DEF Opened, Goto, Typed
  <2>2. \A v \in Users, i \in Irqs : Holds(v, i)' => Holds(v, i)
    BY <1>6 DEF Opened, Goto, Typed, Irqs, Holds, Inside, Samples
  <2> QED
    BY <2>1, <2>2, NoClaim
<1>7. ASSUME NEW u \in Users, Fetch(u)
      PROVE  IInv'
  <2>1. Typed' /\ UNCHANGED owner
    BY <1>7 DEF Fetch, Goto, Typed
  <2>2. \A v \in Users, i \in Irqs : Holds(v, i)' => Holds(v, i)
    BY <1>7 DEF Fetch, Goto, Typed, Irqs, Holds, Inside, Samples
  <2> QED
    BY <2>1, <2>2, NoClaim
<1>8. ASSUME NEW u \in Users, Clear(u)
      PROVE  IInv'
  <2>1. Typed' /\ UNCHANGED owner
    BY <1>8 DEF Clear, Goto, Typed
  <2>2. \A v \in Users, i \in Irqs : Holds(v, i)' => Holds(v, i)
    BY <1>8 DEF Clear, Goto, Typed, Irqs, Holds, Inside, Samples
  <2> QED
    BY <2>1, <2>2, NoClaim
<1>9. ASSUME NEW u \in Users, Copy(u)
      PROVE  IInv'
  <2>1. Typed' /\ UNCHANGED owner
    BY <1>9 DEF Copy, Goto, Typed
  <2>2. \A v \in Users, i \in Irqs : Holds(v, i)' => Holds(v, i)
    BY <1>9 DEF Copy, Goto, Typed, Irqs, Holds, Inside, Samples
  <2> QED
    BY <2>1, <2>2, NoClaim
<1>10. ASSUME NEW u \in Users, Close(u)
      PROVE  IInv'
  <2>1. Typed' /\ UNCHANGED owner
    BY <1>10 DEF Close, Goto, Typed
  <2>2. \A v \in Users, i \in Irqs : Holds(v, i)' => Holds(v, i)
    BY <1>10 DEF Close, Goto, Typed, Irqs, Holds, Inside, Samples
  <2> QED
    BY <2>1, <2>2, NoClaim
<1>11. ASSUME NEW u \in Users, StopTimer(u)
      PROVE  IInv'
  <2>1. Typed' /\ UNCHANGED owner
    BY <1>11 DEF StopTimer, Goto, Typed
  <2>2. \A v \in Users, i \in Irqs : Holds(v, i)' => Holds(v, i)
    BY <1>11 DEF StopTimer, Goto, Typed, Irqs, Holds, Inside, Samples
  <2> QED
    BY <2>1, <2>2, NoClaim
<1>12. ASSUME NEW u \in Users, Closed(u)
      PROVE  IInv'
  <2>1. Typed' /\ UNCHANGED owner
    BY <1>12 DEF Closed, Goto, Typed
  <2>2. \A v \in Users, i \in Irqs : Holds(v, i)' => Holds(v, i)
    BY <1>12 DEF Closed, Goto, Typed, Irqs, Holds, Inside, Samples
  <2> QED
    BY <2>1, <2>2, NoClaim
<1> QED
  BY <1>1, <1>2, <1>3, <1>4, <1>5, <1>6, <1>7, <1>8, <1>9,
     <1>10, <1>11, <1>12, <1>13 DEF Next, Use

\* The inductive invariant holds in every state of the driver.
THEOREM Inductive == Spec => []IInv
BY InitIInv, NextIInv, PTL DEF Spec

\* A process that has the rotary encoder open owns all its interrupts, for any
\* number of processes (rotary_encoder_vol/rotary_encoder.c:87-100).
THEOREM OwnerOpens == Spec => []OpenerOwnsIrqs
<1>1. IInv => OpenerOwnsIrqs
  BY DEF IInv, Owned, Holds, OpenerOwnsIrqs
<1> QED
  BY <1>1, Inductive, PTL

\* At most one process has the rotary encoder open, for any number of
\* processes: claiming the interrupts is the lock.
THEOREM OneProcessOpen == Spec => []OneOpener
<1>1. IInv => OneOpener
  BY DEF IInv, Owned, Holds, OneOpener, Irqs
<1> QED
  BY <1>1, Inductive, PTL

-----------------------------------------------------------------------------
(* The clicks of the key.                                                  *)

\* At first every variable has its type.
LEMMA InitTypeOK == Init => TypeOK
<1> SUFFICES ASSUME Init PROVE TypeOK
  OBVIOUS
<1>1. presses \in 0 .. MaxPresses /\ opens \in 0 .. MaxOpens
  BY BoundAssumption DEF Init
<1>2. down \in BOOLEAN /\ edge \in BOOLEAN
  BY Zenon DEF Init
<1> QED
  BY <1>1, <1>2 DEF Init, TypeOK

\* Every step respects the types.
LEMMA NextTypeOK == ASSUME TypeOK, [Next]_vars PROVE TypeOK'
<1> USE BoundAssumption DEF TypeOK
<1>1. CASE UNCHANGED vars
  BY <1>1 DEF vars
<1>2. CASE Press \/ LetGo \/ HandleKey
  <2>1. edge' \in BOOLEAN /\ down' \in BOOLEAN
    BY <1>2, Zenon DEF Press, LetGo, HandleKey
  <2>2. presses' \in 0 .. MaxPresses /\ timer' \in {"off", "armed"}
    BY <1>2 DEF Press, LetGo, HandleKey
  <2>3. UNCHANGED <<user, owner, click>>
    BY <1>2 DEF Press, LetGo, HandleKey
  <2> QED
    BY <2>1, <2>2, <2>3 DEF user, click
<1>3. CASE Expire
  <2>1. timer' \in {"off", "armed"} /\ event' \in {0, 1}
    BY <1>3 DEF Expire
  <2>2. clicks' \in Nat /\ lost' \in Nat
    BY <1>3 DEF Expire
  <2>3. UNCHANGED <<user, owner, key, fetched, delivered>>
    BY <1>3 DEF Expire
  <2> QED
    BY <2>1, <2>2, <2>3 DEF user, key
<1>4. ASSUME NEW u \in Users, Open(u) \/ Sample(u) \/ SetupTimer(u)
      PROVE TypeOK'
  <2>1. CASE Open(u)
    <3>1. opens' \in 0 .. MaxOpens
      BY <2>1 DEF Open
    <3>2. irq' \in [Users -> 1 .. 4] /\ result' \in [Users -> BOOLEAN]
      BY <2>1 DEF Open
    <3> QED
      BY <2>1, <3>1, <3>2 DEF Open, Goto, Samples, key, click
  <2>3. CASE Sample(u)
    BY <2>3 DEF Sample, Goto, Samples, key, click
  <2>2. CASE SetupTimer(u)
    BY <2>2 DEF SetupTimer, Goto, key, click
  <2> QED
    BY <1>4, <2>1, <2>2, <2>3
<1>5. ASSUME NEW u \in Users, RequestIrq(u) PROVE TypeOK'
  <2>1. irq' \in [Users -> 1 .. 4]
    BY <1>5 DEF RequestIrq, Irqs
  <2>2. result' \in [Users -> BOOLEAN]
    BY <1>5 DEF RequestIrq
  <2>3. owner' \in [Irqs -> Users \cup {Nobody}]
    BY <1>5 DEF RequestIrq
  <2>4. UNCHANGED <<pc, opens, timer, key, click>>
    BY <1>5 DEF RequestIrq
  <2> QED
    BY <2>1, <2>2, <2>3, <2>4 DEF key, click
<1>6. ASSUME NEW u \in Users, Opened(u) \/ Close(u) \/ StopTimer(u) \/ Closed(u)
      PROVE TypeOK'
  BY <1>6 DEF Opened, Close, StopTimer, Closed, Goto, key, click
<1>7. ASSUME NEW u \in Users, FreeIrq(u) PROVE TypeOK'
  <2>1. irq' \in [Users -> 1 .. 4]
    BY <1>7 DEF FreeIrq, Irqs
  <2>2. edge' \in BOOLEAN
    BY <1>7, Zenon DEF FreeIrq
  <2> QED
    BY <1>7, <2>1, <2>2 DEF FreeIrq, click
<1>8. ASSUME NEW u \in Users, Fetch(u) \/ Clear(u) \/ Copy(u) PROVE TypeOK'
  <2>1. CASE Fetch(u)
    BY <2>1 DEF Fetch, Goto, key
  <2>2. CASE Clear(u)
    BY <2>2 DEF Clear, Goto, key
  <2>3. CASE Copy(u)
    <3>1. fetched[u] \in Nat
      OBVIOUS
    <3> QED
      BY <2>3, <3>1 DEF Copy, Goto, key
  <2> QED
    BY <1>8, <2>1, <2>2, <2>3
<1> QED
  BY <1>1, <1>2, <1>3, <1>4, <1>5, <1>6, <1>7, <1>8 DEF Next, Use

\* Every variable of the key and the device file has its type, for any
\* processes and any bounds.
THEOREM TypeCorrect == Spec => []TypeOK
BY InitTypeOK, NextTypeOK, PTL DEF Spec

\* The reads that hold a click, and whether one waits in key_press_event.
Fetching == {u \in Users : fetched[u] = 1}
AtClear == {u \in Fetching : pc[u] = "clear"}
Waiting == event = 1 /\ AtClear = {}
Sum == delivered + lost + Cardinality(Fetching) + (IF Waiting THEN 1 ELSE 0)

\* A click is held by a read that is in progress, and stays in key_press_event
\* until that read clears it.
Counted ==
    /\ \A u \in Fetching : pc[u] \in {"clear", "copy"}
    /\ AtClear # {} => event = 1
    /\ clicks = Sum

CInv == IInv /\ TypeOK /\ Counted

\* The account in terms of the names of this module.
LEMMA AccountIsSum == ClicksAccounted <=> clicks = Sum
BY DEF ClicksAccounted, Sum, Waiting, AtClear, Fetching

\* Who reads is alone inside the device.
LEMMA ReaderAlone ==
    ASSUME CInv, NEW u \in Users, pc[u] \in Inside
    PROVE  Fetching \subseteq {u}
<1>1. OneOpener
  BY DEF CInv, IInv, Owned, Holds, OneOpener, Irqs
<1> QED
  BY <1>1 DEF CInv, Counted, Fetching, OneOpener, Inside

\* A step that no read and no click takes part in.
LEMMA AsideKeeps ==
    ASSUME Counted, UNCHANGED click, AtClear' = AtClear,
           \A u \in Fetching : pc'[u] = pc[u]
    PROVE  Counted'
<1>1. Fetching' = Fetching
  BY DEF Fetching, click
<1>2. Sum' = Sum
  BY <1>1 DEF Sum, Waiting, click
<1> QED
  BY <1>1, <1>2 DEF Counted, click

\* my_read: the click goes from key_press_event to the reader, and from there
\* to the user, or it is lost.
LEMMA ReadKeepsCount ==
    ASSUME CInv, NEW u \in Users, Fetch(u) \/ Clear(u) \/ Copy(u)
    PROVE  Counted'
<1> USE DEF CInv
<1>1. pc[u] \in Inside
  BY DEF Fetch, Clear, Copy, Inside
<1>2. Fetching \subseteq {u}
  BY <1>1, ReaderAlone
<1>3. Cardinality({}) = 0 /\ Cardinality({u}) = 1
  BY FS_EmptySet, FS_Singleton
<1>4. \A v \in Users \ {u} : pc'[v] = pc[v] /\ fetched'[v] = fetched[v]
  BY DEF Fetch, Clear, Copy, Goto, TypeOK
<1>5. Fetching' = IF fetched'[u] = 1 THEN {u} ELSE {}
  BY <1>2, <1>4 DEF Fetching
<1>6. Fetching = IF fetched[u] = 1 THEN {u} ELSE {}
  BY <1>2 DEF Fetching
<1>7. /\ AtClear' = IF fetched'[u] = 1 /\ pc'[u] = "clear" THEN {u} ELSE {}
      /\ AtClear = IF fetched[u] = 1 /\ pc[u] = "clear" THEN {u} ELSE {}
  BY <1>5, <1>6 DEF AtClear
<1>8. event \in {0, 1} /\ fetched[u] \in {0, 1}
      /\ clicks \in Nat /\ delivered \in Nat /\ lost \in Nat
  BY DEF TypeOK
<1>9. Cardinality(Fetching) = fetched[u]
  BY <1>3, <1>6, <1>8
<1>10. fetched'[u] \in {0, 1} => Cardinality(Fetching') = fetched'[u]
  BY <1>3, <1>5
<1>11. CASE Fetch(u)
  <2>1. pc[u] = "open" /\ pc'[u] = "clear" /\ fetched'[u] = event
        /\ UNCHANGED <<event, clicks, delivered, lost>>
    BY <1>11 DEF Fetch, Goto, TypeOK
  <2>2. fetched[u] = 0
    BY <2>1, <1>8, <1>6 DEF Counted
  <2>3. Cardinality(Fetching) = 0 /\ Cardinality(Fetching') = event
    BY <1>8, <1>9, <1>10, <2>1, <2>2
  <2>4. (Waiting <=> event = 1) /\ ~Waiting'
    BY <1>7, <1>8, <2>1, <2>2 DEF Waiting
  <2>5. Sum' = Sum
    BY <1>8, <2>1, <2>3, <2>4 DEF Sum
  <2>6. AtClear' # {} => event' = 1
    BY <1>7, <2>1
  <2> QED
    BY <1>5, <2>1, <2>5, <2>6 DEF Counted
<1>12. CASE Clear(u)
  <2>1. pc[u] = "clear" /\ pc'[u] = "copy" /\ fetched' = fetched /\ event' = 0
        /\ UNCHANGED <<clicks, delivered>>
        /\ lost' = IF event = 1 /\ fetched[u] = 0 THEN lost + 1 ELSE lost
    BY <1>12 DEF Clear, Goto, TypeOK
  <2>2. Fetching' = Fetching /\ AtClear' = {} /\ ~Waiting'
    BY <1>5, <1>6, <1>7, <2>1 DEF Waiting
  <2>3. Waiting <=> event = 1 /\ fetched[u] = 0
    BY <1>7, <1>8, <2>1 DEF Waiting
  <2>4. Cardinality(Fetching) \in Nat
    BY <1>3, <1>6
  <2>5. Sum' = Sum
    BY <1>8, <2>1, <2>2, <2>3, <2>4 DEF Sum
  <2> QED
    BY <1>5, <2>1, <2>2, <2>5 DEF Counted
<1>13. CASE Copy(u)
  <2>1. pc[u] = "copy" /\ pc'[u] = "open" /\ fetched'[u] = 0
        /\ UNCHANGED <<clicks, event>>
        /\ \/ delivered' = delivered + fetched[u] /\ lost' = lost
           \/ lost' = lost + fetched[u] /\ delivered' = delivered
    BY <1>13 DEF Copy, Goto, TypeOK
  <2>2. Fetching' = {} /\ AtClear = {} /\ AtClear' = {}
    BY <1>5, <1>7, <2>1
  <2>3. Waiting' <=> Waiting
    BY <2>1, <2>2 DEF Waiting
  <2>4. Cardinality(Fetching) = fetched[u] /\ Cardinality(Fetching') = 0
    BY <1>9, <1>10, <2>1
  <2>5. delivered' + lost' = delivered + lost + fetched[u]
    BY <1>8, <2>1
  <2>6. delivered' \in Nat /\ lost' \in Nat
    BY <1>8, <2>1
  <2>7. Sum' = Sum
    BY <1>8, <2>3, <2>4, <2>5, <2>6 DEF Sum
  <2> QED
    BY <2>1, <2>2, <2>7 DEF Counted
<1> QED
  BY <1>11, <1>12, <1>13

\* Every step keeps the account.
LEMMA NextCounted == ASSUME CInv, [Next]_vars PROVE CInv'
<1> USE DEF CInv
<1>1. IInv' /\ TypeOK'
  BY NextIInv, NextTypeOK
<1>2. CASE Press \/ LetGo \/ HandleKey \/ UNCHANGED vars
  <2>1. UNCHANGED click /\ pc' = pc
    BY <1>2 DEF Press, LetGo, HandleKey, user, vars, click
  <2>2. AtClear' = AtClear
    BY <2>1 DEF AtClear, Fetching, click
  <2> QED
    BY <1>1, <2>1, <2>2, AsideKeeps
<1>3. CASE Expire
  <2>1. Fetching' = Fetching /\ AtClear' = AtClear /\ pc' = pc
    BY <1>3 DEF Expire, Fetching, AtClear, user
  <2>2. \/ event' = 1 /\ clicks' = clicks + 1 /\ lost' = lost + event
        \/ UNCHANGED <<event, clicks, lost>>
    BY <1>3 DEF Expire
  <2>3. delivered' = delivered
    BY <1>3 DEF Expire
  <2>4. event \in {0, 1} /\ clicks \in Nat /\ delivered \in Nat /\ lost \in Nat
    BY DEF TypeOK
  <2>5. Cardinality(Fetching) \in Nat
    <3>1. IsFiniteSet(Fetching)
      BY UsersAssumption, FS_Subset DEF Fetching
    <3> QED
      BY <3>1, FS_CardinalityType
  <2>6. Counted'
    BY <2>1, <2>2, <2>3, <2>4, <2>5 DEF Counted, Sum, Waiting
  <2> QED
    BY <1>1, <2>6
<1>4. ASSUME NEW u \in Users, Fetch(u) \/ Clear(u) \/ Copy(u) PROVE CInv'
  BY <1>1, <1>4, ReadKeepsCount
<1>5. ASSUME NEW u \in Users,
             \/ Open(u) \/ Sample(u) \/ SetupTimer(u) \/ RequestIrq(u) \/ Opened(u)
             \/ Close(u) \/ StopTimer(u) \/ FreeIrq(u) \/ Closed(u)
      PROVE CInv'
  <2>1. UNCHANGED click
    BY <1>5 DEF Open, Sample, SetupTimer, RequestIrq, Opened, Close, StopTimer,
                FreeIrq, Closed
  <2>2. /\ pc[u] \notin {"clear", "copy"} /\ pc'[u] # "clear"
        /\ \A v \in Users \ {u} : pc'[v] = pc[v]
    BY <1>5 DEF Open, Sample, SetupTimer, RequestIrq, Opened, Close, StopTimer,
                FreeIrq, Closed, Goto, TypeOK, Samples
  <2>3. u \notin Fetching
    BY <2>2 DEF Counted
  <2>4. AtClear' = AtClear /\ \A v \in Fetching : pc'[v] = pc[v]
    BY <2>1, <2>2, <2>3 DEF AtClear, Fetching, click
  <2> QED
    BY <1>1, <2>1, <2>4, AsideKeeps
<1> QED
  BY <1>2, <1>3, <1>4, <1>5 DEF Next, Use

\* Every click of the key is reported to at most one read(), and what becomes
\* of the others is known, for any number of processes
\* (rotary_encoder_vol/rotary_encoder.c, my_read and debounce_timer_callback).
THEOREM EveryClickAccounted == Spec => []ClicksAccounted
<1>1. Init => CInv
  <2>1. Init => Counted
    <3>1. Init => Fetching = {} /\ AtClear = {}
      BY DEF Init, Fetching, AtClear
    <3> QED
      BY <3>1, FS_EmptySet DEF Init, Counted, Sum, Waiting
  <2> QED
    BY <2>1, InitTypeOK, InitIInv DEF CInv
<1>2. CInv => ClicksAccounted
  BY AccountIsSum DEF CInv, Counted
<1> QED
  BY <1>1, <1>2, NextCounted, PTL DEF Spec
=============================================================================
