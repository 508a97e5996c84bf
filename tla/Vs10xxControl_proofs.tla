------------------------- MODULE Vs10xxControl_proofs -------------------------
(***************************************************************************)
(* The control path for any callers and any arguments: what holds while    *)
(* the calls come one at a time, and that they then implement the register *)
(* of VolumeRegister.                                                      *)
(***************************************************************************)
EXTENDS Vs10xxControl, SequenceTheorems, TLAPS

Busy(c) == pc[c] # "idle"

\* Who is in a call has an access to do; the bus is with the one that has
\* submitted its message.
Placed ==
    /\ \A c \in Callers : Busy(c) => todo[c] # <<>>
    /\ \A c \in Callers : pc[c] = "transfer" => sender = c
    /\ sender # Nobody => pc[sender] = "transfer"

\* What is left to do of a call that asks for the volume v, as long as the
\* volume has not been set, and afterwards.
Work(v) == {<<v>>, <<v, Other>>, <<Other, v, Other>>, <<Other, Other, v, Other>>}
Rest == <<Other>>

\* Nobody is in the way of a caller that is alone, whose message is what it
\* has built and whose accesses are those of its call.
Alone ==
    /\ ~damaged
    /\ \A c, d \in Callers : Busy(c) /\ Busy(d) => c = d
    /\ \A c \in Callers :
        /\ Busy(c) => todo[c] \in Work(asked) \cup {Rest}
        /\ pc[c] = "build" => msg = "empty"
        /\ pc[c] \in {"submit", "transfer"} => msg = "built" /\ tx = Head(todo[c])

\* The access that sets the volume is done.
VolumeSet(c) == todo[c] = Rest \/ (pc[c] = "settle" /\ Head(todo[c]) # Other)

Exact ==
    /\ Idle => volume = asked
    /\ \A c \in Callers : Busy(c) /\ VolumeSet(c) => volume = asked

IInv ==
    /\ TypeOK
    /\ Placed
    /\ ~overlapped => Alone
    /\ ~overlapped /\ ~faulty => Exact

-----------------------------------------------------------------------------
\* A pair of levels is not the empty command.
LEMMA LevelsAreSomething == \A v \in Values : v # Other
BY DEF Values, Byte, Other

\* The ioctl's argument always yields two levels.
LEMMA VolumeIsLevels == \A arg \in Nat : Volume(arg) \in Values
BY DEF Volume, Values, Byte

\* A call's accesses are a sequence of commands that is not empty.
LEMMA WorkIsCommands ==
    ASSUME NEW v \in Values, NEW s \in Work(v) \cup {Rest}
    PROVE  s \in Seq(Commands) /\ s # <<>> /\ Head(s) \in {v, Other}
<1>1. ASSUME NEW w \in Commands, NEW o \in Commands,
             s \in {<<w>>, <<w, o>>, <<o, w, o>>, <<o, o, w, o>>, <<o>>}
      PROVE  s \in Seq(Commands) /\ s # <<>> /\ Head(s) \in {w, o}
  <2>1. CASE s = <<w>>
    BY <1>1, <2>1
  <2>2. CASE s = <<w, o>>
    BY <1>1, <2>2
  <2>3. CASE s = <<o, w, o>>
    BY <1>1, <2>3
  <2>4. CASE s = <<o, o, w, o>>
    BY <1>1, <2>4
  <2>5. CASE s = <<o>>
    BY <1>1, <2>5
  <2> QED
    BY <1>1, <2>1, <2>2, <2>3, <2>4, <2>5
<1>2. v \in Commands /\ Other \in Commands
  BY DEF Commands
<1>3. s \in {<<v>>, <<v, Other>>, <<Other, v, Other>>,
              <<Other, Other, v, Other>>, <<Other>>}
  BY DEF Work, Rest
<1> QED
  BY <1>1, <1>2, <1>3

\* Nothing has happened yet.
LEMMA InitIInv == Init => IInv
<1> SUFFICES ASSUME Init PROVE IInv
  OBVIOUS
<1>1. TypeOK
  <2>1. Loudest \in Values /\ Other \in Commands /\ <<>> \in Seq(Commands)
    BY DEF Values, Byte, Loudest, Commands
  <2> QED
    BY <2>1 DEF Init, TypeOK
<1> QED
  BY <1>1 DEF Init, IInv, Placed, Alone, Exact, Busy, Idle

\* A step that a call starts with.
LEMMA CallKeeps ==
    ASSUME IInv, NEW c \in Callers, NEW s, NEW v \in Values,
           Call(c, s), s \in Work(v), asked' = v,
           volume' \in Values, dreq' \in BOOLEAN, probed' \in BOOLEAN
    PROVE  IInv'
<1> USE DEF IInv
<1>1. s \in Seq(Commands) /\ s # <<>>
  BY WorkIsCommands
<1>2. /\ pc[c] = "idle"
      /\ pc' = [pc EXCEPT ![c] = "ready"] /\ todo' = [todo EXCEPT ![c] = s]
      /\ overlapped' = (overlapped \/ ~Idle)
      /\ UNCHANGED <<msg, tx, sender, damaged, faulty>>
  BY DEF Call, Goto
<1>3. TypeOK'
  <2>1. overlapped' \in BOOLEAN
    BY <1>2, Zenon DEF TypeOK
  <2> QED
    BY <1>1, <1>2, <2>1 DEF TypeOK
<1>4. Placed'
  <2>1. pc'[c] = "ready" /\ todo'[c] = s
    BY <1>2 DEF TypeOK
  <2>2. \A d \in Callers \ {c} : pc'[d] = pc[d] /\ todo'[d] = todo[d]
    BY <1>2 DEF TypeOK
  <2> QED
    BY <1>1, <1>2, <2>1, <2>2, CallersAssumption DEF Placed, Busy, TypeOK
<1>5. ASSUME ~overlapped' PROVE Alone' /\ Exact'
  <2>1. ~overlapped /\ \A d \in Callers : pc[d] = "idle"
    BY <1>2, <1>5 DEF Idle
  <2>2. pc'[c] = "ready" /\ todo'[c] = s
    BY <1>2 DEF TypeOK
  <2>3. \A d \in Callers \ {c} : pc'[d] = "idle"
    BY <1>2, <2>1 DEF TypeOK
  <2>4. Alone'
    BY <1>2, <2>1, <2>2, <2>3 DEF Alone, Busy
  <2>5. s # Rest
    BY LevelsAreSomething DEF Work, Rest
  <2>6. Exact'
    BY <2>2, <2>3, <2>5 DEF Exact, Busy, VolumeSet, Idle
  <2> QED
    BY <2>4, <2>6
<1> QED
  BY <1>3, <1>4, <1>5

\* The ioctl and the start of the chip.
LEMMA BeginKeeps == ASSUME IInv, NEW c \in Callers, Begin(c) PROVE IInv'
<1>1. CASE DeviceInit(c)
  <2>1. Quietest \in Values /\ Loudest \in Values
    BY DEF Quietest, Loudest, Values, Byte
  <2>2. StartUp \in Work(Quietest)
    BY DEF StartUp, Work
  <2> QED
    BY <1>1, <2>1, <2>2, CallKeeps DEF DeviceInit
<1>2. CASE c # Probe /\ \E arg \in Args[c] : Ioctl(c, arg)
  <2>1. PICK arg \in Args[c] : Ioctl(c, arg)
    BY <1>2
  <2>2. arg \in Nat
    BY <1>2, <2>1, ArgsAssumption
  <2>3. Volume(arg) \in Values /\ <<Volume(arg)>> \in Work(Volume(arg))
    BY <2>2, VolumeIsLevels DEF Work
  <2>4. volume \in Values /\ dreq \in BOOLEAN /\ probed \in BOOLEAN
    BY DEF IInv, TypeOK
  <2> QED
    BY <2>1, <2>3, <2>4, CallKeeps DEF Ioctl
<1> QED
  BY <1>1, <1>2 DEF Begin

-----------------------------------------------------------------------------
\* A step of a caller from one place of its access to the next.
LEMMA MoveKeeps ==
    ASSUME IInv, NEW c \in Callers, NEW place, Goto(c, place), Busy(c),
           place \in {"clear", "renew", "build", "submit"}, pc[c] # "transfer",
           msg' \in {"torn", "empty", "built"}, tx' \in Commands,
           damaged' \in BOOLEAN,
           UNCHANGED <<todo, sender, dreq, volume, history>>,
           pc[c] # "settle",
           ~overlapped => ~damaged',
           ~overlapped /\ place = "build" => msg' = "empty",
           ~overlapped /\ place = "submit" => msg' = "built" /\ tx' = Head(todo[c])
    PROVE  IInv'
<1> USE DEF IInv
<1>1. pc' = [pc EXCEPT ![c] = place]
  BY DEF Goto
<1>2. pc'[c] = place /\ \A d \in Callers \ {c} : pc'[d] = pc[d]
  BY <1>1 DEF TypeOK
<1>3. TypeOK'
  BY <1>1 DEF TypeOK, history
<1>4. Placed'
  BY <1>2, CallersAssumption DEF Placed, Busy, TypeOK, history
<1>5. ASSUME ~overlapped PROVE Alone'
  <2>1. \A d \in Callers \ {c} : pc[d] = "idle"
    BY <1>5 DEF Alone, Busy
  <2> QED
    BY <1>2, <1>5, <2>1 DEF Alone, Busy, history
<1>6. ASSUME ~overlapped, ~faulty PROVE Exact'
  BY <1>2, <1>6 DEF Exact, Busy, VolumeSet, Idle, history
<1> QED
  BY <1>3, <1>4, <1>5, <1>6 DEF history

\* The wait for DREQ and the building of the message.
LEMMA BuildKeeps ==
    ASSUME IInv, NEW c \in Callers, ~damaged,
           Ready(c) \/ Clear(c) \/ Renew(c) \/ Build(c)
    PROVE  IInv'
<1> USE DEF IInv
<1>1. ~overlapped /\ Busy(c) => sender = Nobody \/ sender = c
  BY DEF Alone, Placed, Busy, TypeOK
<1>2. CASE Ready(c)
  <2>1. Goto(c, "clear") /\ pc[c] = "ready"
    BY <1>2 DEF Ready
  <2> QED
    BY <1>2, <2>1, MoveKeeps DEF Ready, TypeOK, Busy, history
<1>3. CASE Clear(c)
  <2>1. Goto(c, "renew") /\ pc[c] = "clear" /\ sender # c
    BY <1>3, CallersAssumption DEF Clear, Placed
  <2> QED
    BY <1>1, <1>3, <2>1, MoveKeeps DEF Clear, TypeOK, Busy, history
<1>4. CASE Renew(c)
  <2>1. Goto(c, "build") /\ pc[c] = "renew" /\ sender # c
    BY <1>4, CallersAssumption DEF Renew, Placed
  <2> QED
    BY <1>1, <1>4, <2>1, MoveKeeps DEF Renew, TypeOK, Busy, history
<1>5. CASE Build(c)
  <2>1. Goto(c, "submit") /\ pc[c] = "build" /\ sender # c
    BY <1>5, CallersAssumption DEF Build, Placed
  <2>2. Head(todo[c]) \in Commands
    BY <2>1 DEF Placed, Busy, TypeOK
  <2>3. ~overlapped => msg = "empty"
    BY <2>1 DEF Alone
  <2> QED
    BY <1>1, <1>5, <2>1, <2>2, <2>3, MoveKeeps DEF Build, TypeOK, Busy, history
<1> QED
  BY <1>2, <1>3, <1>4, <1>5

\* spi_sync: what goes out is what was built.
LEMMA SendKeeps ==
    ASSUME IInv, NEW c \in Callers, ~damaged, Submit(c) \/ Transfer(c)
    PROVE  IInv'
<1> USE DEF IInv
<1>1. CASE Submit(c)
  <2>1. PICK place \in {"settle", "transfer"} :
          /\ pc' = [pc EXCEPT ![c] = place]
          /\ place = "settle" => msg = "empty" /\ UNCHANGED <<sender, damaged>>
          /\ place = "transfer" => sender' = c /\ damaged' = (msg = "torn")
    BY <1>1 DEF Submit, Goto
  <2>2. pc[c] = "submit" /\ sender = Nobody
    BY <1>1 DEF Submit
  <2>3. pc'[c] = place /\ \A d \in Callers \ {c} : pc'[d] = pc[d]
    BY <2>1 DEF TypeOK
  <2>4. TypeOK'
    BY <1>1, <2>1 DEF Submit, TypeOK, history
  <2>5. Placed'
    BY <1>1, <2>1, <2>2, <2>3, CallersAssumption DEF Submit, Placed, Busy, TypeOK
  <2>6. ASSUME ~overlapped PROVE Alone' /\ place = "transfer"
    <3>1. \A d \in Callers \ {c} : pc[d] = "idle"
      BY <2>2, <2>6 DEF Alone, Busy
    <3>2. msg = "built" /\ tx = Head(todo[c])
      BY <2>2, <2>6 DEF Alone
    <3> QED
      BY <1>1, <2>1, <2>2, <2>3, <2>6, <3>1, <3>2 DEF Submit, Alone, Busy, history
  <2>7. ASSUME ~overlapped, ~faulty PROVE Exact'
    BY <1>1, <2>2, <2>3, <2>6, <2>7 DEF Submit, Exact, Busy, VolumeSet, Idle, history
  <2> QED
    BY <1>1, <2>4, <2>5, <2>6, <2>7 DEF Submit, history
<1>2. CASE Transfer(c)
  <2>1. /\ pc[c] = "transfer" /\ pc' = [pc EXCEPT ![c] = "settle"]
        /\ sender' = Nobody
        /\ UNCHANGED <<todo, msg, tx, damaged, probed, asked, overlapped>>
    BY <1>2 DEF Transfer, Goto
  <2>2. pc'[c] = "settle" /\ \A d \in Callers \ {c} : pc'[d] = pc[d]
    BY <2>1 DEF TypeOK
  <2>3. volume' \in Values /\ dreq' \in BOOLEAN /\ faulty' \in BOOLEAN
    BY <1>2 DEF Transfer, TypeOK, Commands
  <2>4. TypeOK'
    BY <2>1, <2>3 DEF TypeOK
  <2>5. Placed'
    BY <2>1, <2>2, CallersAssumption DEF Placed, Busy, TypeOK
  <2>6. ASSUME ~overlapped PROVE Alone'
    <3>1. \A d \in Callers \ {c} : pc[d] = "idle"
      BY <2>1, <2>6 DEF Alone, Busy
    <3> QED
      BY <2>1, <2>2, <2>6, <3>1 DEF Alone, Busy
  <2>7. ASSUME ~overlapped, ~faulty' PROVE Exact'
    <3>1. \A d \in Callers \ {c} : pc'[d] = "idle"
      BY <2>1, <2>2, <2>7 DEF Alone, Busy
    <3>2. ~faulty /\ volume' = IF tx = Other THEN volume ELSE tx
      BY <1>2, <2>7 DEF Transfer
    <3>3. tx = Head(todo[c]) /\ todo[c] \in Work(asked) \cup {Rest}
      BY <2>1, <2>7 DEF Alone, Busy
    <3>4. tx \in {asked, Other} /\ asked \in Values
      BY <3>3, WorkIsCommands DEF TypeOK
    <3>5. ASSUME VolumeSet(c)' PROVE volume' = asked
      <4>1. CASE tx = Other
        <5>1. todo[c] = Rest
          BY <2>1, <3>3, <3>5, <4>1 DEF VolumeSet
        <5> QED
          BY <2>1, <2>7, <3>2, <4>1, <5>1 DEF Exact, VolumeSet, Busy
      <4>2. CASE tx # Other
        BY <3>2, <3>4, <4>2
      <4> QED
        BY <4>1, <4>2
    <3> QED
      BY <2>1, <2>2, <3>1, <3>5 DEF Exact, Busy, Idle
  <2> QED
    BY <2>1, <2>3, <2>4, <2>5, <2>6, <2>7, <1>2 DEF Transfer, TypeOK
<1> QED
  BY <1>1, <1>2

-----------------------------------------------------------------------------
\* What is left of a call's accesses after the first of them.
LEMMA WorkGoesOn ==
    ASSUME NEW v \in Values, NEW s \in Work(v) \cup {Rest}, Len(s) > 1
    PROVE  /\ Tail(s) \in Work(v) \cup {Rest}
           /\ Tail(s) = Rest => Head(s) = v
<1>1. \A x : Len(<<x>>) = 1
  OBVIOUS
<1>2. ~(1 > 1)
  OBVIOUS
<1>3. s # <<v>> /\ s # <<Other>>
  BY <1>1, <1>2, Zenon
<1>4. s \in {<<v, Other>>, <<Other, v, Other>>, <<Other, Other, v, Other>>}
  BY <1>3, Zenon DEF Work, Rest
<1>5. CASE s = <<v, Other>>
  <2>1. Tail(s) = <<Other>> /\ Head(s) = v
    BY <1>5
  <2> QED
    BY <2>1, Zenon DEF Work, Rest
<1>6. CASE s = <<Other, v, Other>>
  <2>1. Tail(s) = <<v, Other>> /\ <<v, Other>> # <<Other>>
    BY <1>6
  <2> QED
    BY <2>1, Zenon DEF Work, Rest
<1>7. CASE s = <<Other, Other, v, Other>>
  <2>1. Tail(s) = <<Other, v, Other>> /\ <<Other, v, Other>> # <<Other>>
    BY <1>7
  <2> QED
    BY <2>1, Zenon DEF Work, Rest
<1> QED
  BY <1>4, <1>5, <1>6, <1>7, Zenon

\* The last access of a call is the one that sets the volume, or a later one.
LEMMA WorkEnds ==
    ASSUME NEW v \in Values, NEW s \in Work(v) \cup {Rest}, ~(Len(s) > 1)
    PROVE  s = Rest \/ (Head(s) = v /\ v # Other)
<1>1. s \in {<<v>>, <<Other>>}
  BY DEF Work, Rest
<1> QED
  BY <1>1, LevelsAreSomething DEF Rest

\* After the first of several accesses some are left.
LEMMA SomethingLeft ==
    ASSUME NEW S, NEW s \in Seq(S), s # <<>>
    PROVE  /\ Tail(s) \in Seq(S)
           /\ Len(s) > 1 => Tail(s) # <<>>
<1>1. Tail(s) \in Seq(S) /\ Len(Tail(s)) = Len(s) - 1
  BY HeadTailProperties
<1>2. Len(<<>>) = 0
  OBVIOUS
<1>3. \A n \in Nat : n > 1 => n - 1 # 0
  OBVIOUS
<1>4. Len(s) \in Nat
  BY LenProperties
<1> QED
  BY <1>1, <1>2, <1>3, <1>4, Zenon

\* An access ends in two ways: DREQ is high again, or the polls are over.
LEMMA FinishKeeps ==
    ASSUME IInv, NEW c \in Callers, ~damaged, Settle(c) \/ TimeOut(c)
    PROVE  IInv'
<1> USE DEF IInv
<1> DEFINE next == IF Len(todo[c]) > 1 THEN "ready" ELSE "idle"
<1>1. /\ pc[c] \in {"ready", "settle"}
      /\ pc' = [pc EXCEPT ![c] = next]
      /\ todo' = [todo EXCEPT ![c] = Tail(@)]
      /\ UNCHANGED <<msg, tx, sender, dreq, volume, damaged, probed, asked,
                     overlapped>>
  BY DEF Settle, TimeOut, Finish, Goto, history
<1>2. faulty' \in BOOLEAN /\ (~faulty' => ~faulty /\ pc[c] = "settle")
  BY DEF Settle, TimeOut, TypeOK, history
<1>3. todo[c] \in Seq(Commands) /\ todo[c] # <<>>
  BY <1>1 DEF Placed, Busy, TypeOK
<1>4. /\ Tail(todo[c]) \in Seq(Commands)
      /\ Len(todo[c]) > 1 => Tail(todo[c]) # <<>>
  BY <1>3, SomethingLeft, Zenon
<1>5. /\ pc'[c] = next /\ todo'[c] = Tail(todo[c])
      /\ \A d \in Callers \ {c} : pc'[d] = pc[d] /\ todo'[d] = todo[d]
  BY <1>1 DEF TypeOK
<1>6. TypeOK'
  BY <1>1, <1>2, <1>4 DEF TypeOK
<1>7. Placed'
  <2>1. sender # c
    BY <1>1, CallersAssumption DEF Placed
  <2> QED
    BY <1>1, <1>4, <1>5, <2>1 DEF Placed, Busy, TypeOK
<1>8. ASSUME ~overlapped
      PROVE  /\ todo[c] \in Work(asked) \cup {Rest} /\ asked \in Values
             /\ \A d \in Callers \ {c} : pc'[d] = "idle"
  BY <1>1, <1>5, <1>8 DEF Alone, Busy, TypeOK
<1>9. ASSUME ~overlapped PROVE Alone'
  <2>1. next = "ready" => Tail(todo[c]) \in Work(asked) \cup {Rest}
    BY <1>8, <1>9, WorkGoesOn
  <2>2. \A d \in Callers : Busy(d)' => d = c /\ next = "ready"
    BY <1>5, <1>8, <1>9 DEF Busy
  <2>3. \A d \in Callers : pc'[d] \in {"idle", "ready"}
    BY <1>5, <1>8, <1>9
  <2> QED
    BY <1>1, <1>5, <2>1, <2>2, <2>3 DEF Alone
<1>10. ASSUME ~overlapped, ~faulty' PROVE Exact'
  <2>1. pc[c] = "settle" /\ Exact
    BY <1>2, <1>10
  <2>2. CASE Len(todo[c]) > 1
    <3>1. Tail(todo[c]) = Rest => Head(todo[c]) = asked
      BY <1>8, <1>10, <2>2, WorkGoesOn
    <3>2. Head(todo[c]) = asked => volume = asked
      BY <2>1, <1>8, <1>10, LevelsAreSomething DEF Exact, VolumeSet, Busy
    <3>3. pc'[c] = "ready" /\ todo'[c] = Tail(todo[c])
      BY <1>5, <2>2
    <3>4. \A d \in Callers : Busy(d)' => d = c
      BY <1>8, <1>10 DEF Busy
    <3>5. VolumeSet(c)' => volume = asked
      BY <3>1, <3>2, <3>3 DEF VolumeSet
    <3>6. ~Idle'
      BY <3>3 DEF Idle
    <3> QED
      BY <1>1, <3>4, <3>5, <3>6 DEF Exact
  <2>3. CASE ~(Len(todo[c]) > 1)
    <3>1. VolumeSet(c)
      BY <1>8, <1>10, <2>1, <2>3, WorkEnds DEF VolumeSet
    <3>2. volume = asked
      BY <2>1, <3>1 DEF Exact, Busy
    <3> QED
      BY <1>1, <3>2 DEF Exact
  <2> QED
    BY <2>2, <2>3
<1> QED
  BY <1>1, <1>2, <1>6, <1>7, <1>9, <1>10

\* Every step of the callers and of the chip.
LEMMA NextIInv == ASSUME IInv, [Next]_vars PROVE IInv'
<1>1. ASSUME NEW c \in Callers, Start(c) PROVE IInv'
  BY <1>1, BeginKeeps DEF Start
<1>2. ASSUME NEW c \in Callers, Step(c) PROVE IInv'
  BY <1>2, BuildKeeps, SendKeeps, FinishKeeps DEF Step, Access
<1>3. CASE Environment
  BY <1>3 DEF Environment, DataRequest, IInv, TypeOK, Placed, Alone, Exact,
              Busy, VolumeSet, Idle, history
<1>4. CASE UNCHANGED vars
  BY <1>4 DEF vars, IInv, TypeOK, Placed, Alone, Exact, Busy, VolumeSet, Idle
<1> QED
  BY <1>1, <1>2, <1>3, <1>4 DEF Next

\* The invariant of every behaviour.
THEOREM Invariance == Spec => []IInv
BY InitIInv, NextIInv, PTL DEF Spec

\* For any callers and arguments: when calls have come one at a time and
\* nothing has failed, the chip is at the volume the last one asked for
\* (vs10xx_ioctl).
THEOREM SerialCallsExact == Spec => []SerialExact
<1>1. IInv => SerialExact
  BY DEF IInv, Exact, SerialExact
<1> QED
  BY <1>1, Invariance, PTL

\* For any callers: only two of them at once can change a message that is
\* being sent (vs10xx_io_ctrl_xf).
THEOREM DamageTakesTwo == Spec => []DamageNeedsTwo
<1>1. IInv => DamageNeedsTwo
  BY DEF IInv, Alone, DamageNeedsTwo
<1> QED
  BY <1>1, Invariance, PTL

-----------------------------------------------------------------------------
(* The calls implement the register: what it sees of a state.              *)
InCall == {c \in Callers : pc[c] # "idle"}
Trust == IF overlapped THEN "shared" ELSE IF faulty THEN "failed" ELSE "exact"
Seen == <<volume, InCall, asked, Trust>>
Stutter == UNCHANGED Seen

\* A call starts: the register is asked for a volume.
LEMMA StartAsks ==
    ASSUME IInv, NEW c \in Callers, Start(c)
    PROVE  Register!Ask(c, asked')
<1>1. /\ pc[c] = "idle" /\ pc' = [pc EXCEPT ![c] = "ready"]
      /\ overlapped' = (overlapped \/ ~Idle) /\ faulty' = faulty
      /\ volume' \in {volume, Loudest}
  BY DEF Start, Begin, DeviceInit, Ioctl, Call, Goto
<1>2. c \notin InCall /\ InCall' = InCall \cup {c}
  BY <1>1 DEF InCall, IInv, TypeOK
<1>3. Trust' = IF InCall = {} THEN Trust ELSE "shared"
  <2>1. Idle <=> InCall = {}
    BY DEF Idle, InCall
  <2>2. CASE Idle
    <3>1. overlapped' = overlapped
      BY <1>1, <2>2, Zenon DEF IInv, TypeOK
    <3> QED
      BY <1>1, <2>1, <2>2, <3>1 DEF Trust
  <2>3. CASE ~Idle
    BY <1>1, <2>1, <2>3 DEF Trust
  <2> QED
    BY <2>2, <2>3
<1> QED
  BY <1>1, <1>2, <1>3 DEF Register!Ask, InCall, Trust

\* Until its message is on the bus, a call shows nothing.
LEMMA PreparationHidden ==
    ASSUME IInv, NEW c \in Callers,
           Ready(c) \/ Clear(c) \/ Renew(c) \/ Build(c) \/ Submit(c)
    PROVE  Stutter
<1>1. /\ pc[c] # "idle"
      /\ \E place \in {"clear", "renew", "build", "submit", "transfer", "settle"} :
            pc' = [pc EXCEPT ![c] = place]
      /\ UNCHANGED <<volume, asked, overlapped, faulty>>
  BY DEF Ready, Clear, Renew, Build, Submit, Goto, history
<1>2. InCall' = InCall
  BY <1>1 DEF InCall, IInv, TypeOK
<1> QED
  BY <1>1, <1>2 DEF Stutter, Seen, Trust

\* The transfer sets the register, to the volume the call asks for when it is
\* alone; or it fails.
LEMMA TransferSets ==
    ASSUME IInv, NEW c \in Callers, Transfer(c)
    PROVE  Register!Set \/ Register!Fail \/ Stutter
<1>1. /\ pc[c] = "transfer" /\ pc' = [pc EXCEPT ![c] = "settle"]
      /\ UNCHANGED <<tx, asked, overlapped>>
  BY DEF Transfer, Goto
<1>2. InCall' = InCall /\ InCall # {}
  BY <1>1 DEF InCall, IInv, TypeOK
<1>3. CASE faulty' = faulty /\ volume' = (IF tx = Other THEN volume ELSE tx)
  <2>1. Trust' = Trust
    BY <1>1, <1>3 DEF Trust
  <2>2. CASE tx = Other
    BY <1>1, <1>2, <1>3, <2>1, <2>2 DEF Stutter, Seen
  <2>3. CASE tx # Other
    <3>1. volume' = tx /\ tx \in Values
      BY <1>3, <2>3 DEF IInv, TypeOK, Commands
    <3>2. ~overlapped => tx = asked
      <4>1. ASSUME ~overlapped
            PROVE  /\ todo[c] \in Work(asked) \cup {Rest} /\ asked \in Values
                   /\ tx = Head(todo[c])
        BY <1>1, <4>1 DEF IInv, Alone, Busy, TypeOK
      <4> QED
        BY <4>1, <2>3, WorkIsCommands, Zenon
    <3>3. volume' \in IF Trust = "shared" THEN Values ELSE {asked}
      BY <3>1, <3>2 DEF Trust
    <3>4. Register!Set
      BY <1>1, <1>2, <2>1, <3>3 DEF Register!Set, InCall, Trust
    <3> QED
      BY <3>4
  <2> QED
    BY <2>2, <2>3
<1>4. CASE faulty' = TRUE /\ volume' = volume
  <2>1. CASE Trust = "exact"
    BY <1>1, <1>2, <1>4, <2>1 DEF Register!Fail, InCall, Trust
  <2>2. CASE Trust # "exact"
    BY <1>1, <1>2, <1>4, <2>2 DEF Stutter, Seen, Trust
  <2> QED
    BY <2>1, <2>2
<1> QED
  BY <1>3, <1>4 DEF Transfer

\* With its last access a call returns: the register is what it asked for, or
\* nothing is promised any more.
LEMMA FinishReturns ==
    ASSUME IInv, NEW c \in Callers, Settle(c) \/ TimeOut(c)
    PROVE  Register!Return(c) \/ Register!Fail \/ Stutter
<1>1. /\ pc[c] # "idle" /\ UNCHANGED <<volume, asked, overlapped>>
      /\ pc' = [pc EXCEPT ![c] = IF Len(todo[c]) > 1 THEN "ready" ELSE "idle"]
  BY DEF Settle, TimeOut, Finish, Goto, history
<1>2. \/ faulty' = faulty /\ pc[c] = "settle"
      \/ faulty' = TRUE
  BY DEF Settle, TimeOut, history
<1>3. c \in InCall
  BY <1>1 DEF InCall
<1>4. Trust' = Trust \/ (Trust = "exact" /\ Trust' = "failed")
  BY <1>1, <1>2 DEF Trust, IInv, TypeOK
<1>5. CASE Len(todo[c]) > 1
  <2>1. InCall' = InCall
    BY <1>1, <1>5 DEF InCall, IInv, TypeOK
  <2>2. CASE Trust' = Trust
    BY <1>1, <2>1, <2>2 DEF Stutter, Seen
  <2>3. CASE Trust = "exact" /\ Trust' = "failed"
    BY <1>1, <1>3, <2>1, <2>3 DEF Register!Fail, InCall, Trust
  <2> QED
    BY <1>4, <2>2, <2>3
<1>6. CASE ~(Len(todo[c]) > 1)
  <2>1. InCall' = InCall \ {c}
    BY <1>1, <1>6 DEF InCall, IInv, TypeOK
  <2>2. ASSUME Trust' = Trust, Trust = "exact" PROVE volume = asked
    <3>1. ~overlapped /\ ~faulty /\ pc[c] = "settle"
      BY <1>1, <1>2, <2>2 DEF Trust
    <3>2. todo[c] \in Work(asked) \cup {Rest} /\ asked \in Values
      BY <1>1, <3>1 DEF IInv, Alone, Busy, TypeOK
    <3>3. VolumeSet(c)
      BY <1>6, <3>1, <3>2, WorkEnds DEF VolumeSet
    <3> QED
      BY <3>1, <3>3 DEF IInv, Exact, Busy
  <2>3. Register!Return(c)
    BY <1>1, <1>3, <1>4, <2>1, <2>2 DEF Register!Return, InCall, Trust
  <2> QED
    BY <2>3
<1> QED
  BY <1>5, <1>6

\* Every step of the control path is a step of the register, or hidden.
LEMMA NextSimulates ==
    ASSUME IInv, [Next]_vars
    PROVE  [Register!Next]_(Register!register)
<1>1. Stutter <=> UNCHANGED Register!register
  BY DEF Stutter, Seen, Register!register, InCall, Trust
<1>2. ASSUME NEW c \in Callers, Start(c) PROVE Register!Next
  BY <1>2, StartAsks DEF Register!Next
<1>3. ASSUME NEW c \in Callers, Step(c) PROVE Register!Next \/ Stutter
  <2>1. CASE Ready(c) \/ Clear(c) \/ Renew(c) \/ Build(c) \/ Submit(c)
    BY <2>1, PreparationHidden
  <2>2. CASE Transfer(c)
    BY <2>2, TransferSets DEF Register!Next
  <2>3. CASE Settle(c) \/ TimeOut(c)
    BY <2>3, FinishReturns DEF Register!Next
  <2> QED
    BY <1>3, <2>1, <2>2, <2>3 DEF Step, Access
<1>4. ASSUME Environment PROVE Stutter
  BY <1>4 DEF Environment, DataRequest, history, Stutter, Seen, InCall, Trust
<1>5. ASSUME UNCHANGED vars PROVE Stutter
  BY <1>5 DEF vars, Stutter, Seen, InCall, Trust
<1> QED
  BY <1>1, <1>2, <1>3, <1>4, <1>5 DEF Next

\* For any callers and arguments: ioctl and the initialisation of the chip
\* implement a register that is set atomically, until two calls overlap or one
\* fails (vs10xx_ioctl, vs10xx_device_init, vs10xx_io_ctrl_xf).
THEOREM ImplementsRegister == Spec => AtomicVolume
<1>1. Init => Register!Init
  BY DEF Init, Register!Init
<1> QED
  BY <1>1, NextSimulates, Invariance, PTL DEF Spec, AtomicVolume, Register!Spec
=============================================================================
