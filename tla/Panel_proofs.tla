------------------------------ MODULE Panel_proofs ------------------------------
(***************************************************************************)
(* What the panel's parts keep, for every number of turns, edges, writes,  *)
(* loads, pins and processes: that the knob is counted, that the LEDs and  *)
(* the display come to show what was last known, and that loading a module *)
(* is balanced.                                                            *)
(*                                                                         *)
(* MCPanel gives each part variables of its own, so that a behaviour of it *)
(* is one of every part at once (Parts), and the parts are proved about    *)
(* one by one under their names there.                                     *)
(***************************************************************************)
EXTENDS MCPanel, RotaryKey_proofs, SequenceTheorems

\* What the processes, the key and the knob do is a step of the knob's or none.
LEMMA KnobSteps ==
    ASSUME Processes \/ PressKey \/ TurnKnob \/ UNCHANGED <<vars, turningKnob>>
    PROVE  [Knob!Next]_(Knob!vars)
<1>1. UNCHANGED <<opening, requested, turningKnob>> => UNCHANGED Knob!vars
  BY DEF turningKnob, Knob!vars
<1>2. CASE Processes
  <2>1. PICK u \in Users : Process(u)
    BY <1>2 DEF Processes
  <2>2. CASE UNCHANGED <<opening, requested>> /\ UNCHANGED turningKnob
    BY <1>1, <2>2
  <2>3. CASE Knob!Use(u)
    BY <2>3 DEF Knob!Next
  <2> QED
    BY <2>1, <2>2, <2>3 DEF Process
<1>3. UNCHANGED <<pc, owner>> => UNCHANGED <<opening, requested>>
  BY DEF opening, requested
<1>4. CASE PressKey
  <2>1. UNCHANGED <<pc, owner, turningKnob>>
    BY <1>4 DEF PressKey, Press, LetGo, HandleKey, Expire, user
  <2> QED
    BY <1>1, <1>3, <2>1
<1>5. CASE TurnKnob
  BY <1>5 DEF TurnKnob, Knob!Next
<1>6. CASE UNCHANGED <<vars, turningKnob>>
  BY <1>1, <1>3, <1>6 DEF vars
<1> QED
  BY <1>2, <1>4, <1>5, <1>6

\* A step of the panel is a step of one part, which stutters the others.
LEMMA Parts == MCSpec => Spec /\ Knob!Spec /\ Leds!Spec /\ Oled!Spec /\ Loading!Spec
<1>1. MCInit => Init /\ Knob!Init /\ Leds!Init /\ Oled!Init /\ Loading!Init
  BY DEF MCInit, EncoderInit
<1>2. [MCNext]_MCvars => [Next]_vars
  BY DEF MCNext, MCvars, encoderState, Processes, Process, PressKey, TurnKnob, Next
<1>3. [MCNext]_MCvars => [Knob!Next]_(Knob!vars)
  BY KnobSteps DEF MCNext, MCvars, encoderState
<1>4. [MCNext]_MCvars => [Leds!Next]_(Leds!vars)
  BY DEF MCNext, MCvars, ledState, Leds!vars
<1>5. [MCNext]_MCvars => [Oled!Next]_(Oled!vars)
  BY DEF MCNext, MCvars, oledState, Oled!vars
<1>6. [MCNext]_MCvars => [Loading!Next]_(Loading!vars)
  BY DEF MCNext, MCvars, loadState, Loading!vars
<1> QED
  BY <1>1, <1>2, <1>3, <1>4, <1>5, <1>6, PTL
  DEF MCSpec, Spec, Knob!Spec, Leds!Spec, Oled!Spec, Loading!Spec

-----------------------------------------------------------------------------
(* The knob.                                                               *)

\* Where in irq_handler a thread may be.
Places == {"idle", "read1", "read2", "compare", "up", "down",
           "store_up", "store_down", "remember"}

\* A thread counts on from a value that has not reached the limit.
KnobInv ==
    /\ Knob!TypeOK
    /\ \A i \in Knob!Irqs : turning[i] = "store_up" => seen[i] < MaxCount
    /\ \A i \in Knob!Irqs : turning[i] = "store_down" => seen[i] > 0

\* A quarter turn changes one line.
LEMMA QuarterTurn ==
    ASSUME NEW l \in Knob!Lines, NEW to \in Knob!Neighbours(l)
    PROVE  to \in Knob!Lines
<1>1. \E k \in 1 .. 4 : Knob!Cycle[k] = l
  <2>1. /\ Knob!Cycle[1] = <<0, 0>> /\ Knob!Cycle[2] = <<1, 0>>
        /\ Knob!Cycle[3] = <<1, 1>> /\ Knob!Cycle[4] = <<0, 1>>
    BY DEF Knob!Cycle
  <2>2. l \in {<<0, 0>>, <<1, 0>>, <<1, 1>>, <<0, 1>>}
    BY DEF Knob!Lines
  <2> QED
    BY <2>1, <2>2
<1>2. Knob!Index(l) \in 1 .. 4
  BY <1>1 DEF Knob!Index
<1>3. \A k \in 1 .. 4 : Knob!Cycle[k] \in Knob!Lines
  BY DEF Knob!Cycle, Knob!Lines
<1>4. (Knob!Index(l) % 4) + 1 \in 1 .. 4 /\ ((Knob!Index(l) + 2) % 4) + 1 \in 1 .. 4
  BY <1>2
<1> QED
  BY <1>3, <1>4 DEF Knob!Neighbours

LEMMA KnobDecodes ==
    ASSUME NEW n \in 0 .. MaxCount, NEW from, NEW to, MaxCount \in Nat
    PROVE  Knob!Decoded(from, to, n) \in 0 .. MaxCount
BY DEF Knob!Decoded, Knob!Up, Knob!Down

LEMMA InitKnobInv == Knob!Init => KnobInv
<1> SUFFICES ASSUME Knob!Init PROVE KnobInv
  OBVIOUS
<1>1. MaxCount \in Nat /\ MaxTurns \in Nat
  BY PanelAssumption DEF Knob!CountAssumption, Knob!TurnsAssumption
<1>2. \A i \in Knob!Irqs : turning[i] = "idle"
  BY DEF Knob!Init
<1>3. 0 \in 0 .. MaxCount /\ 0 \in 0 .. MaxTurns
  BY <1>1
<1>4. Knob!Rest \in Knob!Lines
  BY DEF Knob!Rest, Knob!Lines
<1>5. seen \in [Knob!Irqs -> 0 .. MaxCount] /\ got \in [Knob!Irqs -> Knob!Lines]
  BY <1>3, <1>4 DEF Knob!Init
<1>6. /\ turning \in [Knob!Irqs -> Places]
      /\ requested \subseteq Knob!Irqs /\ pending \subseteq requested
  BY DEF Knob!Init, Places
<1>7. /\ opening \in [Users -> {"away", "read1", "keep1", "read2", "keep2"}]
      /\ sampled \in [Users -> {0, 1}]
  BY DEF Knob!Init
<1>8. /\ lines \in Knob!Lines /\ prev \in Knob!Lines /\ patient \in BOOLEAN
      /\ unsure \in BOOLEAN
  BY <1>4 DEF Knob!Init
<1>9. /\ counter \in 0 .. MaxCount /\ turns \in 0 .. MaxTurns
      /\ exact \in {Knob!Unknown} \cup 0 .. MaxCount
  BY <1>3 DEF Knob!Init
<1>10. Knob!TypeOK
  BY <1>5, <1>6, <1>7, <1>8, <1>9 DEF Knob!TypeOK, Places
<1> QED
  BY <1>2, <1>10 DEF KnobInv

\* The openings keep the types.
LEMMA UseTypes ==
    ASSUME KnobInv, NEW o \in Users, Knob!Use(o)
    PROVE  KnobInv'
<1> USE DEF KnobInv, Knob!TypeOK
<1>1. CASE Knob!Open(o)
  BY <1>1 DEF Knob!Open, Knob!knob, Knob!handler, Knob!history
<1>2. CASE Knob!ReadFirst(o)
  <2>1. lines[1] \in {0, 1}
    BY DEF Knob!Lines
  <2>2. sampled' \in [Users -> {0, 1}]
    BY <1>2, <2>1 DEF Knob!ReadFirst
  <2>3. unsure' \in BOOLEAN
    BY <1>2, Zenon DEF Knob!ReadFirst, Knob!Looking, Knob!Sampling
  <2>4. exact' \in {Knob!Unknown} \cup 0 .. MaxCount
    BY <1>2, Zenon DEF Knob!ReadFirst
  <2>5. opening' \in [Users -> {"away", "read1", "keep1", "read2", "keep2"}]
    BY <1>2 DEF Knob!ReadFirst
  <2>6. UNCHANGED <<Knob!knob, requested, pending, Knob!handler, prev, counter>>
    BY <1>2 DEF Knob!ReadFirst
  <2> QED
    BY <2>2, <2>3, <2>4, <2>5, <2>6 DEF Knob!knob, Knob!handler
<1>3. CASE Knob!ReadSecond(o)
  <2>1. lines[2] \in {0, 1}
    BY DEF Knob!Lines
  <2> QED
    BY <1>3, <2>1 DEF Knob!ReadSecond, Knob!knob, Knob!handler, Knob!history
<1>4. CASE Knob!Keep(o)
  <2>1. prev[1] \in {0, 1} /\ prev[2] \in {0, 1} /\ sampled[o] \in {0, 1}
    BY DEF Knob!Lines
  <2>2. prev' \in Knob!Lines
    BY <1>4, <2>1 DEF Knob!Keep, Knob!Lines
  <2>3. opening' \in [Users -> {"away", "read1", "keep1", "read2", "keep2"}]
    BY <1>4 DEF Knob!Keep
  <2>4. /\ sampled' \in [Users -> {0, 1}]
        /\ UNCHANGED <<Knob!knob, requested, pending, Knob!handler, counter, Knob!history>>
    BY <1>4 DEF Knob!Keep
  <2> QED
    BY <2>2, <2>3, <2>4 DEF Knob!knob, Knob!handler, Knob!history
<1>5. ASSUME NEW i \in Knob!Irqs, Knob!Request(i) PROVE KnobInv'
  BY <1>5 DEF Knob!Request, Knob!knob, Knob!handler, Knob!my_open, Knob!history
<1>6. ASSUME NEW i \in Knob!Irqs, Knob!Free(i) PROVE KnobInv'
  <2>1. unsure' \in BOOLEAN
    BY <1>6, Zenon DEF Knob!Free
  <2>2. exact' \in {Knob!Unknown} \cup 0 .. MaxCount
    BY <1>6, Zenon DEF Knob!Free
  <2>3. /\ requested' \subseteq Knob!Irqs /\ pending' \subseteq requested'
        /\ UNCHANGED <<Knob!knob, Knob!handler, Knob!my_open, prev, counter>>
    BY <1>6 DEF Knob!Free
  <2> QED
    BY <2>1, <2>2, <2>3 DEF Knob!knob, Knob!handler, Knob!my_open
<1> QED
  BY <1>1, <1>2, <1>3, <1>4, <1>5, <1>6 DEF Knob!Use

LEMMA NextKnobInv == ASSUME KnobInv, [Knob!Next]_(Knob!vars) PROVE KnobInv'
<1> USE DEF KnobInv, Knob!TypeOK
<1>1. MaxCount \in Nat /\ MaxTurns \in Nat
  BY PanelAssumption DEF Knob!CountAssumption, Knob!TurnsAssumption
<1>2. CASE UNCHANGED Knob!vars
  BY <1>2 DEF Knob!vars
<1>3. CASE Knob!Turn
  <2>1. PICK to \in Knob!Neighbours(lines) :
          LET line == IF to[1] # lines[1] THEN "s1" ELSE "s2"
          IN  /\ lines' = to
              /\ pending' = pending \cup ({line} \cap requested)
              /\ unsure' = (unsure \/ line \notin requested)
              /\ exact' = IF exact = Knob!Unknown \/ line \notin requested \/ Knob!Sampling
                          THEN Knob!Unknown ELSE Knob!Decoded(lines, to, exact)
    BY <1>3 DEF Knob!Turn
  <2>2. to \in Knob!Lines
    BY QuarterTurn
  <2>3. unsure' \in BOOLEAN
    BY <2>1, Zenon
  <2>4. exact' \in {Knob!Unknown} \cup 0 .. MaxCount
    <3>1. exact # Knob!Unknown => Knob!Decoded(lines, to, exact) \in 0 .. MaxCount
      BY <1>1, KnobDecodes
    <3> QED
      BY <2>1, <3>1
  <2>5. /\ turns < MaxTurns /\ turns' = turns + 1
        /\ UNCHANGED <<patient, requested, turning, got, seen, opening, sampled, prev,
                       counter>>
    BY <1>3 DEF Knob!Turn, Knob!handler, Knob!my_open
  <2>6. pending' \subseteq requested'
    BY <2>1, <2>5
  <2> QED
    BY <1>1, <2>1, <2>2, <2>3, <2>4, <2>5, <2>6
<1>4. ASSUME NEW i \in Knob!Irqs, Knob!Handle(i) PROVE KnobInv'
  <2>1. CASE Knob!Enter(i)
    <3>1. unsure' \in BOOLEAN
      BY <2>1, Zenon DEF Knob!Enter, Knob!Looking, Knob!Sampling
    <3>2. turning' \in [Knob!Irqs -> Places] /\ pending' \subseteq requested'
      BY <2>1 DEF Knob!Enter, Places
    <3>3. \A j \in Knob!Irqs : turning'[j] \in {"store_up", "store_down"} => turning'[j] = turning[j]
      BY <2>1 DEF Knob!Enter
    <3>4. UNCHANGED <<Knob!knob, requested, Knob!my_open, got, seen, prev, counter, exact>>
      BY <2>1 DEF Knob!Enter
    <3> QED
      BY <3>1, <3>2, <3>3, <3>4 DEF Knob!knob, Knob!my_open, Places
  <2>2. CASE Knob!ReadS1(i)
    <3>1. lines[1] \in {0, 1} /\ [got[i] EXCEPT ![1] = lines[1]] \in Knob!Lines
      BY DEF Knob!Lines
    <3>2. got' = [got EXCEPT ![i] = [got[i] EXCEPT ![1] = lines[1]]]
      BY <2>2 DEF Knob!ReadS1
    <3> QED
      BY <2>2, <3>1, <3>2 DEF Knob!ReadS1, Knob!others, Knob!knob, Knob!my_open, Knob!history
  <2>3. CASE Knob!ReadS2(i)
    <3>1. lines[2] \in {0, 1} /\ [got[i] EXCEPT ![2] = lines[2]] \in Knob!Lines
      BY DEF Knob!Lines
    <3>2. got' = [got EXCEPT ![i] = [got[i] EXCEPT ![2] = lines[2]]]
      BY <2>3 DEF Knob!ReadS2
    <3> QED
      BY <2>3, <3>1, <3>2 DEF Knob!ReadS2, Knob!others, Knob!knob, Knob!my_open, Knob!history
  <2>4. ASSUME Knob!Return(i)
        PROVE  /\ turning' \in [Knob!Irqs -> Places] /\ got' \in [Knob!Irqs -> Knob!Lines]
               /\ seen' \in [Knob!Irqs -> 0 .. MaxCount]
               /\ \A j \in Knob!Irqs : \/ turning'[j] = "idle"
                                       \/ turning'[j] = turning[j] /\ seen'[j] = seen[j]
    <3>1. Knob!Rest \in Knob!Lines /\ 0 \in 0 .. MaxCount
      BY <1>1 DEF Knob!Rest, Knob!Lines
    <3> QED
      BY <2>4, <3>1 DEF Knob!Return, Places
  <2>5. CASE Knob!Compare(i)
    <3>1. UNCHANGED <<Knob!others, prev, counter>>
      BY <2>5 DEF Knob!Compare
    <3>2. CASE Knob!Return(i)
      BY <2>4, <3>1, <3>2 DEF Knob!others, Knob!knob, Knob!my_open, Knob!history, Places
    <3>3. CASE ~Knob!Return(i)
      BY <2>5, <3>1, <3>3 DEF Knob!Compare, Knob!others, Knob!knob, Knob!my_open, Knob!history
    <3> QED
      BY <3>2, <3>3
  <2>6. CASE Knob!LoadCounter(i)
    BY <2>6 DEF Knob!LoadCounter, Knob!others, Knob!knob, Knob!my_open, Knob!history
  <2>7. CASE Knob!StoreCounter(i)
    <3>1. seen[i] \in 0 .. MaxCount
      OBVIOUS
    <3>2. counter' \in 0 .. MaxCount
      BY <1>1, <2>7, <3>1 DEF Knob!StoreCounter
    <3> QED
      BY <2>7, <3>2 DEF Knob!StoreCounter, Knob!others, Knob!knob, Knob!my_open, Knob!history
  <2>8. CASE Knob!Remember(i)
    <3>1. Knob!Return(i) /\ prev' = got[i] /\ UNCHANGED <<Knob!others, counter>>
      BY <2>8 DEF Knob!Remember
    <3> QED
      BY <2>4, <3>1 DEF Knob!others, Knob!knob, Knob!my_open, Knob!history, Places
  <2> QED
    BY <1>4, <2>1, <2>2, <2>3, <2>5, <2>6, <2>7, <2>8 DEF Knob!Handle
<1> QED
  BY <1>2, <1>3, <1>4, UseTypes DEF Knob!Next

\* What a thread has read is where the knob is.
Looks(i) ==
    /\ turning[i] = "read2" => got[i][1] = lines[1]
    /\ turning[i] \in {"compare", "up", "down", "store_up", "store_down", "remember"} =>
          got[i] = lines

\* In my_open between the first look at a line and the last store.
Midway(o) == opening[o] \in {"keep1", "read2", "keep2"}

\* What an opening has read and kept is where the knob is.
Glances(o) ==
    /\ opening[o] = "keep1" => sampled[o] = lines[1]
    /\ opening[o] \in {"read2", "keep2"} => prev[1] = lines[1]
    /\ opening[o] = "keep2" => sampled[o] = lines[2]

\* Since somebody has looked alone: one handler or one opening at most looks,
\* and once no edge is waiting it sees where the knob is, and whoever looked
\* before has remembered it.
CatchUpInv ==
    ~unsure =>
        /\ \A i, j \in Knob!Irqs : turning[i] # "idle" /\ turning[j] # "idle" => i = j
        /\ \A o, p \in Users : Midway(o) /\ Midway(p) => o = p
        /\ \A i \in Knob!Irqs, o \in Users : ~(turning[i] # "idle" /\ Midway(o))
        /\ pending = {} =>
              /\ \A i \in Knob!Irqs : Looks(i)
              /\ \A o \in Users : Glances(o)
              /\ ~Knob!Looking => prev = lines

\* A thread that reads on sees where the knob is.
LEMMA LooksOn ==
    ASSUME KnobInv, NEW i \in Knob!Irqs, Knob!Handle(i), Looks(i)
    PROVE  Looks(i)'
<1>1. /\ turning \in [Knob!Irqs -> Places] /\ got \in [Knob!Irqs -> Knob!Lines]
      /\ lines \in Knob!Lines
  BY DEF KnobInv, Knob!TypeOK, Places
<1>2. CASE Knob!Enter(i) \/ Knob!Remember(i)
  <2>1. turning'[i] \in {"read1", "idle"}
    BY <1>1, <1>2 DEF Knob!Enter, Knob!Remember, Knob!Return
  <2> QED
    BY <2>1 DEF Looks
<1>3. CASE Knob!ReadS1(i)
  <2>1. /\ turning' = [turning EXCEPT ![i] = "read2"] /\ UNCHANGED lines
        /\ got' = [got EXCEPT ![i] = [got[i] EXCEPT ![1] = lines[1]]]
    BY <1>3 DEF Knob!ReadS1, Knob!others, Knob!knob
  <2>2. got'[i][1] = lines[1] /\ turning'[i] = "read2"
    BY <1>1, <2>1 DEF Knob!Lines
  <2> QED
    BY <2>1, <2>2 DEF Looks
<1>4. CASE Knob!ReadS2(i)
  <2>1. /\ turning[i] = "read2" /\ turning' = [turning EXCEPT ![i] = "compare"]
        /\ got' = [got EXCEPT ![i] = [got[i] EXCEPT ![2] = lines[2]]] /\ UNCHANGED lines
    BY <1>4 DEF Knob!ReadS2, Knob!others, Knob!knob
  <2>2. got'[i] = [got[i] EXCEPT ![2] = lines[2]] /\ turning'[i] = "compare"
    BY <1>1, <2>1
  <2>3. got[i][1] = lines[1] /\ got[i] \in {0, 1} \X {0, 1} /\ lines \in {0, 1} \X {0, 1}
    BY <1>1, <2>1 DEF Looks, Knob!Lines
  <2>4. [got[i] EXCEPT ![2] = lines[2]] = lines
    BY <2>3
  <2> QED
    BY <2>1, <2>2, <2>4 DEF Looks
<1>5. CASE Knob!Compare(i)
  <2>1. /\ turning[i] = "compare" /\ UNCHANGED lines
        /\ \/ turning'[i] = "idle"
           \/ turning'[i] \in {"up", "down", "remember"} /\ UNCHANGED got
    BY <1>1, <1>5 DEF Knob!Compare, Knob!Return, Knob!others, Knob!knob
  <2> QED
    BY <2>1 DEF Looks
<1>6. CASE Knob!LoadCounter(i)
  <2>1. /\ turning[i] \in {"up", "down"} /\ UNCHANGED <<lines, got>>
        /\ turning'[i] \in {"store_up", "store_down", "remember"}
    BY <1>1, <1>6 DEF Knob!LoadCounter, Knob!others, Knob!knob
  <2> QED
    BY <2>1 DEF Looks
<1>7. CASE Knob!StoreCounter(i)
  <2>1. /\ turning[i] \in {"store_up", "store_down"} /\ UNCHANGED <<lines, got>>
        /\ turning'[i] = "remember"
    BY <1>1, <1>7 DEF Knob!StoreCounter, Knob!others, Knob!knob
  <2> QED
    BY <2>1 DEF Looks
<1> QED
  BY <1>2, <1>3, <1>4, <1>5, <1>6, <1>7 DEF Knob!Handle

\* A handler moves no other thread, turns no knob and opens nothing.
LEMMA HandleMoves ==
    ASSUME KnobInv, NEW i \in Knob!Irqs, Knob!Handle(i)
    PROVE  /\ \A j \in Knob!Irqs \ {i} : turning'[j] = turning[j] /\ got'[j] = got[j]
           /\ UNCHANGED <<lines, patient, exact, opening, sampled>>
           /\ \/ Knob!Enter(i)
              \/ turning[i] # "idle" /\ UNCHANGED <<pending, unsure>>
<1>1. turning \in [Knob!Irqs -> Places] /\ got \in [Knob!Irqs -> Knob!Lines]
  BY DEF KnobInv, Knob!TypeOK, Places
<1>2. CASE Knob!Enter(i)
  BY <1>1, <1>2 DEF Knob!Enter, Knob!knob, Knob!my_open
<1>3. Knob!others' = Knob!others
      => UNCHANGED <<lines, patient, exact, opening, sampled, pending, unsure>>
  BY DEF Knob!others, Knob!knob, Knob!my_open, Knob!history
<1>4. CASE Knob!ReadS1(i)
  BY <1>1, <1>3, <1>4 DEF Knob!ReadS1
<1>5. CASE Knob!ReadS2(i)
  BY <1>1, <1>3, <1>5 DEF Knob!ReadS2
<1>6. CASE Knob!Compare(i)
  BY <1>1, <1>3, <1>6 DEF Knob!Compare, Knob!Return
<1>7. CASE Knob!LoadCounter(i)
  BY <1>1, <1>3, <1>7 DEF Knob!LoadCounter
<1>8. CASE Knob!StoreCounter(i)
  BY <1>1, <1>3, <1>8 DEF Knob!StoreCounter
<1>9. CASE Knob!Remember(i)
  BY <1>1, <1>3, <1>9 DEF Knob!Remember, Knob!Return
<1> QED
  BY <1>2, <1>4, <1>5, <1>6, <1>7, <1>8, <1>9 DEF Knob!Handle

\* Who has looked and lets go has remembered what it saw.
LEMMA RemembersWhatItSaw ==
    ASSUME KnobInv, NEW i \in Knob!Irqs, Knob!Handle(i), Looks(i),
           turning[i] # "idle", turning'[i] = "idle"
    PROVE  prev' = lines
<1>1. turning \in [Knob!Irqs -> Places]
  BY DEF KnobInv, Knob!TypeOK, Places
<1>2. CASE Knob!Compare(i)
  BY <1>1, <1>2 DEF Knob!Compare, Looks
<1>3. CASE Knob!Remember(i)
  BY <1>3 DEF Knob!Remember, Looks
<1>4. ~Knob!ReadS1(i) /\ ~Knob!ReadS2(i) /\ ~Knob!Enter(i)
  BY <1>1 DEF Knob!ReadS1, Knob!ReadS2, Knob!Enter
<1>5. ~Knob!LoadCounter(i) /\ ~Knob!StoreCounter(i)
  BY <1>1 DEF Knob!LoadCounter, Knob!StoreCounter
<1> QED
  BY <1>2, <1>3, <1>4, <1>5 DEF Knob!Handle

LEMMA UseCatchesUp ==
    ASSUME KnobInv, CatchUpInv, NEW o \in Users, Knob!Use(o)
    PROVE  CatchUpInv'
<1>1. SUFFICES ASSUME ~unsure' PROVE CatchUpInv'
  BY DEF CatchUpInv
<1>2. /\ turning \in [Knob!Irqs -> Places] /\ lines \in Knob!Lines /\ prev \in Knob!Lines
      /\ opening \in [Users -> {"away", "read1", "keep1", "read2", "keep2"}]
      /\ sampled \in [Users -> {0, 1}]
  BY DEF KnobInv, Knob!TypeOK, Places
<1>3. CASE Knob!Open(o)
  <2>1. /\ UNCHANGED <<lines, pending, turning, got, sampled, prev, unsure>>
        /\ opening[o] = "away" /\ opening'[o] = "read1"
        /\ \A p \in Users \ {o} : opening'[p] = opening[p]
    BY <1>2, <1>3 DEF Knob!Open, Knob!knob, Knob!handler, Knob!history
  <2>2. Knob!Looking' <=> Knob!Looking
    BY <2>1 DEF Knob!Looking, Knob!Sampling
  <2> QED
    BY <1>1, <2>1, <2>2 DEF CatchUpInv, Midway, Looks, Glances
<1>4. CASE Knob!ReadFirst(o)
  <2>1. /\ ~Knob!Looking /\ UNCHANGED <<lines, pending, turning, got, prev>>
        /\ opening'[o] = "keep1" /\ sampled'[o] = lines[1]
        /\ \A p \in Users \ {o} : opening'[p] = opening[p]
    BY <1>1, <1>2, <1>4 DEF Knob!ReadFirst, Knob!knob, Knob!handler
  <2>2. /\ \A i \in Knob!Irqs : turning'[i] = "idle"
        /\ \A p \in Users \ {o} : ~Midway(p)'
    BY <2>1 DEF Knob!Looking, Knob!Sampling, Midway
  <2>3. Knob!Looking'
    BY <2>1 DEF Knob!Looking, Knob!Sampling
  <2> QED
    BY <2>1, <2>2, <2>3 DEF CatchUpInv, Midway, Looks, Glances
<1>5. CASE Knob!ReadSecond(o)
  <2>1. /\ UNCHANGED <<lines, pending, turning, got, prev, unsure>>
        /\ opening[o] = "read2" /\ opening'[o] = "keep2" /\ sampled'[o] = lines[2]
        /\ \A p \in Users \ {o} : opening'[p] = opening[p] /\ sampled'[p] = sampled[p]
    BY <1>2, <1>5 DEF Knob!ReadSecond, Knob!knob, Knob!handler, Knob!history
  <2>2. Knob!Looking'
    BY <2>1 DEF Knob!Looking, Knob!Sampling
  <2> QED
    BY <1>1, <2>1, <2>2 DEF CatchUpInv, Midway, Looks, Glances
<1>6. CASE Knob!Keep(o)
  <2>1. /\ UNCHANGED <<lines, pending, turning, got, unsure>> /\ Midway(o)
        /\ \A p \in Users \ {o} : opening'[p] = opening[p]
    BY <1>2, <1>6 DEF Knob!Keep, Knob!knob, Knob!handler, Knob!history, Midway
  <2>2. /\ \A i \in Knob!Irqs : turning'[i] = "idle"
        /\ \A p \in Users \ {o} : ~Midway(p)'
    BY <1>1, <2>1 DEF CatchUpInv, Midway
  <2>3. SUFFICES ASSUME pending = {}
                 PROVE  Glances(o)' /\ (~Knob!Looking' => prev' = lines')
    BY <2>1, <2>2 DEF CatchUpInv, Midway, Looks, Glances
  <2>4. Glances(o)
    BY <1>1, <2>1, <2>3 DEF CatchUpInv
  <2>5. CASE opening[o] = "keep1"
    <3>1. opening'[o] = "read2" /\ prev' = <<sampled[o], prev[2]>>
      BY <1>2, <1>6, <2>5 DEF Knob!Keep
    <3> QED
      BY <2>1, <2>4, <2>5, <3>1 DEF Glances, Knob!Looking, Knob!Sampling
  <2>6. CASE opening[o] = "keep2"
    <3>1. opening'[o] = "away" /\ prev' = <<prev[1], sampled[o]>>
      BY <1>2, <1>6, <2>6 DEF Knob!Keep
    <3>2. prev' = <<lines[1], lines[2]>>
      BY <2>4, <2>6, <3>1 DEF Glances
    <3>3. lines = <<lines[1], lines[2]>>
      BY <1>2 DEF Knob!Lines
    <3> QED
      BY <2>1, <3>1, <3>2, <3>3 DEF Glances
  <2> QED
    BY <1>6, <2>5, <2>6 DEF Knob!Keep
<1>7. ASSUME NEW i \in Knob!Irqs, Knob!Request(i) \/ Knob!Free(i) PROVE CatchUpInv'
  <2>1. UNCHANGED <<lines, turning, got, opening, sampled, prev>>
    BY <1>7
    DEF Knob!Request, Knob!Free, Knob!knob, Knob!handler, Knob!my_open, Knob!history
  <2>2. pending' = pending /\ ~unsure
    <3>1. CASE Knob!Request(i)
      BY <1>1, <3>1 DEF Knob!Request, Knob!history
    <3>2. CASE Knob!Free(i)
      <4>1. ~unsure /\ i \notin pending
        BY <1>1, <3>2, Zenon DEF Knob!Free
      <4> QED
        BY <3>2, <4>1 DEF Knob!Free
    <3> QED
      BY <1>7, <3>1, <3>2
  <2>3. Knob!Looking' <=> Knob!Looking
    BY <2>1 DEF Knob!Looking, Knob!Sampling
  <2> QED
    BY <2>1, <2>2, <2>3 DEF CatchUpInv, Midway, Looks, Glances
<1> QED
  BY <1>3, <1>4, <1>5, <1>6, <1>7 DEF Knob!Use

LEMMA NextCatchUp ==
    ASSUME KnobInv, CatchUpInv, [Knob!Next]_(Knob!vars)
    PROVE  CatchUpInv'
<1>1. CASE UNCHANGED Knob!vars
  BY <1>1 DEF Knob!vars, CatchUpInv, Looks, Midway, Glances, Knob!Looking, Knob!Sampling
<1>2. CASE Knob!Turn
  <2>1. ~unsure' => ~unsure /\ pending' # {}
    BY <1>2 DEF Knob!Turn
  <2>2. UNCHANGED <<turning, opening>>
    BY <1>2 DEF Knob!Turn, Knob!handler, Knob!my_open
  <2> QED
    BY <2>1, <2>2 DEF CatchUpInv, Midway
<1>3. ASSUME NEW i \in Knob!Irqs, Knob!Handle(i) PROVE CatchUpInv'
  <2>1. SUFFICES ASSUME ~unsure' PROVE CatchUpInv'
    BY DEF CatchUpInv
  <2>2. UNCHANGED <<lines, opening, sampled>>
    BY <1>3, HandleMoves
  <2>3. CASE Knob!Enter(i)
    <3>1. /\ \A j \in Knob!Irqs : turning[j] = "idle"
          /\ \A o \in Users : ~Midway(o)
      BY <2>1, <2>3 DEF Knob!Enter, Knob!Looking, Knob!Sampling, Midway
    <3>2. turning'[i] = "read1" /\ \A j \in Knob!Irqs \ {i} : turning'[j] = "idle"
      BY <2>3, <3>1 DEF Knob!Enter, KnobInv, Knob!TypeOK
    <3>3. \A o \in Users : ~Midway(o)'
      BY <2>2, <3>1 DEF Midway
    <3>4. Knob!Looking'
      BY <3>2 DEF Knob!Looking
    <3> QED
      BY <3>2, <3>3, <3>4 DEF CatchUpInv, Looks, Glances, Midway
  <2>4. CASE turning[i] # "idle" /\ UNCHANGED <<pending, unsure>>
    <3>1. \A j \in Knob!Irqs \ {i} : turning'[j] = "idle"
      BY <1>3, <2>1, <2>4, HandleMoves DEF CatchUpInv
    <3>2. \A o \in Users : ~Midway(o)'
      BY <2>1, <2>2, <2>4 DEF CatchUpInv, Midway
    <3>3. CASE pending = {}
      <4>1. Looks(i) /\ Looks(i)'
        BY <1>3, <2>1, <2>4, <3>3, LooksOn DEF CatchUpInv
      <4>2. ASSUME turning'[i] = "idle" PROVE prev' = lines'
        <5>1. prev' = lines
          BY <1>3, <2>4, <4>1, <4>2, RemembersWhatItSaw
        <5> QED
          BY <2>2, <5>1
      <4>3. ~Knob!Looking' => prev' = lines'
        BY <4>2 DEF Knob!Looking
      <4> QED
        BY <3>1, <3>2, <4>1, <4>3 DEF CatchUpInv, Looks, Glances, Midway
    <3>4. CASE pending # {}
      BY <2>4, <3>1, <3>2, <3>4 DEF CatchUpInv
    <3> QED
      BY <3>3, <3>4
  <2> QED
    BY <1>3, <2>3, <2>4, HandleMoves
<1> QED
  BY <1>1, <1>2, <1>3, UseCatchesUp DEF Knob!Next

\* For any processes that open and close the device, any number of turns at any
\* speed: once no edge is waiting and nobody is at work, the driver knows where
\* the knob is, if whoever looked last looked alone and no edge was missed since
\* (rotary_encoder_vol/rotary_encoder.c, my_open and irq_handler).
THEOREM KnobCaughtUp == MCSpec => []CaughtUp
<1>1. Knob!Init => CatchUpInv
  BY DEF Knob!Init, CatchUpInv
<1>2. CatchUpInv => CaughtUp
  BY DEF CatchUpInv, CaughtUp, Knob!CaughtUp, Knob!Settled, Knob!Handled, Knob!Looking
<1> QED
  BY <1>1, <1>2, InitKnobInv, NextKnobInv, NextCatchUp, Parts, PTL DEF Knob!Spec

\* What the count will be once thread i is through.
CountsTo(i) ==
    /\ i \in pending \/ turning[i] \in {"read1", "read2", "compare"} =>
          exact = Knob!Decoded(prev, lines, counter)
    /\ turning[i] = "up" => exact = Knob!Up(counter)
    /\ turning[i] = "down" => exact = Knob!Down(counter)
    /\ turning[i] = "store_up" => exact = seen[i] + 1
    /\ turning[i] = "store_down" => exact = seen[i] - 1
    /\ turning[i] = "remember" => exact = counter

\* While the count is to be exact one thread has one edge to handle, at most, or
\* one process samples the lines of a knob at rest.
PatientInv ==
    exact # Knob!Unknown =>
        /\ patient
        /\ \A i, j \in Knob!Irqs :
              /\ i \in pending \/ turning[i] # "idle"
              /\ j \in pending \/ turning[j] # "idle"
              => i = j
        /\ \A i \in Knob!Irqs : i \in pending => turning[i] = "idle"
        /\ \A i \in Knob!Irqs : Looks(i) /\ CountsTo(i)
        /\ \A o, p \in Users : Midway(o) /\ Midway(p) => o = p
        /\ \A o \in Users :
              Midway(o) => Knob!Handled /\ counter = exact /\ Glances(o)
        /\ Knob!Settled => counter = exact /\ prev = lines

\* The thread that has the edge counts it once.
LEMMA CountsOn ==
    ASSUME KnobInv, NEW i \in Knob!Irqs, Knob!Handle(i), Looks(i), CountsTo(i),
           i \in pending => turning[i] = "idle"
    PROVE  /\ CountsTo(i)' /\ i \notin pending'
           /\ turning'[i] = "idle" => counter' = exact'
<1>1. /\ turning \in [Knob!Irqs -> Places] /\ seen \in [Knob!Irqs -> 0 .. MaxCount]
      /\ counter \in 0 .. MaxCount
  BY DEF KnobInv, Knob!TypeOK, Places
<1>2. UNCHANGED <<lines, exact>> /\ MaxCount \in Nat
  BY PanelAssumption, HandleMoves DEF Knob!CountAssumption
<1>3. CASE Knob!Enter(i)
  <2>1. /\ turning'[i] = "read1" /\ i \in pending /\ i \notin pending'
        /\ UNCHANGED <<prev, counter>>
    BY <1>1, <1>3 DEF Knob!Enter
  <2>2. Knob!Decoded(prev, lines, counter)' = Knob!Decoded(prev, lines, counter)
    BY <1>2, <2>1 DEF Knob!Decoded, Knob!Up, Knob!Down, Knob!Clockwise,
                      Knob!Anticlockwise, Knob!Rest
  <2> QED
    BY <1>2, <2>1, <2>2 DEF CountsTo
<1>4. CASE Knob!ReadS1(i) \/ Knob!ReadS2(i)
  <2>1. /\ turning[i] \in {"read1", "read2"} /\ turning'[i] \in {"read2", "compare"}
        /\ UNCHANGED <<pending, prev, counter>>
    BY <1>1, <1>4 DEF Knob!ReadS1, Knob!ReadS2, Knob!others
  <2>2. Knob!Decoded(prev, lines, counter)' = Knob!Decoded(prev, lines, counter)
    BY <1>2, <2>1 DEF Knob!Decoded, Knob!Up, Knob!Down, Knob!Clockwise,
                      Knob!Anticlockwise, Knob!Rest
  <2> QED
    BY <1>2, <2>1, <2>2 DEF CountsTo
<1>5. CASE Knob!Compare(i)
  <2>1. /\ turning[i] = "compare" /\ got[i] = lines
        /\ exact = Knob!Decoded(prev, lines, counter)
    BY <1>5 DEF Knob!Compare, Looks, CountsTo
  <2>2. /\ turning'[i] = IF lines = prev THEN "idle"
                         ELSE IF Knob!Clockwise(prev, lines) THEN "up"
                         ELSE IF Knob!Anticlockwise(prev, lines) THEN "down"
                         ELSE "remember"
        /\ UNCHANGED <<pending, counter>>
    BY <1>1, <1>5, <2>1 DEF Knob!Compare, Knob!Return, Knob!others
  <2>3. Knob!Up(counter)' = Knob!Up(counter) /\ Knob!Down(counter)' = Knob!Down(counter)
    BY <2>2 DEF Knob!Up, Knob!Down
  <2>4. CASE lines = prev
    <3>1. exact = counter
      BY <2>1, <2>4 DEF Knob!Decoded, Knob!Clockwise, Knob!Anticlockwise, Knob!Rest
    <3> QED
      BY <1>2, <2>1, <2>2, <2>4, <3>1 DEF CountsTo
  <2>5. CASE lines # prev
    BY <1>2, <2>1, <2>2, <2>3, <2>5 DEF CountsTo, Knob!Decoded
  <2> QED
    BY <2>4, <2>5
<1>6. CASE Knob!LoadCounter(i)
  <2>1. /\ turning[i] \in {"up", "down"} /\ seen'[i] = counter
        /\ turning'[i] = IF turning[i] = "up" /\ counter < MaxCount THEN "store_up"
                         ELSE IF turning[i] = "down" /\ counter > 0 THEN "store_down"
                         ELSE "remember"
        /\ UNCHANGED <<pending, counter>>
    BY <1>1, <1>6 DEF Knob!LoadCounter, Knob!others
  <2>2. CASE turning[i] = "up"
    BY <1>1, <1>2, <2>1, <2>2 DEF CountsTo, Knob!Up
  <2>3. CASE turning[i] = "down"
    BY <1>1, <1>2, <2>1, <2>3 DEF CountsTo, Knob!Down
  <2> QED
    BY <2>1, <2>2, <2>3
<1>7. CASE Knob!StoreCounter(i)
  <2>1. /\ turning[i] \in {"store_up", "store_down"} /\ turning'[i] = "remember"
        /\ counter' = IF turning[i] = "store_up" THEN seen[i] + 1 ELSE seen[i] - 1
        /\ UNCHANGED pending
    BY <1>1, <1>7 DEF Knob!StoreCounter, Knob!others
  <2> QED
    BY <1>2, <2>1 DEF CountsTo
<1>8. CASE Knob!Remember(i)
  <2>1. turning[i] = "remember" /\ turning'[i] = "idle" /\ UNCHANGED <<pending, counter>>
    BY <1>1, <1>8 DEF Knob!Remember, Knob!Return, Knob!others
  <2> QED
    BY <1>2, <2>1 DEF CountsTo
<1> QED
  BY <1>3, <1>4, <1>5, <1>6, <1>7, <1>8 DEF Knob!Handle

\* An opening keeps what it sees of a knob at rest.
LEMMA UseIsPatient ==
    ASSUME KnobInv, PatientInv, NEW o \in Users, Knob!Use(o)
    PROVE  PatientInv'
<1>1. SUFFICES ASSUME exact' # Knob!Unknown PROVE PatientInv'
  BY DEF PatientInv
<1>2. /\ lines \in Knob!Lines /\ prev \in Knob!Lines
      /\ opening \in [Users -> {"away", "read1", "keep1", "read2", "keep2"}]
      /\ sampled \in [Users -> {0, 1}]
  BY DEF KnobInv, Knob!TypeOK
<1>3. ASSUME UNCHANGED <<lines, pending, turning, seen, prev, counter, exact>>
      PROVE  \A i \in Knob!Irqs : CountsTo(i) => CountsTo(i)'
  BY <1>3 DEF CountsTo, Knob!Decoded, Knob!Up, Knob!Down, Knob!Clockwise,
              Knob!Anticlockwise, Knob!Rest
<1>4. CASE Knob!Open(o)
  <2>1. /\ UNCHANGED <<lines, patient, pending, turning, got, seen, sampled, prev, counter,
                       exact>>
        /\ opening[o] = "away" /\ opening'[o] = "read1"
        /\ \A p \in Users \ {o} : opening'[p] = opening[p]
    BY <1>2, <1>4 DEF Knob!Open, Knob!knob, Knob!handler, Knob!history
  <2>2. (Knob!Settled' <=> Knob!Settled) /\ (Knob!Handled' <=> Knob!Handled)
    BY <2>1 DEF Knob!Settled, Knob!Handled, Knob!Sampling
  <2>3. \A i \in Knob!Irqs : CountsTo(i)'
    BY <1>1, <1>3, <2>1 DEF PatientInv
  <2> QED
    BY <1>1, <2>1, <2>2, <2>3 DEF PatientInv, Midway, Looks, Glances
<1>5. CASE Knob!ReadFirst(o)
  <2>1. /\ UNCHANGED <<lines, patient, pending, turning, prev, counter>>
        /\ patient /\ Knob!Settled /\ exact' = counter
        /\ opening'[o] = "keep1" /\ sampled'[o] = lines[1]
        /\ \A p \in Users \ {o} : opening'[p] = opening[p]
    BY <1>1, <1>2, <1>5 DEF Knob!ReadFirst, Knob!knob, Knob!handler
  <2>2. /\ pending' = {} /\ \A i \in Knob!Irqs : turning'[i] = "idle"
        /\ \A p \in Users \ {o} : ~Midway(p)'
    BY <2>1 DEF Knob!Settled, Knob!Handled, Knob!Sampling, Midway
  <2>3. ~Knob!Settled' /\ Knob!Handled'
    BY <2>1, <2>2 DEF Knob!Settled, Knob!Handled, Knob!Sampling
  <2>4. \A i \in Knob!Irqs : Looks(i)' /\ CountsTo(i)'
    BY <2>2 DEF Looks, CountsTo
  <2>5. Glances(o)'
    BY <2>1 DEF Glances
  <2> QED
    BY <2>1, <2>2, <2>3, <2>4, <2>5 DEF PatientInv, Midway
<1>6. CASE Knob!ReadSecond(o)
  <2>1. /\ UNCHANGED <<lines, patient, pending, turning, got, seen, prev, counter, exact>>
        /\ opening[o] = "read2" /\ opening'[o] = "keep2" /\ sampled'[o] = lines[2]
        /\ \A p \in Users \ {o} : opening'[p] = opening[p] /\ sampled'[p] = sampled[p]
    BY <1>2, <1>6 DEF Knob!ReadSecond, Knob!knob, Knob!handler, Knob!history
  <2>2. ~Knob!Settled' /\ (Knob!Handled' <=> Knob!Handled)
    BY <2>1 DEF Knob!Settled, Knob!Handled, Knob!Sampling
  <2>3. \A i \in Knob!Irqs : CountsTo(i)'
    BY <1>1, <1>3, <2>1 DEF PatientInv
  <2> QED
    BY <1>1, <2>1, <2>2, <2>3 DEF PatientInv, Midway, Looks, Glances
<1>7. CASE Knob!Keep(o)
  <2>1. /\ UNCHANGED <<lines, patient, pending, turning, counter, exact>> /\ Midway(o)
        /\ \A p \in Users \ {o} : opening'[p] = opening[p]
    BY <1>2, <1>7 DEF Knob!Keep, Knob!knob, Knob!handler, Knob!history, Midway
  <2>2. Knob!Handled /\ counter = exact /\ Glances(o) /\ patient
    BY <1>1, <2>1 DEF PatientInv
  <2>3. /\ pending' = {} /\ \A i \in Knob!Irqs : turning'[i] = "idle"
        /\ \A p \in Users \ {o} : ~Midway(p)'
    BY <1>1, <2>1, <2>2 DEF PatientInv, Knob!Handled, Midway
  <2>4. \A i \in Knob!Irqs : Looks(i)' /\ CountsTo(i)'
    BY <2>3 DEF Looks, CountsTo
  <2>5. Knob!Handled'
    BY <2>3 DEF Knob!Handled
  <2>6. CASE opening[o] = "keep1"
    <3>1. opening'[o] = "read2" /\ prev' = <<sampled[o], prev[2]>>
      BY <1>2, <1>7, <2>6 DEF Knob!Keep
    <3>2. Glances(o)' /\ ~Knob!Settled'
      BY <2>1, <2>2, <2>6, <3>1 DEF Glances, Knob!Settled, Knob!Sampling
    <3> QED
      BY <2>1, <2>2, <2>3, <2>4, <2>5, <3>2 DEF PatientInv, Midway
  <2>7. CASE opening[o] = "keep2"
    <3>1. opening'[o] = "away" /\ prev' = <<prev[1], sampled[o]>>
      BY <1>2, <1>7, <2>7 DEF Knob!Keep
    <3>2. prev' = <<lines[1], lines[2]>>
      BY <2>2, <2>7, <3>1 DEF Glances
    <3>3. lines = <<lines[1], lines[2]>>
      BY <1>2 DEF Knob!Lines
    <3>4. ~Midway(o)' /\ prev' = lines'
      BY <2>1, <3>1, <3>2, <3>3 DEF Midway
    <3> QED
      BY <2>1, <2>2, <2>3, <2>4, <3>4 DEF PatientInv, Midway
  <2> QED
    BY <1>7, <2>6, <2>7 DEF Knob!Keep
<1>8. ASSUME NEW i \in Knob!Irqs, Knob!Request(i) \/ Knob!Free(i) PROVE PatientInv'
  <2>1. UNCHANGED <<lines, patient, pending, turning, got, seen, opening, sampled, prev,
                    counter, exact>>
    BY <1>1, <1>8
    DEF Knob!Request, Knob!Free, Knob!knob, Knob!handler, Knob!my_open, Knob!history
  <2>2. (Knob!Settled' <=> Knob!Settled) /\ (Knob!Handled' <=> Knob!Handled)
    BY <2>1 DEF Knob!Settled, Knob!Handled, Knob!Sampling
  <2>3. \A j \in Knob!Irqs : CountsTo(j)'
    BY <1>1, <1>3, <2>1 DEF PatientInv
  <2> QED
    BY <1>1, <2>1, <2>2, <2>3 DEF PatientInv, Midway, Looks, Glances
<1> QED
  BY <1>4, <1>5, <1>6, <1>7, <1>8 DEF Knob!Use

LEMMA NextPatient ==
    ASSUME KnobInv, PatientInv, [Knob!Next]_(Knob!vars)
    PROVE  PatientInv'
<1>1. CASE UNCHANGED Knob!vars
  <2>1. UNCHANGED <<lines, patient, pending, turning, got, seen, opening, sampled, prev,
                    counter, exact>>
    BY <1>1 DEF Knob!vars
  <2>2. (Knob!Settled' <=> Knob!Settled) /\ (Knob!Handled' <=> Knob!Handled)
    BY <2>1 DEF Knob!Settled, Knob!Handled, Knob!Sampling
  <2>3. \A i \in Knob!Irqs : CountsTo(i) => CountsTo(i)'
    BY <2>1 DEF CountsTo, Knob!Decoded, Knob!Up, Knob!Down, Knob!Clockwise,
                Knob!Anticlockwise, Knob!Rest
  <2> QED
    BY <2>1, <2>2, <2>3 DEF PatientInv, Midway, Looks, Glances
<1>2. CASE Knob!Turn
  <2>1. SUFFICES ASSUME exact' # Knob!Unknown PROVE PatientInv'
    BY DEF PatientInv
  <2>2. /\ exact # Knob!Unknown /\ ~Knob!Sampling
        /\ exact' = Knob!Decoded(lines, lines', exact)
        /\ \E j \in Knob!Irqs : pending' = pending \cup {j}
    BY <1>2, <2>1 DEF Knob!Turn, Knob!Irqs
  <2>3. /\ Knob!Settled /\ patient
        /\ UNCHANGED <<patient, turning, got, seen, opening, prev, counter>>
    BY <1>2, <2>2
    DEF Knob!Turn, PatientInv, Knob!handler, Knob!my_open, Knob!Settled
  <2>4. counter = exact /\ prev = lines
    BY <2>2, <2>3 DEF PatientInv
  <2>5. PICK j \in Knob!Irqs : pending' = {j}
    BY <2>2, <2>3 DEF Knob!Settled, Knob!Handled
  <2>6. exact' = Knob!Decoded(prev, lines, counter)'
    BY <2>2, <2>3, <2>4 DEF Knob!Decoded, Knob!Up, Knob!Down, Knob!Clockwise,
                            Knob!Anticlockwise, Knob!Rest
  <2>7. /\ \A i \in Knob!Irqs : turning'[i] = "idle"
        /\ \A o \in Users : ~Midway(o)'
    BY <2>3 DEF Knob!Settled, Knob!Handled, Knob!Sampling, Midway
  <2>8. \A i \in Knob!Irqs : Looks(i)' /\ CountsTo(i)'
    BY <2>6, <2>7 DEF Looks, CountsTo
  <2> QED
    BY <2>3, <2>5, <2>7, <2>8 DEF PatientInv, Knob!Settled, Knob!Handled
<1>3. ASSUME NEW i \in Knob!Irqs, Knob!Handle(i) PROVE PatientInv'
  <2>1. SUFFICES ASSUME exact' # Knob!Unknown PROVE PatientInv'
    BY DEF PatientInv
  <2>2. exact # Knob!Unknown /\ patient /\ patient'
    BY <1>3, <2>1, HandleMoves DEF PatientInv
  <2>3. Looks(i) /\ CountsTo(i) /\ (i \in pending => turning[i] = "idle")
    BY <2>2 DEF PatientInv
  <2>4. i \in pending \/ turning[i] # "idle"
    BY <1>3, HandleMoves DEF Knob!Enter
  <2>5. /\ \A j \in Knob!Irqs \ {i} : j \notin pending /\ turning[j] = "idle"
        /\ \A o \in Users : ~Midway(o)
    BY <2>2, <2>4 DEF PatientInv, Knob!Handled
  <2>6. Looks(i)'
    BY <1>3, <2>3, LooksOn
  <2>7. /\ CountsTo(i)' /\ i \notin pending'
        /\ turning'[i] = "idle" => counter' = exact'
    BY <1>3, <2>3, CountsOn
  <2>8. pending' \subseteq pending
    BY <1>3, HandleMoves DEF Knob!Enter
  <2>9. /\ \A j \in Knob!Irqs \ {i} : j \notin pending' /\ turning'[j] = "idle"
        /\ \A o \in Users : ~Midway(o)'
    BY <1>3, <2>5, <2>8, HandleMoves DEF Midway
  <2>10. ASSUME turning'[i] = "idle" PROVE prev' = lines'
    <3>1. turning[i] # "idle"
      BY <1>3, <2>10, HandleMoves DEF Knob!Enter, KnobInv, Knob!TypeOK
    <3>2. prev' = lines
      BY <1>3, <2>3, <2>10, <3>1, RemembersWhatItSaw
    <3> QED
      BY <1>3, <3>2, HandleMoves
  <2>11. \A j \in Knob!Irqs : Looks(j)' /\ CountsTo(j)'
    BY <2>6, <2>7, <2>9 DEF Looks, CountsTo
  <2> QED
    BY <2>2, <2>7, <2>9, <2>10, <2>11 DEF PatientInv, Knob!Settled, Knob!Handled
<1> QED
  BY <1>1, <1>2, <1>3, UseIsPatient DEF Knob!Next

\* For any processes that open and close the device, any number of turns and any
\* limit of the count: a knob that waits for the driver before it turns on is
\* counted exactly from an opening at peace on, no edge lost and none counted by
\* both threads, also when other openings fail meanwhile: unless it turns while
\* somebody samples its lines or before both interrupts are requested
\* (rotary_encoder_vol/rotary_encoder.c, my_open and irq_handler).
THEOREM PatientKnobIsCounted == MCSpec => []PatientKnobCounted
<1>1. Knob!Init => PatientInv
  BY DEF Knob!Init, PatientInv
<1>2. PatientInv => PatientKnobCounted
  BY DEF PatientInv, PatientKnobCounted, Knob!PatientKnobCounted
<1> QED
  BY <1>1, <1>2, InitKnobInv, NextKnobInv, NextPatient, Parts, PTL DEF Knob!Spec

-----------------------------------------------------------------------------
(* The LEDs.                                                               *)

LedTypes ==
    /\ variant \in {"threads", "timer"}
    /\ stage \in 1 .. 9 /\ glance \in {0, 1}
    /\ levels \in Leds!Lines /\ before \in Leds!Lines
    /\ updating \in [Leds!Threads -> {"idle", "load", "set"}]
    /\ data = [t \in Leds!Threads |-> data[t]]
    /\ pin \in [Leds!Threads -> Leds!Pins]
    /\ leds = [p \in Leds!Pins |-> leds[p]]
    /\ armed \in BOOLEAN /\ twice \in BOOLEAN /\ blind \in BOOLEAN

\* An edge that was heard is still to be decoded.
Heard == awaited \cap {"s1", "s2"} # {} \/ (variant = "timer" /\ armed)

\* What the driver, or the opening that looks, does not know of the knob yet
\* is still to be decoded, unless it was not heard.
Noticed ==
    ~blind /\ ~Heard =>
        /\ Leds!At("keep1") => glance = levels[1]
        /\ Leds!At("read2") \/ Leds!At("keep2") => before[1] = levels[1]
        /\ Leds!At("keep2") => glance = levels[2]
        /\ ~Leds!Sampling => before = levels

\* The module under test has no timer running when it sets it up.
Fresh ==
    variant = "timer" /\ stage = 1 => listening = {} /\ awaited = {} /\ ~armed

\* In the module under test the callback alone updates the LEDs.
OnlyTimer == variant = "timer" => updating["s1"] = "idle" /\ updating["s2"] = "idle"

\* One thread at most is at it, which has set the LEDs below its pin.
Sets(t) ==
    updating[t] = "set" =>
        /\ data[t] = Leds!LedData
        /\ \A p \in 0 .. pin[t] - 1 : leds[p] = Leds!LedData[p]
OneUpdates ==
    variant = "timer" \/ ~twice =>
        /\ \A t, u \in Leds!Threads : updating[t] # "idle" /\ updating[u] # "idle" => t = u
        /\ \A t \in Leds!Threads : Sets(t)
        /\ updated /\ Leds!Idle => leds = Leds!LedData

LedInv == LedTypes /\ Noticed /\ Fresh /\ OnlyTimer /\ OneUpdates

\* Where in the opening the lines are sampled.
First == IF variant = "threads" THEN 1 ELSE 5

LEMMA OpeningPlaces ==
    ASSUME NEW v \in {"threads", "timer"}, NEW n \in 1 .. 8
    PROVE  /\ Leds!Opening(v)[n] \in {"read1", "keep1", "read2", "keep2", "setup", "s1", "s2",
                                      "key"}
           /\ Leds!Opening(v)[n] = "read1" <=> n = IF v = "threads" THEN 1 ELSE 5
           /\ Leds!Opening(v)[n] = "keep1" <=> n = IF v = "threads" THEN 2 ELSE 6
           /\ Leds!Opening(v)[n] = "read2" <=> n = IF v = "threads" THEN 3 ELSE 7
           /\ Leds!Opening(v)[n] = "keep2" <=> n = IF v = "threads" THEN 4 ELSE 8
           /\ Leds!Opening(v)[n] = "setup" <=> n = IF v = "threads" THEN 5 ELSE 1
<1>1. CASE v = "threads"
  BY <1>1 DEF Leds!Opening
<1>2. CASE v = "timer"
  BY <1>2 DEF Leds!Opening
<1> QED
  BY <1>1, <1>2

\* The same of this state and of the next.
Placed ==
    /\ Leds!At("read1") <=> stage = First
    /\ Leds!At("keep1") <=> stage = First + 1
    /\ Leds!At("read2") <=> stage = First + 2
    /\ Leds!At("keep2") <=> stage = First + 3
    /\ Leds!Sampling <=> stage \in First + 1 .. First + 3
    /\ Leds!At("setup") <=> stage = IF variant = "threads" THEN 5 ELSE 1
    /\ \A e \in Leds!Edges :
          Leds!At(e) => IF variant = "threads" THEN stage \in 6 .. 8 ELSE stage \in 2 .. 4

LEMMA Stages == LedTypes => Placed
<1> SUFFICES ASSUME LedTypes PROVE Placed
  OBVIOUS
<1>1. variant \in {"threads", "timer"} /\ stage \in 1 .. 9
  BY DEF LedTypes
<1>2. stage \in 1 .. 8 \/ stage = 9
  BY <1>1
<1>3. CASE stage = 9
  BY <1>1, <1>3 DEF Placed, Leds!At, Leds!Sampling, First
<1>4. CASE stage \in 1 .. 8
  <2>1. /\ Leds!At("read1") <=> stage = First
        /\ Leds!At("keep1") <=> stage = First + 1
        /\ Leds!At("read2") <=> stage = First + 2
        /\ Leds!At("keep2") <=> stage = First + 3
        /\ Leds!At("setup") <=> stage = IF variant = "threads" THEN 5 ELSE 1
    BY <1>1, <1>4, OpeningPlaces DEF Leds!At, First
  <2>2. Leds!Sampling <=> stage \in First + 1 .. First + 3
    BY <1>1, <2>1 DEF Leds!Sampling, First
  <2>3. ASSUME NEW e \in Leds!Edges, Leds!At(e)
        PROVE  IF variant = "threads" THEN stage \in 6 .. 8 ELSE stage \in 2 .. 4
    <3>1. ~Leds!At("read1") /\ ~Leds!At("keep1") /\ ~Leds!At("read2") /\ ~Leds!At("keep2")
          /\ ~Leds!At("setup")
      BY <2>3 DEF Leds!At, Leds!Edges
    <3> QED
      BY <1>1, <1>4, <2>1, <3>1 DEF First
  <2> QED
    BY <2>1, <2>2, <2>3 DEF Placed
<1> QED
  BY <1>2, <1>3, <1>4

LEMMA StagesNext == LedTypes' => Placed'
BY Stages, PTL

LEMMA InitLedInv == Leds!Init => LedInv
<1> SUFFICES ASSUME Leds!Init PROVE LedInv
  OBVIOUS
<1>1. CountPins \in Nat
  BY PanelAssumption DEF Leds!PinsAssumption
<1>2. LedTypes
  <2>1. 0 \in Leds!Pins
    BY <1>1 DEF Leds!Pins
  <2>2. pin \in [Leds!Threads -> Leds!Pins]
    BY <2>1 DEF Leds!Init
  <2>3. leds = [p \in Leds!Pins |-> leds[p]]
    BY DEF Leds!Init
  <2>4. data = [t \in Leds!Threads |-> data[t]]
    <3> DEFINE off == [p \in Leds!Pins |-> 0]
    <3>1. data = [t \in Leds!Threads |-> off]
      BY DEF Leds!Init
    <3> HIDE DEF off
    <3> QED
      BY <3>1
  <2>5. updating \in [Leds!Threads -> {"idle", "load", "set"}]
    BY DEF Leds!Init
  <2>6. /\ variant \in {"threads", "timer"} /\ stage \in 1 .. 9
        /\ glance \in {0, 1} /\ armed = FALSE /\ twice = FALSE /\ blind = TRUE
    BY DEF Leds!Init
  <2>7. levels \in Leds!Lines /\ before \in Leds!Lines
    BY DEF Leds!Init
  <2> QED
    BY <2>2, <2>3, <2>4, <2>5, <2>6, <2>7 DEF LedTypes
<1>3. Noticed /\ Fresh /\ OnlyTimer
  BY DEF Leds!Init, Noticed, Fresh, OnlyTimer, Leds!Threads
<1>4. OneUpdates
  BY DEF Leds!Init, OneUpdates, Sets
<1> QED
  BY <1>2, <1>3, <1>4 DEF LedInv

\* irq_handler of the driver, debounce_timer_callback: whoever starts updates
\* the LEDs from the first on.
LEMMA BeginUpdates ==
    ASSUME LedInv, NEW t \in Leds!Threads, Leds!Begin(t),
           UNCHANGED <<variant, stage, glance, levels, data, pin, leds>>, armed' \in BOOLEAN,
           before' \in Leds!Lines, blind' \in BOOLEAN,
           variant = "timer" => t = "timer"
    PROVE  LedTypes' /\ OnlyTimer' /\ OneUpdates'
<1>1. /\ updating[t] = "idle" /\ updating' = [updating EXCEPT ![t] = "load"]
      /\ twice' = (twice \/ ~Leds!Idle)
  BY DEF Leds!Begin
<1>2. LedTypes'
  BY <1>1 DEF LedInv, LedTypes
<1>3. updating'[t] = "load" /\ \A u \in Leds!Threads \ {t} : updating'[u] = updating[u]
  BY <1>1 DEF LedInv, LedTypes
<1>4. OnlyTimer'
  BY <1>3 DEF LedInv, OnlyTimer, Leds!Threads
<1>5. ASSUME variant' = "timer" \/ ~twice' PROVE Leds!Idle
  <2>1. CASE variant = "timer"
    BY <1>1, <2>1 DEF LedInv, OnlyTimer, Leds!Idle, Leds!Threads
  <2>2. CASE ~twice'
    BY <1>1, <2>2
  <2> QED
    BY <1>5, <2>1, <2>2
<1>6. OneUpdates'
  <2>1. SUFFICES ASSUME variant' = "timer" \/ ~twice' PROVE OneUpdates'
    BY DEF OneUpdates
  <2>2. \A u \in Leds!Threads \ {t} : updating'[u] = "idle"
    BY <1>3, <1>5, <2>1 DEF Leds!Idle
  <2>3. \A u \in Leds!Threads : Sets(u)'
    BY <1>3, <2>2 DEF Sets
  <2>4. ~Leds!Idle'
    BY <1>3 DEF Leds!Idle
  <2> QED
    BY <2>2, <2>3, <2>4 DEF OneUpdates
<1> QED
  BY <1>2, <1>4, <1>6

\* A step that touches neither the LEDs, nor what they show, nor the threads.
LEMMA LedsAside ==
    ASSUME LedInv, armed' \in BOOLEAN, blind' \in BOOLEAN, stage' \in 1 .. 9,
           glance' \in {0, 1}, levels' \in Leds!Lines, before' \in Leds!Lines,
           UNCHANGED <<variant, updating, data, pin, leds, count, direction, toggle,
                       updated, twice>>
    PROVE  LedTypes' /\ OnlyTimer' /\ OneUpdates'
<1>1. Leds!LedData' = Leds!LedData
  BY DEF Leds!LedData
<1>2. LedTypes' /\ OnlyTimer'
  BY DEF LedInv, LedTypes, OnlyTimer
<1>3. \A t \in Leds!Threads : Sets(t) => Sets(t)'
  BY <1>1 DEF Sets
<1>4. OneUpdates'
  BY <1>1, <1>3 DEF LedInv, OneUpdates, Leds!Idle
<1> QED
  BY <1>2, <1>4

\* update_led.
LEMMA UpdateLeds ==
    ASSUME LedInv, NEW t \in Leds!Threads, Leds!LoadLeds(t) \/ Leds!SetPin(t)
    PROVE  LedInv'
<1>1. UNCHANGED <<variant, stage, listening, glance, levels, awaited, armed, before,
                   count, direction, toggle, twice, blind>>
  BY DEF Leds!LoadLeds, Leds!SetPin, Leds!input, Leds!opening, Leds!globals
<1>2. Noticed' /\ Fresh'
  BY <1>1 DEF LedInv, Noticed, Heard, Fresh, Leds!At, Leds!Sampling
<1>3. Leds!LedData' = Leds!LedData
  BY <1>1 DEF Leds!LedData
<1>4. CountPins \in Nat
  BY PanelAssumption DEF Leds!PinsAssumption
<1>5. updating[t] # "idle" /\ \A u \in Leds!Threads \ {t} : updating'[u] = updating[u]
  BY DEF LedInv, LedTypes, Leds!LoadLeds, Leds!SetPin
<1>6. OnlyTimer'
  BY <1>1, <1>5 DEF LedInv, OnlyTimer, Leds!Threads
<1>7. ASSUME variant' = "timer" \/ ~twice', NEW u \in Leds!Threads \ {t}
      PROVE  updating'[u] = "idle"
  BY <1>1, <1>5, <1>7 DEF LedInv, OneUpdates
<1>8. CASE Leds!LoadLeds(t)
  <2>1. /\ updating' = [updating EXCEPT ![t] = "set"] /\ pin' = [pin EXCEPT ![t] = 0]
        /\ data' = [data EXCEPT ![t] = Leds!LedData] /\ UNCHANGED leds
    BY <1>8 DEF Leds!LoadLeds
  <2>2. LedTypes'
    <3>1. 0 \in Leds!Pins
      BY <1>4 DEF Leds!Pins
    <3>2. pin' \in [Leds!Threads -> Leds!Pins]
      BY <2>1, <3>1 DEF LedInv, LedTypes
    <3>3. data' = [u \in Leds!Threads |-> data'[u]]
      BY <2>1, Zenon DEF LedInv, LedTypes
    <3>4. updating' \in [Leds!Threads -> {"idle", "load", "set"}]
      BY <2>1 DEF LedInv, LedTypes
    <3> QED
      BY <1>1, <2>1, <3>2, <3>3, <3>4 DEF LedInv, LedTypes
  <2>3. updating'[t] = "set" /\ data'[t] = Leds!LedData /\ pin'[t] = 0
    <3>1. DOMAIN data = Leds!Threads
      BY DEF LedInv, LedTypes
    <3> QED
      BY <2>1, <3>1 DEF LedInv, LedTypes
  <2>4. Sets(t)'
    BY <1>3, <2>3 DEF Sets
  <2>5. OneUpdates'
    BY <1>7, <2>3, <2>4 DEF OneUpdates, Sets, Leds!Idle
  <2> QED
    BY <1>2, <1>6, <2>2, <2>5 DEF LedInv
<1>9. CASE Leds!SetPin(t)
  <2>1. /\ updating[t] = "set" /\ UNCHANGED <<data, updated>>
        /\ leds' = [leds EXCEPT ![pin[t]] = data[t][pin[t]]]
        /\ \/ /\ pin[t] < CountPins + 2
              /\ pin' = [pin EXCEPT ![t] = @ + 1] /\ UNCHANGED updating
           \/ /\ ~(pin[t] < CountPins + 2)
              /\ updating' = [updating EXCEPT ![t] = "idle"] /\ UNCHANGED pin
    BY <1>9 DEF Leds!SetPin
  <2>2. pin[t] \in Nat /\ pin[t] \in 0 .. CountPins + 2 /\ pin[t] \in Leds!Pins
    BY <1>4 DEF LedInv, LedTypes, Leds!Pins
  <2>3. LedTypes'
    <3>1. pin' \in [Leds!Threads -> Leds!Pins]
      <4>1. pin[t] < CountPins + 2 => pin[t] + 1 \in Leds!Pins
        BY <1>4, <2>2 DEF Leds!Pins
      <4> QED
        BY <2>1, <4>1 DEF LedInv, LedTypes
    <3>2. updating' \in [Leds!Threads -> {"idle", "load", "set"}]
      BY <2>1 DEF LedInv, LedTypes
    <3>3. leds' = [p \in Leds!Pins |-> leds'[p]]
      BY <2>1, Zenon DEF LedInv, LedTypes
    <3> QED
      BY <1>1, <2>1, <3>1, <3>2, <3>3 DEF LedInv, LedTypes
  <2>4. SUFFICES ASSUME variant' = "timer" \/ ~twice' PROVE OneUpdates'
    BY <1>2, <1>6, <2>3 DEF LedInv, OneUpdates
  <2>5. data[t] = Leds!LedData /\ \A p \in 0 .. pin[t] - 1 : leds[p] = Leds!LedData[p]
    BY <1>1, <2>1, <2>4 DEF LedInv, OneUpdates, Sets
  <2>6. \A p \in 0 .. pin[t] : leds'[p] = Leds!LedData'[p]
    <3>1. DOMAIN leds = 0 .. CountPins + 2
      BY DEF LedInv, LedTypes, Leds!Pins
    <3>2. \A p \in 0 .. CountPins + 2 :
             leds'[p] = IF p = pin[t] THEN Leds!LedData[p] ELSE leds[p]
      BY <2>1, <2>5, <3>1
    <3>3. ASSUME NEW p \in 0 .. pin[t]
          PROVE  p \in 0 .. CountPins + 2 /\ (p = pin[t] \/ p \in 0 .. pin[t] - 1)
      BY <2>2, <1>4
    <3> QED
      BY <1>3, <2>5, <3>2, <3>3
  <2>7. CASE /\ pin[t] < CountPins + 2
             /\ pin' = [pin EXCEPT ![t] = @ + 1] /\ UNCHANGED updating
    <3>1. pin'[t] - 1 = pin[t]
      BY <2>2, <2>7 DEF LedInv, LedTypes
    <3>2. Sets(t)'
      BY <1>3, <2>1, <2>5, <2>6, <3>1 DEF Sets
    <3> QED
      BY <1>7, <2>1, <2>4, <2>7, <3>2 DEF OneUpdates, Sets, Leds!Idle
  <2>8. CASE ~(pin[t] < CountPins + 2) /\ updating' = [updating EXCEPT ![t] = "idle"]
    <3>1. updating'[t] = "idle"
      BY <2>8 DEF LedInv, LedTypes
    <3>2. \A p \in Leds!Pins : leds'[p] = Leds!LedData'[p]
      BY <1>4, <2>2, <2>6, <2>8 DEF Leds!Pins
    <3>3. leds' = Leds!LedData'
      BY <2>3, <3>2 DEF LedTypes, Leds!LedData
    <3> QED
      BY <1>7, <2>4, <3>1, <3>3 DEF OneUpdates, Sets
  <2> QED
    BY <2>1, <2>7, <2>8
<1> QED
  BY <1>8, <1>9

\* my_open of the driver, and loading the module under test.
LEMMA LedsOpen ==
    ASSUME LedInv, \/ Leds!Read \/ Leds!Keep \/ Leds!SetupTimer \/ Leds!Reopen
                   \/ \E e \in Leds!Edges : Leds!Request(e)
    PROVE  LedInv'
<1>1. /\ LedTypes /\ levels[1] \in {0, 1} /\ levels[2] \in {0, 1}
      /\ levels = <<levels[1], levels[2]>>
      /\ stage \in 1 .. 9 /\ First \in {1, 5}
  BY DEF LedInv, LedTypes, Leds!Lines, First
<1>2. First' = First
  BY DEF Leds!Read, Leds!Keep, Leds!SetupTimer, Leds!Reopen, Leds!Request, Leds!input, First
<1>3. CASE Leds!Read
  <2>1. /\ stage' = stage + 1
        /\ \/ Leds!At("read1") /\ glance' = levels[1] /\ blind' = ~Leds!Idle
           \/ Leds!At("read2") /\ glance' = levels[2] /\ blind' = blind
        /\ UNCHANGED <<variant, levels, awaited, armed, updating, data, pin, before, count,
                       direction, toggle, leds, updated, twice>>
    BY <1>3 DEF Leds!Read, Leds!input, Leds!update, Leds!globals
  <2>2. blind' \in BOOLEAN
    BY <1>1, <2>1, Zenon DEF LedTypes
  <2>3. stage' \in 1 .. 9 /\ stage' # 1
    BY <1>1, <2>1, Stages DEF Placed
  <2>4. LedTypes' /\ OnlyTimer' /\ OneUpdates'
    BY <1>1, <2>1, <2>2, <2>3, LedsAside DEF LedInv, LedTypes
  <2>5. Heard' <=> Heard
    BY <2>1 DEF Heard
  <2>6. CASE Leds!At("read1")
    <3>1. stage' = First + 1 /\ glance' = levels[1]
      BY <1>1, <2>1, <2>6, Stages DEF Placed
    <3> QED
      BY <1>1, <1>2, <2>1, <2>3, <2>4, <3>1, Stages, StagesNext
      DEF Placed, LedInv, Noticed, Fresh
  <2>7. CASE Leds!At("read2")
    <3>1. stage' = First + 3 /\ glance' = levels[2] /\ blind' = blind
      BY <1>1, <2>1, <2>7, Stages DEF Placed
    <3> QED
      BY <1>1, <1>2, <2>1, <2>3, <2>4, <2>5, <2>7, <3>1, Stages, StagesNext
      DEF Placed, LedInv, Noticed, Fresh
  <2> QED
    BY <2>1, <2>6, <2>7
<1>4. CASE Leds!Keep
  <2>1. /\ stage' = stage + 1
        /\ \/ Leds!At("keep1") /\ before' = <<glance, before[2]>>
           \/ Leds!At("keep2") /\ before' = <<before[1], glance>>
        /\ UNCHANGED <<variant, levels, awaited, armed, updating, data, pin, count,
                       direction, toggle, leds, updated, twice, blind>>
    BY <1>4 DEF Leds!Keep, Leds!input, Leds!update
  <2>2. stage' \in 1 .. 9 /\ stage' # 1
    BY <1>1, <2>1, Stages DEF Placed
  <2>3. before' \in Leds!Lines /\ glance' \in {0, 1}
    BY <1>4 DEF Leds!Keep, LedInv, LedTypes, Leds!Lines
  <2>4. LedTypes' /\ OnlyTimer' /\ OneUpdates'
    BY <1>1, <2>1, <2>2, <2>3, LedsAside DEF LedInv, LedTypes
  <2>5. Heard' <=> Heard
    BY <2>1 DEF Heard
  <2>6. CASE Leds!At("keep1")
    <3>1. stage' = First + 2 /\ before' = <<glance, before[2]>>
      BY <1>1, <2>1, <2>6, Stages DEF Placed
    <3> QED
      BY <1>1, <1>2, <2>1, <2>2, <2>4, <2>5, <2>6, <3>1, Stages, StagesNext
      DEF Placed, LedInv, Noticed, Fresh
  <2>7. CASE Leds!At("keep2")
    <3>1. stage' = First + 4 /\ before' = <<before[1], glance>>
      BY <1>1, <2>1, <2>7, Stages DEF Placed
    <3> QED
      BY <1>1, <1>2, <2>1, <2>2, <2>4, <2>5, <2>7, <3>1, Stages, StagesNext
      DEF Placed, LedInv, Noticed, Fresh
  <2> QED
    BY <2>1, <2>6, <2>7
<1>5. CASE Leds!SetupTimer \/ Leds!Reopen \/ \E e \in Leds!Edges : Leds!Request(e)
  <2>1. /\ UNCHANGED <<variant, glance, levels, awaited, updating, data, pin, before, count,
                       direction, toggle, leds, updated, twice, blind>>
        /\ armed' \in {armed, FALSE}
    BY <1>5 DEF Leds!SetupTimer, Leds!Reopen, Leds!Request, Leds!input, Leds!update, Leds!globals
  <2>2. /\ stage' \in 1 .. 9 /\ (variant = "timer" => stage' # 1)
        /\ ~(stage \in First + 1 .. First + 3) /\ ~(stage' \in First + 1 .. First + 3)
    <3>1. CASE Leds!Reopen
      BY <1>1, <3>1 DEF Leds!Reopen, First
    <3>2. CASE Leds!SetupTimer
      BY <1>1, <3>2, Stages DEF Placed, Leds!SetupTimer, First
    <3>3. CASE \E e \in Leds!Edges : Leds!Request(e)
      <4>1. stage' = stage + 1 /\ \E e \in Leds!Edges : Leds!At(e)
        BY <3>3 DEF Leds!Request
      <4> QED
        BY <1>1, <4>1, Stages DEF Placed, First
    <3> QED
      BY <1>5, <3>1, <3>2, <3>3
  <2>3. LedTypes' /\ OnlyTimer' /\ OneUpdates'
    BY <1>1, <2>1, <2>2, LedsAside DEF LedInv, LedTypes
  <2>4. Heard' <=> Heard
    <3>1. CASE Leds!SetupTimer /\ variant = "timer"
      BY <1>1, <2>1, <3>1, Stages DEF Placed, LedInv, Fresh, Heard, Leds!SetupTimer
    <3>2. CASE variant # "timer"
      BY <2>1, <3>2 DEF Heard
    <3>3. CASE ~Leds!SetupTimer
      BY <1>5, <2>1, <3>3 DEF Heard, Leds!Reopen, Leds!Request
    <3> QED
      BY <3>1, <3>2, <3>3
  <2>5. ~Leds!Sampling /\ ~Leds!Sampling'
    BY <1>1, <1>2, <2>2, <2>3, Stages, StagesNext DEF Placed
  <2> QED
    BY <2>1, <2>2, <2>3, <2>4, <2>5 DEF LedInv, Noticed, Fresh, Leds!Sampling
<1> QED
  BY <1>3, <1>4, <1>5

LEMMA NextLedInv == ASSUME LedInv, [Leds!Next]_(Leds!vars) PROVE LedInv'
<1>1. CASE UNCHANGED Leds!vars
  BY <1>1, LedsAside
  DEF Leds!vars, LedInv, LedTypes, Noticed, Heard, Fresh, Leds!At, Leds!Sampling
<1>2. CASE Leds!Turn
  <2>1. PICK k \in 1 .. 2 :
          LET line == <<"s1", "s2">>[k]
          IN  /\ levels' = [levels EXCEPT ![k] = 1 - @]
              /\ awaited' = awaited \cup ({line} \cap listening)
              /\ blind' = (blind \/ line \notin listening)
    BY <1>2 DEF Leds!Turn
  <2>2. <<"s1", "s2">>[k] \in {"s1", "s2"}
    OBVIOUS
  <2>3. blind' \/ awaited' \cap {"s1", "s2"} # {}
    <3>1. CASE <<"s1", "s2">>[k] \in listening
      BY <2>1, <2>2, <3>1
    <3>2. CASE <<"s1", "s2">>[k] \notin listening
      BY <2>1, <3>2, Zenon
    <3> QED
      BY <3>1, <3>2
  <2>4. listening = {} /\ awaited = {} => awaited' = {}
    BY <2>1
  <2>5. levels' \in Leds!Lines /\ blind' \in BOOLEAN
    <3>1. levels[1] \in {0, 1} /\ levels[2] \in {0, 1} /\ levels \in {0, 1} \X {0, 1}
      BY DEF LedInv, LedTypes, Leds!Lines
    <3>2. levels' \in {<<1 - levels[1], levels[2]>>, <<levels[1], 1 - levels[2]>>}
      BY <2>1, <3>1
    <3>3. 1 - levels[1] \in {0, 1} /\ 1 - levels[2] \in {0, 1}
      BY <3>1
    <3>4. blind' \in BOOLEAN
      BY <2>1, Zenon
    <3> QED
      BY <3>1, <3>2, <3>3, <3>4 DEF Leds!Lines
  <2> QED
    BY <1>2, <2>3, <2>4, <2>5, LedsAside
    DEF Leds!Turn, Leds!opening, Leds!update, Leds!globals, LedInv, LedTypes, Noticed,
        Heard, Fresh
<1>3. CASE Leds!PressOrLetGo
  <2>1. /\ awaited \subseteq awaited' /\ (listening = {} => awaited' = awaited)
        /\ UNCHANGED <<variant, stage, listening, glance, levels, before, armed, blind>>
    BY <1>3 DEF Leds!PressOrLetGo, Leds!opening, Leds!globals
  <2>2. Noticed' /\ Fresh'
    BY <2>1 DEF LedInv, Noticed, Heard, Fresh, Leds!At, Leds!Sampling
  <2> QED
    BY <1>3, <2>1, <2>2, LedsAside
    DEF Leds!PressOrLetGo, Leds!update, Leds!globals, LedInv, LedTypes
<1>4. ASSUME NEW e \in Leds!Edges, Leds!StartTimer(e) PROVE LedInv'
  <2>1. /\ e \in awaited /\ (e = "key" \/ variant = "timer")
        /\ awaited' = awaited \ {e} /\ armed' = TRUE
        /\ UNCHANGED <<variant, stage, listening, glance, levels, before, blind>>
    BY <1>4 DEF Leds!StartTimer, Leds!input, Leds!opening, Leds!globals
  <2>2. Heard => Heard'
    BY <2>1 DEF Heard
  <2>3. Noticed' /\ Fresh'
    BY <1>4, <2>1, <2>2 DEF LedInv, Noticed, Fresh, Leds!StartTimer, Leds!At, Leds!Sampling
  <2> QED
    BY <1>4, <2>1, <2>3, LedsAside
    DEF Leds!StartTimer, Leds!input, Leds!update, Leds!globals, LedInv, LedTypes
<1>5. ASSUME NEW t \in Leds!Threads, Leds!HandleLine(t) PROVE LedInv'
  <2>1. /\ variant = "threads" /\ Leds!Begin(t) /\ before' = levels /\ blind' = Leds!Sampling
        /\ UNCHANGED <<variant, stage, listening, glance, levels, data, pin, leds, armed>>
    BY <1>5 DEF Leds!HandleLine, Leds!Decode, Leds!input, Leds!opening, Leds!update
  <2>2. Noticed' /\ Fresh'
    BY <2>1 DEF Noticed, Fresh, Leds!At, Leds!Sampling
  <2>3. blind' \in BOOLEAN
    BY <2>1, Zenon DEF Leds!Sampling, Leds!At
  <2> QED
    BY <2>1, <2>2, <2>3, BeginUpdates DEF LedInv, LedTypes
<1>6. CASE Leds!Expire
  <2>1. /\ armed /\ armed' = FALSE /\ Leds!Begin("timer")
        /\ variant = "timer" => before' = levels /\ blind' = Leds!Sampling
        /\ variant # "timer" => before' = before /\ blind' = blind
        /\ UNCHANGED <<variant, stage, listening, glance, levels, awaited, data, pin, leds>>
    BY <1>6 DEF Leds!Expire, Leds!Decode, Leds!input, Leds!opening, Leds!update
  <2>2. Fresh'
    BY <2>1 DEF LedInv, Fresh
  <2>3. Noticed'
    <3>1. CASE variant = "timer"
      BY <2>1, <3>1 DEF Noticed, Leds!At, Leds!Sampling
    <3>2. CASE variant # "timer"
      BY <2>1, <3>2 DEF LedInv, Noticed, Heard, Leds!At, Leds!Sampling
    <3> QED
      BY <3>1, <3>2
  <2>4. before' \in Leds!Lines /\ blind' \in BOOLEAN
    <3>1. Leds!Sampling \in BOOLEAN
      BY Zenon DEF Leds!Sampling, Leds!At
    <3> QED
      BY <2>1, <3>1 DEF LedInv, LedTypes
  <2>5. "timer" \in Leds!Threads
    BY DEF Leds!Threads
  <2> QED
    BY <2>1, <2>2, <2>3, <2>4, <2>5, BeginUpdates DEF LedInv
<1> QED
  BY <1>1, <1>2, <1>3, <1>4, <1>5, <1>6, LedsOpen, UpdateLeds DEF Leds!Next

\* For any number of counter pins and edges: once every edge has been handled
\* the LEDs show what the driver knows, unless two of its threads have updated
\* them at once, and it knows where the knob is, unless since the last look an
\* edge was not heard or an opening has met a handler (rotary_encoder.c, my_open,
\* irq_handler and update_led; rotary_test.c).
THEOREM LedsHaveCaughtUp == MCSpec => []LedsCatchUp
<1>1. LedInv => LedsCatchUp
  BY DEF LedInv, LedTypes, Noticed, Heard, OneUpdates, LedsCatchUp, Leds!LedsCatchUp,
         Leds!Settled
<1> QED
  BY <1>1, InitLedInv, NextLedInv, Parts, PTL DEF Leds!Spec

-----------------------------------------------------------------------------
(* The display: OledDriver_proofs is about the same driver.                *)

Screen == INSTANCE OledDriver_proofs WITH pc <- drawing

LEMMA SameDisplay ==
    /\ Oled!Init <=> Screen!Init
    /\ Oled!Next <=> Screen!Next
    /\ Oled!vars = Screen!vars
<1>1. Oled!Init <=> Screen!Init
  BY DEF Oled!Init, Oled!Whole, Oled!Blank, Oled!Field,
         Screen!Init, Screen!Whole, Screen!Blank, Screen!Field
<1>2. ASSUME NEW w PROVE Oled!Write(w) <=> Screen!Write(w)
  BY DEF Oled!Write, Oled!Idle, Oled!Field, Oled!Goto, Oled!display,
         Screen!Write, Screen!Idle, Screen!Field, Screen!Goto, Screen!display
<1>3. ASSUME NEW w PROVE Oled!Draw(w) <=> Screen!Draw(w)
  BY DEF Oled!Draw, Oled!Clear, Oled!Load, Oled!Store, Oled!Copy, Oled!Command,
         Oled!Data, Oled!Goto, Oled!display, Oled!history, Oled!Blank, Oled!Field,
         Oled!Received, Oled!Window, Oled!Whole,
         Screen!Draw, Screen!Clear, Screen!Load, Screen!Store, Screen!Copy,
         Screen!Command, Screen!Data, Screen!Goto, Screen!display, Screen!history,
         Screen!Blank, Screen!Field, Screen!Received, Screen!Window, Screen!Whole
<1>4. Oled!vars = Screen!vars
  BY DEF Oled!vars, Screen!vars
<1> QED
  BY <1>1, <1>2, <1>3, <1>4 DEF Oled!Next, Screen!Next

LEMMA ShownOnScreen == MCSpec => Screen!Spec
<1>1. Oled!Init => Screen!Init
  BY SameDisplay
<1>2. [Oled!Next]_(Oled!vars) => [Screen!Next]_(Screen!vars)
  BY SameDisplay DEF Oled!vars, Screen!vars
<1> QED
  BY <1>1, <1>2, Parts, PTL DEF Oled!Spec, Screen!Spec

LEMMA ScreensFields == Screen!FieldsAssumption
BY PanelAssumption DEF Oled!FieldsAssumption, Screen!FieldsAssumption

\* However writes to the display overlap, no picture that is sent has ink of a
\* write that was over before (oled.c, update_display and oled_flush_buffer).
THEOREM NoGhostsSeen == MCSpec => []NoGhosts
<1>1. Screen!Spec => []Screen!NoGhosts
  BY ScreensFields, Screen!NoGhostIsSent
<1>2. Screen!NoGhosts => NoGhosts
  BY DEF NoGhosts, Oled!NoGhosts, Screen!NoGhosts, Oled!Field, Screen!Field
<1> QED
  BY <1>1, <1>2, ShownOnScreen, PTL

\* While writes come one at a time and nothing fails, the display at rest shows
\* what the last one was given (oled.c, mp3_oled_write).
THEOREM LastWriteIsShown == MCSpec => []SerialPicture
<1>1. Screen!Spec => []Screen!SerialPicture
  BY ScreensFields, Screen!LastPictureIsShown
<1>2. Screen!SerialPicture => SerialPicture
  BY DEF SerialPicture, Oled!SerialPicture, Screen!SerialPicture, Oled!Idle, Screen!Idle
<1> QED
  BY <1>1, <1>2, ShownOnScreen, PTL

LEMMA SameLayout == Screen!FieldsApart => Oled!FieldsApart
<1>1. \A x, y, w, h : Oled!Box(x, y, w, h) = Screen!Box(x, y, w, h)
  BY DEF Oled!Box, Screen!Box
<1>2. \A x, y, n : Oled!Text(x, y, n) = Screen!Text(x, y, n)
  BY <1>1, Zenon DEF Oled!Text, Screen!Text
<1>3. \A level : Oled!Bars(level) = Screen!Bars(level)
  BY DEF Oled!Bars, Screen!Bars, Oled!Box, Screen!Box
<1>4. Oled!SpectrumBars = Screen!SpectrumBars
  BY DEF Oled!SpectrumBars, Screen!SpectrumBars, Oled!Box, Screen!Box
<1>5. \A n : Oled!TitleAt(n) = Screen!TitleAt(n)
  BY Zenon DEF Oled!TitleAt, Screen!TitleAt
<1>6. \A n : Oled!TrackNumber(n) = Screen!TrackNumber(n)
  BY <1>2, Zenon DEF Oled!TrackNumber, Screen!TrackNumber
<1>7. \A level, title, track :
         Oled!Layout(level, title, track) = Screen!Layout(level, title, track)
  BY <1>1, <1>2, <1>3, <1>4, <1>5, <1>6, Zenon DEF Oled!Layout, Screen!Layout
<1>8. \A a, b : Oled!Apart(a, b) <=> Screen!Apart(a, b)
  BY Zenon DEF Oled!Apart, Screen!Apart
<1>9. \A a : Oled!Cut(a) = Screen!Cut(a)
  BY Zenon DEF Oled!Cut, Screen!Cut
<1> QED
  BY <1>4, <1>6, <1>7, <1>8, <1>9, Zenon
  DEF Oled!FieldsApart, Screen!FieldsApart, Oled!TrackLengths, Screen!TrackLengths

\* The fields of the screen never cover each other, for every title and however
\* long the track is, and no field but the track, when it is longer than six
\* characters, loses more than a column (oled.c, update_display).
THEOREM FieldsStayApart == MCSpec => []FieldsApart
<1>1. FieldsApart
  BY SameLayout, Screen!LayoutFits DEF FieldsApart
<1> QED
  BY <1>1, PTL

-----------------------------------------------------------------------------
(* Loading the modules.                                                    *)

\* What a module has asked for before its k-th claim.
Asked(m, k) == {Loading!InitOf[m][j].of : j \in 1 .. k - 1}

\* Of that, it has all but a device that was not created, and the adapter,
\* which it has given back.
Accounted(k) ==
    /\ claimed \subseteq Asked(module, k) \ {Loading!Adapter}
    /\ Asked(module, k) \ {Loading!Adapter, Loading!Device} \subseteq claimed

LoadInv ==
    /\ module \in Modules
    /\ state \in {"loading", "in"} => claim \in 1 .. Len(Loading!InitOf[module]) + 1
    /\ state = "in" => claim > Len(Loading!InitOf[module])
    /\ state \in {"loading", "in"} => Accounted(claim)
    /\ state = "out" => claimed = {}
    /\ ~stray

\* Whatever a claim that fails undoes is what was asked for before it, and
\* what unloading releases is all of it.
UndoesAll(m) ==
    /\ Len(Loading!InitOf[m]) \in Nat
    /\ \A i \in 1 .. Len(Loading!InitOf[m]) :
          Loading!InitOf[m][i].of \notin Loading!Unnoticed =>
              Loading!ToSet(Loading!InitOf[m][i].undo) = Asked(m, i) \ {Loading!Adapter}
    /\ Loading!ToSet(Loading!ExitOf[m])
          = Asked(m, Len(Loading!InitOf[m]) + 1) \ {Loading!Adapter}

LEMMA EncoderUndoesAll == UndoesAll("encoder")
<1>1. /\ Loading!InitOf["encoder"] = Loading!EncoderInit
      /\ Loading!ExitOf["encoder"] = Loading!EncoderExit
  BY DEF Loading!InitOf, Loading!ExitOf
<1> DEFINE c == Loading!EncoderInit
<1>2. /\ Len(c) = 2 /\ c[1].of = Loading!Region /\ c[1].undo = <<>>
      /\ c[2].of = Loading!Cdev /\ c[2].undo = <<Loading!Region>>
  BY DEF Loading!EncoderInit, Loading!Claim
<1>3. Loading!Region # Loading!Adapter /\ Loading!Cdev # Loading!Adapter
  BY DEF Loading!Region, Loading!Adapter, Loading!Cdev, Loading!One
<1>4. Asked("encoder", 1) = {} /\ Asked("encoder", 2) = {Loading!Region}
      /\ Asked("encoder", 3) = {Loading!Region, Loading!Cdev}
  BY <1>1, <1>2 DEF Asked
<1>5. /\ Loading!ToSet(<<>>) = {} /\ Loading!ToSet(<<Loading!Region>>) = {Loading!Region}
      /\ Loading!ToSet(Loading!EncoderExit) = {Loading!Cdev, Loading!Region}
  BY DEF Loading!ToSet, Loading!EncoderExit
<1> QED
  BY <1>1, <1>2, <1>3, <1>4, <1>5 DEF UndoesAll

LEMMA OledUndoesAll == UndoesAll("oled")
<1>1. /\ Loading!InitOf["oled"] = Loading!OledInit
      /\ Loading!ExitOf["oled"] = Loading!OledExit
  BY DEF Loading!InitOf, Loading!ExitOf
<1> DEFINE c == Loading!OledInit
           R == Loading!Region
           C == Loading!Class
           D == Loading!Device
           V == Loading!Cdev
           A == Loading!Adapter
           K == Loading!Client
<1>2. /\ Len(c) = 6
      /\ c[1].of = R /\ c[2].of = C /\ c[3].of = D
      /\ c[4].of = V /\ c[5].of = A /\ c[6].of = K
  BY DEF Loading!OledInit, Loading!Claim
<1>3. /\ c[1].undo = <<>> /\ c[2].undo = <<R>> /\ c[4].undo = <<D, C, R>>
      /\ c[5].undo = <<V, D, C, R>>
  BY DEF Loading!OledInit, Loading!Claim
<1>4. A \notin {R, C, D, V, K}
  BY DEF Loading!Region, Loading!Adapter, Loading!Cdev, Loading!Class, Loading!Device,
         Loading!Client, Loading!One
<1>5. D \in Loading!Unnoticed /\ K \in Loading!Unnoticed
  BY DEF Loading!Unnoticed
<1>6. /\ Asked("oled", 1) = {} /\ Asked("oled", 2) = {R}
      /\ Asked("oled", 4) = {R, C, D} /\ Asked("oled", 5) = {R, C, D, V}
      /\ Asked("oled", 7) = {R, C, D, V, A, K}
  <2>1. \A k \in {1, 2, 4, 5, 7} : Asked("oled", k) = {c[j].of : j \in 1 .. k - 1}
    BY <1>1 DEF Asked
  <2>2. /\ 1 .. 1 - 1 = {} /\ 1 .. 2 - 1 = {1} /\ 1 .. 4 - 1 = {1, 2, 3}
        /\ 1 .. 5 - 1 = {1, 2, 3, 4} /\ 1 .. 7 - 1 = {1, 2, 3, 4, 5, 6}
    OBVIOUS
  <2> HIDE DEF c, R, C, D, V, A, K
  <2> QED
    BY <1>2, <2>1, <2>2
<1>7. /\ Loading!ToSet(<<>>) = {} /\ Loading!ToSet(<<R>>) = {R}
      /\ Loading!ToSet(<<D, C, R>>) = {R, C, D}
      /\ Loading!ToSet(<<V, D, C, R>>) = {R, C, D, V}
  BY DEF Loading!ToSet
<1>8. Loading!ToSet(Loading!OledExit) = {R, C, D, V, K}
  BY DEF Loading!ToSet, Loading!OledExit
<1> HIDE DEF c, R, C, D, V, A, K
<1>9. ASSUME NEW i \in 1 .. 6, c[i].of \notin Loading!Unnoticed
      PROVE  Loading!ToSet(c[i].undo) = Asked("oled", i) \ {A}
  <2>1. i \in {1, 2, 4, 5}
    BY <1>2, <1>5, <1>9
  <2> QED
    BY <1>3, <1>4, <1>6, <1>7, <2>1
<1>10. Loading!ToSet(Loading!OledExit) = Asked("oled", 6 + 1) \ {A}
  BY <1>4, <1>6, <1>8
<1> QED
  BY <1>1, <1>2, <1>9, <1>10 DEF UndoesAll, c, A

\* The claims of the module under test are a sequence of GPIOs and interrupts.
LEMMA TestClaimsLines ==
    /\ Loading!TestClaims \in Seq({"gpio", "irq"} \X Nat)
    /\ Len(Loading!TestClaims) \in Nat
<1> DEFINE T == {"gpio", "irq"} \X Nat
           g == [i \in 1 .. 7 |-> Loading!Gpio(11 + i)]
<1>1. <<Loading!Gpio(13), Loading!Gpio(19), Loading!Gpio(26)>> \in Seq(T)
  BY DEF Loading!Gpio
<1>2. g \in Seq(T)
  <2>1. g \in [1 .. 7 -> T]
    BY DEF Loading!Gpio
  <2> QED
    BY <2>1, SeqDef
<1>3. <<Loading!Irq(1), Loading!Irq(2), Loading!Irq(3)>> \in Seq(T)
  BY DEF Loading!Irq
<1>4. Loading!TestClaims
        = <<Loading!Gpio(13), Loading!Gpio(19), Loading!Gpio(26)>> \o g
             \o <<Loading!Irq(1), Loading!Irq(2), Loading!Irq(3)>>
  BY DEF Loading!TestClaims
<1> HIDE DEF T, g
<1>5. Loading!TestClaims \in Seq(T)
  BY <1>1, <1>2, <1>3, <1>4
<1> QED
  BY <1>5 DEF T

LEMMA TestUndoesAll == UndoesAll("test")
<1>1. /\ Loading!InitOf["test"] = Loading!TestInit
      /\ Loading!ExitOf["test"] = Loading!TestExit
  BY DEF Loading!InitOf, Loading!ExitOf
<1> DEFINE c == Loading!TestClaims
           n == Len(c)
<1>2. n \in Nat /\ c \in Seq({"gpio", "irq"} \X Nat) /\ DOMAIN c = 1 .. n
  BY TestClaimsLines
<1>3. \A i \in 1 .. n : c[i] # Loading!Adapter
  BY <1>2 DEF Loading!Adapter, Loading!One
<1>4. /\ Loading!TestInit
           = [i \in 1 .. n |-> Loading!Claim(c[i], Loading!Reverse(SubSeq(c, 1, i - 1)))]
      /\ Loading!TestExit = c
  BY DEF Loading!TestInit, Loading!TestExit
<1> HIDE DEF c, n
<1>5. Len(Loading!TestInit) = n
  BY <1>2, <1>4
<1>6. \A i \in 1 .. n :
         /\ Loading!TestInit[i].of = c[i]
         /\ Loading!TestInit[i].undo = Loading!Reverse(SubSeq(c, 1, i - 1))
  BY <1>4 DEF Loading!Claim
<1>7. ASSUME NEW k \in 1 .. n + 1 PROVE Asked("test", k) = {c[j] : j \in 1 .. k - 1}
  <2>1. Asked("test", k) = {Loading!TestInit[j].of : j \in 1 .. k - 1}
    BY <1>1 DEF Asked
  <2>2. \A j \in 1 .. k - 1 : Loading!TestInit[j].of = c[j]
    BY <1>2, <1>6
  <2> QED
    BY <2>1, <2>2
<1>8. ASSUME NEW i \in 1 .. n
      PROVE  Loading!ToSet(Loading!Reverse(SubSeq(c, 1, i - 1))) = {c[j] : j \in 1 .. i - 1}
  <2> DEFINE s == SubSeq(c, 1, i - 1)
  <2>1. s = [j \in 1 .. i - 1 |-> c[j]] /\ Len(s) = i - 1
    BY <1>2 DEF n
  <2> HIDE DEF s
  <2>2. Loading!Reverse(s) = [j \in 1 .. i - 1 |-> c[i - j]]
    BY <1>2, <2>1 DEF Loading!Reverse
  <2>3. Loading!ToSet(Loading!Reverse(s)) = {c[i - j] : j \in 1 .. i - 1}
    BY <2>2 DEF Loading!ToSet
  <2>4. ASSUME NEW j \in 1 .. i - 1 PROVE i - j \in 1 .. i - 1 /\ i - (i - j) = j
    OBVIOUS
  <2>5. {c[i - j] : j \in 1 .. i - 1} = {c[j] : j \in 1 .. i - 1}
    BY <2>4
  <2> QED
    BY <2>3, <2>5 DEF s
<1>9. Loading!ToSet(Loading!TestExit) = {c[j] : j \in 1 .. n}
  BY <1>2, <1>4 DEF Loading!ToSet
<1>10. \A k \in 1 .. n + 1 : Asked("test", k) \ {Loading!Adapter} = {c[j] : j \in 1 .. k - 1}
  BY <1>2, <1>3, <1>7
<1>11. Loading!ToSet(Loading!TestExit) = Asked("test", n + 1) \ {Loading!Adapter}
  BY <1>2, <1>9, <1>10
<1>12. ASSUME NEW i \in 1 .. n
       PROVE  Loading!ToSet(Loading!TestInit[i].undo) = Asked("test", i) \ {Loading!Adapter}
  <2>1. Asked("test", i) \ {Loading!Adapter} = {c[j] : j \in 1 .. i - 1}
    <3>1. i \in 1 .. n + 1
      BY <1>2
    <3> QED
      BY <1>10, <3>1
  <2>2. Loading!TestInit[i].undo = Loading!Reverse(SubSeq(c, 1, i - 1))
    BY <1>6
  <2>3. Loading!ToSet(Loading!Reverse(SubSeq(c, 1, i - 1))) = {c[j] : j \in 1 .. i - 1}
    BY <1>8
  <2> QED
    BY <2>1, <2>2, <2>3
<1> QED
  BY <1>1, <1>2, <1>5, <1>11, <1>12 DEF UndoesAll

LEMMA EachUndoesAll == ASSUME NEW m \in Modules PROVE UndoesAll(m)
BY PanelAssumption, EncoderUndoesAll, OledUndoesAll, TestUndoesAll
DEF Loading!ModulesAssumption

\* One claim more.
LEMMA AskedMore ==
    ASSUME NEW m, NEW k \in Nat \ {0}
    PROVE  Asked(m, k + 1) = Asked(m, k) \cup {Loading!InitOf[m][k].of}
<1>1. 1 .. (k + 1) - 1 = (1 .. k - 1) \cup {k}
  OBVIOUS
<1> QED
  BY <1>1 DEF Asked

\* Releasing all leaves nothing, and nothing is released that is not there.
LEMMA ReleaseAll ==
    ASSUME NEW k, Accounted(k), NEW s, Loading!Release(s), ~stray,
           Loading!ToSet(s) = Asked(module, k) \ {Loading!Adapter}
    PROVE  claimed' = {} /\ ~stray'
BY DEF Accounted, Loading!Release

LEMMA NextLoadInv == ASSUME LoadInv, [Loading!Next]_(Loading!vars) PROVE LoadInv'
<1>1. UndoesAll(module) /\ Len(Loading!InitOf[module]) \in Nat
  BY EachUndoesAll DEF LoadInv, UndoesAll
<1>3. CASE UNCHANGED Loading!vars
  BY <1>3 DEF Loading!vars, LoadInv, Accounted
<1>4. CASE Loading!Load
  <2>1. /\ state = "out" /\ module' \in Modules /\ claim' = 1 /\ state' = "loading"
        /\ UNCHANGED <<claimed, stray>>
    BY <1>4 DEF Loading!Load
  <2>2. Len(Loading!InitOf[module']) \in Nat
    BY <2>1, EachUndoesAll DEF UndoesAll
  <2>3. Asked(module', 1) = {} /\ claimed' = {}
    BY <2>1 DEF Asked, LoadInv
  <2> QED
    BY <2>1, <2>2, <2>3 DEF LoadInv, Accounted
<1>5. CASE Loading!Succeed
  <2>1. /\ state = "loading" /\ claim \in 1 .. Len(Loading!InitOf[module])
        /\ claimed' = claimed \cup ({Loading!InitOf[module][claim].of} \ {Loading!Adapter})
        /\ claim' = claim + 1 /\ UNCHANGED <<state, module, stray>>
    BY <1>1, <1>5 DEF Loading!Succeed, Loading!Claiming, Loading!Current, LoadInv
  <2>2. Asked(module, claim + 1)
          = Asked(module, claim) \cup {Loading!InitOf[module][claim].of}
    <3>1. claim \in Nat \ {0}
      BY <2>1
    <3> QED
      BY <3>1, AskedMore
  <2>3. Accounted(claim)'
    BY <2>1, <2>2 DEF Accounted, LoadInv
  <2> QED
    BY <1>1, <2>1, <2>3 DEF LoadInv
<1>6. CASE Loading!Fail
  <2>1. /\ state = "loading" /\ claim \in 1 .. Len(Loading!InitOf[module])
        /\ Loading!InitOf[module][claim].of \notin Loading!Unnoticed
        /\ Loading!Release(Loading!InitOf[module][claim].undo)
        /\ state' = "out" /\ UNCHANGED module
    BY <1>1, <1>6 DEF Loading!Fail, Loading!Claiming, Loading!Current, LoadInv
  <2>2. Loading!ToSet(Loading!InitOf[module][claim].undo)
          = Asked(module, claim) \ {Loading!Adapter}
    BY <1>1, <2>1 DEF UndoesAll
  <2>3. claimed' = {} /\ ~stray'
    BY <2>1, <2>2, ReleaseAll DEF LoadInv
  <2> QED
    BY <2>1, <2>3 DEF LoadInv
<1>7. CASE Loading!FailUnnoticed
  <2>1. /\ state = "loading" /\ claim \in 1 .. Len(Loading!InitOf[module])
        /\ claim' = claim + 1 /\ UNCHANGED <<module, claimed, stray>>
        /\ \/ state' = "dead"
           \/ state' = "loading" /\ Loading!InitOf[module][claim].of = Loading!Device
    BY <1>1, <1>7
    DEF Loading!FailUnnoticed, Loading!Claiming, Loading!Current, Loading!Unnoticed, LoadInv
  <2>2. Asked(module, claim + 1)
          = Asked(module, claim) \cup {Loading!InitOf[module][claim].of}
    <3>1. claim \in Nat \ {0}
      BY <2>1
    <3> QED
      BY <3>1, AskedMore
  <2>3. state' = "loading" => Accounted(claim)'
    BY <2>1, <2>2 DEF Accounted, LoadInv
  <2> QED
    BY <1>1, <2>1, <2>3 DEF LoadInv
<1>8. CASE Loading!Loaded
  <2>1. /\ state = "loading" /\ claim > Len(Loading!InitOf[module]) /\ state' = "in"
        /\ UNCHANGED <<module, claim, claimed, stray>>
    BY <1>8 DEF Loading!Loaded
  <2> QED
    BY <2>1 DEF LoadInv, Accounted
<1>9. CASE Loading!Unload
  <2>1. /\ state = "in" /\ Loading!Release(Loading!ExitOf[module]) /\ state' = "out"
        /\ UNCHANGED module
    BY <1>9 DEF Loading!Unload
  <2>2. claim = Len(Loading!InitOf[module]) + 1
    BY <1>1, <2>1 DEF LoadInv
  <2>3. Loading!ToSet(Loading!ExitOf[module]) = Asked(module, claim) \ {Loading!Adapter}
    BY <1>1, <2>2 DEF UndoesAll
  <2>4. claimed' = {} /\ ~stray'
    BY <2>1, <2>3, ReleaseAll DEF LoadInv
  <2> QED
    BY <2>1, <2>4 DEF LoadInv
<1> QED
  BY <1>3, <1>4, <1>5, <1>6, <1>7, <1>8, <1>9 DEF Loading!Next

\* For any modules and any number of loads: whichever claims fail, a module
\* that was not loaded or was unloaded has kept nothing and nothing was
\* released that was not claimed (oled.c, mp3_oled_init; rotary_test.c).
THEOREM LoadingIsBalanced == MCSpec => []LoadingBalanced
<1>1. Loading!Init => LoadInv
  BY DEF Loading!Init, LoadInv
<1>2. LoadInv => LoadingBalanced
  BY DEF LoadInv, LoadingBalanced, Loading!LoadingBalanced
<1> QED
  BY <1>1, <1>2, NextLoadInv, Parts, PTL DEF Loading!Spec

-----------------------------------------------------------------------------
(* Types.                                                                  *)

\* A power of two is positive.  The provers know nothing of exponents, and
\* this takes an induction.
PowersPositive == \A n \in Nat : 2 ^ n \in Nat \ {0}

LEMMA BitOfNumber ==
    ASSUME NEW x \in Nat, NEW q \in Nat \ {0}
    PROVE  (x \div q) % 2 \in {0, 1}
OBVIOUS

LEMMA LedDataTypes ==
    ASSUME PowersPositive, Leds!TypeOK
    PROVE  Leds!LedData \in [Leds!Pins -> {0, 1}]
<1>1. CountPins \in Nat \ {0}
  BY PanelAssumption DEF Leds!PinsAssumption
<1>2. count \in Nat /\ direction \in Nat
  <2>1. 2 ^ CountPins \in Nat
    BY <1>1 DEF PowersPositive
  <2> QED
    BY <2>1 DEF Leds!TypeOK, Leds!Highest
<1>3. ASSUME NEW p \in Leds!Pins, p < CountPins PROVE (count \div 2 ^ p) % 2 \in {0, 1}
  <2>1. 2 ^ p \in Nat \ {0}
    BY <1>1 DEF PowersPositive, Leds!Pins
  <2> QED
    BY <1>2, <2>1, BitOfNumber
<1>4. ASSUME NEW p \in Leds!Pins, ~(p < CountPins), p # CountPins
      PROVE  (direction \div 2 ^ (p - CountPins - 1)) % 2 \in {0, 1}
  <2>1. p - CountPins - 1 \in Nat
    BY <1>1, <1>4 DEF Leds!Pins
  <2>2. 2 ^ (p - CountPins - 1) \in Nat \ {0}
    BY <2>1 DEF PowersPositive
  <2> QED
    BY <1>2, <2>2, BitOfNumber
<1>5. (IF toggle THEN 1 ELSE 0) \in {0, 1}
  OBVIOUS
<1>6. ASSUME NEW p \in Leds!Pins
      PROVE  (IF p < CountPins THEN (count \div 2 ^ p) % 2
              ELSE IF p = CountPins THEN IF toggle THEN 1 ELSE 0
              ELSE (direction \div 2 ^ (p - CountPins - 1)) % 2) \in {0, 1}
  <2>1. CASE p < CountPins
    BY <1>3, <2>1, Zenon
  <2>2. CASE ~(p < CountPins) /\ p = CountPins
    BY <1>5, <2>2, Zenon
  <2>3. CASE ~(p < CountPins) /\ p # CountPins
    BY <1>4, <2>3, Zenon
  <2> QED
    BY <2>1, <2>2, <2>3
<1> QED
  BY <1>6, Zenon DEF Leds!LedData

LEMMA InitLedTypes == ASSUME PowersPositive, Leds!Init PROVE Leds!TypeOK
<1>1. CountPins \in Nat /\ MaxEdges \in Nat
  BY PanelAssumption DEF Leds!PinsAssumption
<1>2. 0 \in Leds!Pins /\ 0 \in 0 .. MaxEdges /\ 0 \in 0 .. 2
  BY <1>1 DEF Leds!Pins
<1>3. leds \in [Leds!Pins -> {0, 1}]
  BY DEF Leds!Init
<1>4. data \in [Leds!Threads -> [Leds!Pins -> {0, 1}]]
  <2> DEFINE off == [p \in Leds!Pins |-> 0]
  <2>1. off \in [Leds!Pins -> {0, 1}]
    OBVIOUS
  <2>2. data = [t \in Leds!Threads |-> off]
    BY DEF Leds!Init
  <2> HIDE DEF off
  <2> QED
    BY <2>1, <2>2
<1>5. pin \in [Leds!Threads -> Leds!Pins]
      /\ updating \in [Leds!Threads -> {"idle", "load", "set"}]
  BY <1>2 DEF Leds!Init
<1>6. /\ variant \in {"threads", "timer"} /\ stage \in 1 .. 9
      /\ listening \subseteq Leds!Edges /\ awaited \subseteq listening /\ glance \in {0, 1}
      /\ count \in 0 .. Leds!Highest /\ direction \in 0 .. 2 /\ edges \in 0 .. MaxEdges
  BY <1>2 DEF Leds!Init
<1>7. levels \in Leds!Lines /\ before \in Leds!Lines
  BY DEF Leds!Init
<1>8. /\ held \in BOOLEAN /\ armed \in BOOLEAN /\ toggle \in BOOLEAN
      /\ updated \in BOOLEAN /\ twice \in BOOLEAN /\ blind \in BOOLEAN
  BY DEF Leds!Init
<1> QED
  BY <1>3, <1>4, <1>5, <1>6, <1>7, <1>8 DEF Leds!TypeOK

LEMMA DecodeTypes ==
    ASSUME PowersPositive, Leds!TypeOK, Leds!Decode
    PROVE  /\ before' = levels
           /\ count' \in 0 .. Leds!Highest /\ direction' \in 0 .. 2
<1>1. CountPins \in Nat
  BY PanelAssumption DEF Leds!PinsAssumption
<1>2. Leds!Highest \in Int
  BY <1>1 DEF PowersPositive, Leds!Highest
<1>3. count \in 0 .. Leds!Highest /\ direction \in 0 .. 2
  BY DEF Leds!TypeOK
<1> QED
  BY <1>2, <1>3 DEF Leds!Decode

LEMMA NextLedTypes ==
    ASSUME PowersPositive, Leds!TypeOK, [Leds!Next]_(Leds!vars)
    PROVE  Leds!TypeOK'
<1> USE DEF Leds!TypeOK
<1>1. CountPins \in Nat /\ MaxEdges \in Nat
  BY PanelAssumption DEF Leds!PinsAssumption
<1>2. CASE UNCHANGED Leds!vars
  BY <1>2 DEF Leds!vars
<1>3. CASE Leds!Turn \/ Leds!PressOrLetGo
  <2>1. /\ edges < MaxEdges /\ edges' = edges + 1
        /\ UNCHANGED <<variant, stage, listening, glance, armed, updating, data, pin, before,
                       count, direction, toggle, leds, updated, twice>>
    BY <1>3 DEF Leds!Turn, Leds!PressOrLetGo, Leds!opening, Leds!update, Leds!globals
  <2>2. edges' \in 0 .. MaxEdges
    BY <1>1, <2>1
  <2>3. /\ levels' \in Leds!Lines /\ awaited' \subseteq listening /\ held' \in BOOLEAN
        /\ blind' \in BOOLEAN
    <3>1. levels[1] \in {0, 1} /\ levels[2] \in {0, 1}
      BY DEF Leds!Lines
    <3>2. CASE Leds!Turn
      <4>1. levels' \in {<<1 - levels[1], levels[2]>>, <<levels[1], 1 - levels[2]>>}
        <5>1. levels \in {0, 1} \X {0, 1}
          BY DEF Leds!Lines
        <5>2. PICK k \in 1 .. 2 : levels' = [levels EXCEPT ![k] = 1 - @]
          BY <3>2 DEF Leds!Turn
        <5> QED
          BY <5>1, <5>2
      <4>2. 1 - levels[1] \in {0, 1} /\ 1 - levels[2] \in {0, 1}
        BY <3>1
      <4>3. levels' \in Leds!Lines
        BY <3>1, <4>1, <4>2 DEF Leds!Lines
      <4>4. awaited' \subseteq listening /\ held' = held
        BY <3>2 DEF Leds!Turn
      <4>5. blind' \in BOOLEAN
        BY <3>2, Zenon DEF Leds!Turn
      <4> QED
        BY <4>3, <4>4, <4>5
    <3>3. CASE Leds!PressOrLetGo
      <4>1. held' \in BOOLEAN
        BY <3>3, Zenon DEF Leds!PressOrLetGo
      <4> QED
        BY <3>3, <4>1 DEF Leds!PressOrLetGo
    <3> QED
      BY <1>3, <3>2, <3>3
  <2> QED
    BY <2>1, <2>2, <2>3
<1>4. CASE Leds!Read \/ Leds!Keep
  <2>1. stage' \in 1 .. 9
    BY <1>4 DEF Leds!Read, Leds!Keep, Leds!At
  <2>2. glance' \in {0, 1} /\ before' \in Leds!Lines
    BY <1>4 DEF Leds!Read, Leds!Keep, Leds!globals, Leds!Lines
  <2>3. blind' \in BOOLEAN
    BY <1>4, Zenon DEF Leds!Read, Leds!Keep, Leds!Idle
  <2>4. UNCHANGED <<variant, levels, held, edges, listening, awaited, armed, updating, data,
                    pin, leds, count, direction, toggle, updated, twice>>
    BY <1>4 DEF Leds!Read, Leds!Keep, Leds!input, Leds!update, Leds!globals
  <2> QED
    BY <2>1, <2>2, <2>3, <2>4
<1>5. CASE Leds!SetupTimer
  <2>1. stage' \in 1 .. 9 /\ armed' = FALSE
    BY <1>5 DEF Leds!SetupTimer, Leds!At
  <2> QED
    BY <1>5, <2>1 DEF Leds!SetupTimer, Leds!input, Leds!update, Leds!globals
<1>6. ASSUME NEW e \in Leds!Edges, Leds!Request(e) PROVE Leds!TypeOK'
  <2>1. /\ stage' \in 1 .. 9
        /\ listening' \subseteq Leds!Edges /\ awaited \subseteq listening'
    BY <1>6 DEF Leds!Request, Leds!At
  <2> QED
    BY <1>6, <2>1 DEF Leds!Request, Leds!input, Leds!update, Leds!globals
<1>7. CASE Leds!Reopen
  <2>1. stage' \in 1 .. 9 /\ edges' \in 0 .. MaxEdges
    BY <1>1, <1>7 DEF Leds!Reopen
  <2> QED
    BY <1>7, <2>1 DEF Leds!Reopen, Leds!update, Leds!globals
<1>8. ASSUME NEW e \in Leds!Edges, Leds!StartTimer(e) PROVE Leds!TypeOK'
  BY <1>8 DEF Leds!StartTimer, Leds!input, Leds!opening, Leds!update, Leds!globals
<1>9. ASSUME NEW t \in Leds!Threads, Leds!HandleLine(t) PROVE Leds!TypeOK'
  <2>1. updating' \in [Leds!Threads -> {"idle", "load", "set"}] /\ twice' \in BOOLEAN
    BY <1>9 DEF Leds!HandleLine, Leds!Begin
  <2>2. /\ before' = levels
        /\ count' \in 0 .. Leds!Highest /\ direction' \in 0 .. 2
    BY <1>9, DecodeTypes DEF Leds!HandleLine
  <2>3. /\ awaited' \subseteq awaited
        /\ UNCHANGED <<variant, stage, listening, glance, levels, held, edges, armed,
                       toggle, data, pin, leds, updated>>
    BY <1>9 DEF Leds!HandleLine, Leds!input, Leds!opening, Leds!update
  <2>4. blind' \in BOOLEAN
    BY <1>9, Zenon DEF Leds!HandleLine, Leds!Decode, Leds!Sampling, Leds!At
  <2> QED
    BY <2>1, <2>2, <2>3, <2>4
<1>10. CASE Leds!Expire
  <2>1. updating' \in [Leds!Threads -> {"idle", "load", "set"}] /\ twice' \in BOOLEAN
    BY <1>10 DEF Leds!Expire, Leds!Begin
  <2>2. before' \in Leds!Lines /\ count' \in 0 .. Leds!Highest /\ direction' \in 0 .. 2
    <3>1. CASE variant = "timer"
      BY <1>10, <3>1, DecodeTypes DEF Leds!Expire
    <3>2. CASE variant # "timer"
      BY <1>10, <3>2 DEF Leds!Expire
    <3> QED
      BY <3>1, <3>2
  <2>3. /\ armed' = FALSE /\ toggle' \in BOOLEAN
        /\ UNCHANGED <<variant, stage, listening, glance, levels, held, edges, awaited, data,
                       pin, leds, updated>>
    BY <1>10 DEF Leds!Expire, Leds!input, Leds!opening, Leds!update
  <2>4. blind' \in BOOLEAN
    BY <1>10, Zenon DEF Leds!Expire, Leds!Decode, Leds!Sampling, Leds!At
  <2> QED
    BY <2>1, <2>2, <2>3, <2>4
<1>11. ASSUME NEW t \in Leds!Threads, Leds!LoadLeds(t) PROVE Leds!TypeOK'
  <2>1. data' \in [Leds!Threads -> [Leds!Pins -> {0, 1}]]
    BY <1>11, LedDataTypes DEF Leds!LoadLeds
  <2>2. pin' \in [Leds!Threads -> Leds!Pins]
    BY <1>1, <1>11 DEF Leds!LoadLeds, Leds!Pins
  <2>3. updating' \in [Leds!Threads -> {"idle", "load", "set"}]
    BY <1>11 DEF Leds!LoadLeds
  <2>4. /\ updated' = TRUE
        /\ UNCHANGED <<variant, stage, listening, glance, levels, held, edges, awaited,
                       armed, before, count, direction, toggle, leds, twice, blind>>
    BY <1>11 DEF Leds!LoadLeds, Leds!input, Leds!opening, Leds!globals
  <2> QED
    BY <2>1, <2>2, <2>3, <2>4
<1>12. ASSUME NEW t \in Leds!Threads, Leds!SetPin(t) PROVE Leds!TypeOK'
  <2>1. pin[t] \in Leds!Pins /\ data[t][pin[t]] \in {0, 1}
    OBVIOUS
  <2>2. leds' \in [Leds!Pins -> {0, 1}]
    BY <1>12, <2>1 DEF Leds!SetPin
  <2>3. pin[t] < CountPins + 2 => pin[t] + 1 \in Leds!Pins
    BY <1>1, <2>1 DEF Leds!Pins
  <2>4. pin' \in [Leds!Threads -> Leds!Pins]
    BY <1>12, <2>3 DEF Leds!SetPin
  <2>5. updating' \in [Leds!Threads -> {"idle", "load", "set"}]
    BY <1>12 DEF Leds!SetPin
  <2>6. UNCHANGED <<variant, stage, listening, glance, levels, held, edges, awaited, armed,
                    before, count, direction, toggle, data, updated, twice, blind>>
    BY <1>12 DEF Leds!SetPin, Leds!input, Leds!opening, Leds!globals
  <2> QED
    BY <2>2, <2>4, <2>5, <2>6
<1> QED
  BY <1>2, <1>3, <1>8, <1>9, <1>10, <1>11, <1>12, <1>4, <1>5, <1>6, <1>7
  DEF Leds!Next

LEMMA InitLoadTypes == ASSUME Loading!Init PROVE Loading!TypeOK
<1>1. MaxLoads \in Nat
  BY PanelAssumption DEF Loading!LoadsAssumption
<1>2. module \in Modules
  BY DEF Loading!Init
<1>3. Len(Loading!InitOf[module]) \in Nat
  BY <1>2, EachUndoesAll DEF UndoesAll
<1>4. claim \in 1 .. Len(Loading!InitOf[module]) + 1 /\ loads \in 0 .. MaxLoads
  BY <1>1, <1>3 DEF Loading!Init
<1>5. state = "out" /\ claimed = {} /\ stray = FALSE /\ clash = FALSE
  BY DEF Loading!Init
<1> QED
  BY <1>2, <1>4, <1>5 DEF Loading!TypeOK

LEMMA NextLoadTypes ==
    ASSUME Loading!TypeOK, [Loading!Next]_(Loading!vars)
    PROVE  Loading!TypeOK'
<1> USE DEF Loading!TypeOK
<1>1. MaxLoads \in Nat /\ Len(Loading!InitOf[module]) \in Nat
  BY PanelAssumption, EachUndoesAll DEF Loading!LoadsAssumption, UndoesAll
<1>2. CASE UNCHANGED Loading!vars
  BY <1>2 DEF Loading!vars
<1>3. CASE Loading!Load
  <2>1. Len(Loading!InitOf[module']) \in Nat
    BY <1>3, EachUndoesAll DEF Loading!Load, UndoesAll
  <2> QED
    BY <1>1, <1>3, <2>1 DEF Loading!Load
<1>4. CASE Loading!Succeed
  <2>1. /\ claim \in 1 .. Len(Loading!InitOf[module])
        /\ claimed' = claimed \cup ({Loading!InitOf[module][claim].of} \ {Loading!Adapter})
        /\ claim' = claim + 1 /\ UNCHANGED <<state, module, stray, clash, loads>>
    BY <1>1, <1>4 DEF Loading!Succeed, Loading!Claiming, Loading!Current
  <2>2. Loading!InitOf[module][claim].of \in Loading!Resources
    BY <2>1 DEF Loading!Resources
  <2>3. claim + 1 \in 1 .. Len(Loading!InitOf[module]) + 1
    BY <1>1, <2>1
  <2> QED
    BY <2>1, <2>2, <2>3
<1>5. CASE Loading!Fail
  BY <1>5 DEF Loading!Fail, Loading!Release
<1>6. CASE Loading!FailUnnoticed
  <2>1. /\ claim \in 1 .. Len(Loading!InitOf[module]) /\ claim' = claim + 1
        /\ state' \in {"dead", "loading"}
        /\ UNCHANGED <<module, claimed, stray, clash, loads>>
    BY <1>1, <1>6 DEF Loading!FailUnnoticed, Loading!Claiming
  <2>2. claim + 1 \in 1 .. Len(Loading!InitOf[module]) + 1
    BY <1>1, <2>1
  <2> QED
    BY <2>1, <2>2
<1>7. CASE Loading!Loaded
  BY <1>7 DEF Loading!Loaded
<1>8. CASE Loading!Unload
  BY <1>8 DEF Loading!Unload, Loading!Release
<1> QED
  BY <1>2, <1>3, <1>4, <1>5, <1>6, <1>7, <1>8 DEF Loading!Next

\* Every variable of every part has its type, whatever the bounds: the counters
\* of both drivers keep within their limits, the pin that is set is one of the
\* LEDs', and the display's registers keep their widths.
THEOREM PanelTypes == ASSUME PowersPositive PROVE MCSpec => []TypesOK
<1>1. Spec => []TypeOK
  BY TypeCorrect
<1>2. Knob!Spec => []Knob!TypeOK
  <2>1. KnobInv => Knob!TypeOK
    BY DEF KnobInv
  <2> QED
    BY <2>1, InitKnobInv, NextKnobInv, PTL DEF Knob!Spec
<1>3. Leds!Spec => []Leds!TypeOK
  <2>1. Leds!Init => Leds!TypeOK
    BY InitLedTypes
  <2>2. Leds!TypeOK /\ [Leds!Next]_(Leds!vars) => Leds!TypeOK'
    BY NextLedTypes
  <2> QED
    BY <2>1, <2>2, PTL DEF Leds!Spec
<1>4. Screen!Spec => []Screen!TypeOK
  <2>1. Screen!WritesAssumption
    BY PanelAssumption DEF Oled!WritesAssumption, Screen!WritesAssumption
  <2> QED
    BY <2>1, ScreensFields, Screen!TypeCorrect
<1>5. Screen!TypeOK => Oled!TypeOK
  BY DEF Oled!TypeOK, Oled!Picture, Oled!Field, Screen!TypeOK, Screen!Picture, Screen!Field
<1>6. Loading!Spec => []Loading!TypeOK
  <2>1. Loading!Init => Loading!TypeOK
    BY InitLoadTypes
  <2>2. Loading!TypeOK /\ [Loading!Next]_(Loading!vars) => Loading!TypeOK'
    BY NextLoadTypes
  <2> QED
    BY <2>1, <2>2, PTL DEF Loading!Spec
<1>7. TypeOK /\ Knob!TypeOK /\ Leds!TypeOK /\ Oled!TypeOK /\ Loading!TypeOK => TypesOK
  BY DEF TypesOK
<1> QED
  BY <1>1, <1>2, <1>3, <1>4, <1>5, <1>6, <1>7, Parts, ShownOnScreen, PTL
=============================================================================
