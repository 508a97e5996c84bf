------------------------------ MODULE RotaryKnob ------------------------------
(***************************************************************************)
(* The knob of the rotary encoder drivers (rotary_encoder_vol and           *)
(* rotary_encoder, whose irq_handler is the same up to the LEDs).           *)
(*                                                                         *)
(* Both signal lines of the encoder interrupt on both edges, and each line *)
(* has an interrupt thread of its own; both threads run irq_handler on the *)
(* same unlocked globals counter, prev_s1 and prev_s2.  my_open samples    *)
(* the lines into prev_s1 and prev_s2 before it requests the interrupts,   *)
(* and does so too when another process has the device open and the        *)
(* requests fail.  Who opens and when, and which interrupts are requested  *)
(* and freed, is left open here; RotaryEncoder binds it to RotaryKey.      *)
(*                                                                         *)
(* A step is one access to a line or to a global.  The globals are plain   *)
(* ints: the irq_handler that is built loads and stores prev_s1 and        *)
(* prev_s2 as a pair and loads counter once per decision, and so does the  *)
(* model; my_open, which calls gpio_get_value in between, stores each of   *)
(* the two for itself.                                                     *)
(***************************************************************************)
EXTENDS Integers

CONSTANTS
    Openers,        \* the processes that open the device
    MaxCount,       \* where counter stops (0b1111)
    MaxTurns        \* bound: quarter turns of the knob

CountAssumption == MaxCount \in Nat \ {0}
TurnsAssumption == MaxTurns \in Nat

Irqs == {"s1", "s2"}
Lines == {0, 1} \X {0, 1}

\* What the lines show as the knob turns clockwise: <<s1, s2>>.
Cycle == <<<<0, 0>>, <<1, 0>>, <<1, 1>>, <<0, 1>>>>
Rest == <<0, 0>>

Unknown == -1       \* what the count should be is not known

VARIABLES
    lines,          \* the levels of the two signal lines
    on,             \* the lines whose interrupt is requested
    patient,        \* the knob waits for the driver before it turns on
    pending,        \* lines whose edge has not been handled yet
    pc,             \* where in irq_handler each interrupt thread is
    got,            \* the levels it has read (s1, s2)
    seen,           \* the counter value it has loaded
    opening,        \* where each opener is in sampling the lines, or "away"
    sampled,        \* the level it has read last
    prev,           \* <<prev_s1, prev_s2>>
    counter,
    turns,          \* quarter turns so far (bounds the run)
    unsure,         \* history: since somebody last looked at the lines alone,
                    \* an edge was not heard or another has looked as well
    exact           \* history: the count of a driver that has counted every
                    \* step since an opening that began at peace; unless an
                    \* edge was not heard or met somebody sampling

vars == <<lines, on, patient, pending, pc, got, seen, opening, sampled, prev,
          counter, turns, unsure, exact>>
knob == <<lines, patient, turns>>
handler == <<pc, got, seen>>
my_open == <<opening, sampled>>
history == <<unsure, exact>>
others == <<knob, on, my_open, pending, history>>

TypeOK ==
    /\ lines \in Lines
    /\ patient \in BOOLEAN
    /\ on \subseteq Irqs /\ pending \subseteq on
    /\ opening \in [Openers -> {"away", "read1", "keep1", "read2", "keep2"}]
    /\ sampled \in [Openers -> {0, 1}]
    /\ pc \in [Irqs -> {"idle", "read1", "read2", "compare", "up", "down",
                        "store_up", "store_down", "remember"}]
    /\ got \in [Irqs -> Lines]
    /\ seen \in [Irqs -> 0 .. MaxCount]
    /\ prev \in Lines
    /\ counter \in 0 .. MaxCount
    /\ turns \in 0 .. MaxTurns
    /\ unsure \in BOOLEAN
    /\ exact \in {Unknown} \cup 0 .. MaxCount

\* The driver has been loaded: nobody listens to the knob, wherever it is.
Init ==
    /\ lines \in Lines
    /\ patient \in BOOLEAN
    /\ on = {} /\ pending = {}
    /\ pc = [i \in Irqs |-> "idle"]
    /\ got = [i \in Irqs |-> Rest]
    /\ seen = [i \in Irqs |-> 0]
    /\ opening = [o \in Openers |-> "away"]
    /\ sampled = [o \in Openers |-> 0]
    /\ prev = Rest
    /\ counter = 0
    /\ turns = 0
    /\ unsure = TRUE
    /\ exact = Unknown

-----------------------------------------------------------------------------
(* Decoding.                                                               *)

\* Only the step into the rest position counts.
Clockwise(from, to) == from = <<0, 1>> /\ to = Rest
Anticlockwise(from, to) == from = <<1, 0>> /\ to = Rest

Up(n) == IF n < MaxCount THEN n + 1 ELSE n
Down(n) == IF n > 0 THEN n - 1 ELSE n

\* What one undisturbed run of irq_handler makes of the counter.
Decoded(from, to, n) ==
    IF Clockwise(from, to) THEN Up(n)
    ELSE IF Anticlockwise(from, to) THEN Down(n) ELSE n

\* Every edge that was heard has been handled.
Handled == pending = {} /\ \A i \in Irqs : pc[i] = "idle"

\* Somebody has read a line and not stored all it reads yet: in irq_handler,
\* or in my_open.
Sampling == \E o \in Openers : opening[o] \in {"keep1", "read2", "keep2"}
Looking == Sampling \/ \E i \in Irqs : pc[i] # "idle"

Settled == Handled /\ ~Sampling

-----------------------------------------------------------------------------
(* The knob, turned either way at any speed.  Contact bounce is a turn back *)
(* and forth.                                                              *)

Index(l) == CHOOSE k \in 1 .. 4 : Cycle[k] = l
Neighbours(l) == {Cycle[(Index(l) % 4) + 1], Cycle[((Index(l) + 2) % 4) + 1]}

Turn ==
    /\ turns < MaxTurns
    /\ patient => Handled
    /\ turns' = turns + 1
    /\ \E to \in Neighbours(lines) :
          LET line == IF to[1] # lines[1] THEN "s1" ELSE "s2"
          IN  /\ lines' = to
              /\ pending' = pending \cup ({line} \cap on)
              /\ unsure' = (unsure \/ line \notin on)
              /\ exact' = IF exact = Unknown \/ line \notin on \/ Sampling
                          THEN Unknown ELSE Decoded(lines, to, exact)
    /\ UNCHANGED <<patient, on, handler, my_open, prev, counter>>

-----------------------------------------------------------------------------
(* my_open and my_release, as far as the knob is concerned.                *)

Open(o) ==
    /\ opening[o] = "away"
    /\ opening' = [opening EXCEPT ![o] = "read1"]
    /\ UNCHANGED <<knob, on, pending, handler, sampled, prev, counter, history>>

\* From here on the knob can be counted, unless there is something under way.
ReadFirst(o) ==
    /\ opening[o] = "read1"
    /\ opening' = [opening EXCEPT ![o] = "keep1"]
    /\ sampled' = [sampled EXCEPT ![o] = lines[1]]
    /\ unsure' = Looking
    /\ exact' = IF patient /\ Settled THEN counter ELSE Unknown
    /\ UNCHANGED <<knob, on, pending, handler, prev, counter>>

ReadSecond(o) ==
    /\ opening[o] = "read2"
    /\ opening' = [opening EXCEPT ![o] = "keep2"]
    /\ sampled' = [sampled EXCEPT ![o] = lines[2]]
    /\ UNCHANGED <<knob, on, pending, handler, prev, counter, history>>

\* Mutant: both samples are stored in prev_s1.
KeepFirstOnly(o) ==
    /\ \/ opening[o] = "keep1" /\ opening' = [opening EXCEPT ![o] = "read2"]
       \/ opening[o] = "keep2" /\ opening' = [opening EXCEPT ![o] = "away"]
    /\ prev' = <<sampled[o], prev[2]>>
    /\ sampled' = [sampled EXCEPT ![o] = 0]
    /\ UNCHANGED <<knob, on, pending, handler, counter, history>>

Keep(o) ==
    /\ \/ /\ opening[o] = "keep1"
          /\ opening' = [opening EXCEPT ![o] = "read2"]
          /\ prev' = <<sampled[o], prev[2]>>
       \/ /\ opening[o] = "keep2"
          /\ opening' = [opening EXCEPT ![o] = "away"]
          /\ prev' = <<prev[1], sampled[o]>>
    /\ sampled' = [sampled EXCEPT ![o] = 0]
    /\ UNCHANGED <<knob, on, pending, handler, counter, history>>

Request(i) ==
    /\ i \notin on
    /\ on' = on \cup {i}
    /\ UNCHANGED <<knob, pending, handler, my_open, prev, counter, history>>

\* free_irq waits for the handler and drops an edge it has not seen.
Free(i) ==
    /\ i \in on
    /\ pc[i] = "idle"
    /\ on' = on \ {i}
    /\ pending' = pending \ {i}
    /\ unsure' = (unsure \/ i \in pending)
    /\ exact' = IF i \in pending THEN Unknown ELSE exact
    /\ UNCHANGED <<knob, handler, my_open, prev, counter>>

Use(o) ==
    \/ Open(o) \/ ReadFirst(o) \/ ReadSecond(o) \/ Keep(o)
    \/ \E i \in Irqs : Request(i) \/ Free(i)

-----------------------------------------------------------------------------
(* irq_handler in the thread of line i.                                    *)

\* An edge during the handler stays pending and runs it once more.
Enter(i) ==
    /\ i \in pending
    /\ pc[i] = "idle"
    /\ pending' = pending \ {i}
    /\ pc' = [pc EXCEPT ![i] = "read1"]
    /\ unsure' = Looking
    /\ UNCHANGED <<knob, on, my_open, got, seen, prev, counter, exact>>

ReadS1(i) ==
    /\ pc[i] = "read1"
    /\ got' = [got EXCEPT ![i][1] = lines[1]]
    /\ pc' = [pc EXCEPT ![i] = "read2"]
    /\ UNCHANGED <<others, seen, prev, counter>>

ReadS2(i) ==
    /\ pc[i] = "read2"
    /\ got' = [got EXCEPT ![i][2] = lines[2]]
    /\ pc' = [pc EXCEPT ![i] = "compare"]
    /\ UNCHANGED <<others, seen, prev, counter>>

\* The local variables die when the handler returns.
Return(i) ==
    /\ pc' = [pc EXCEPT ![i] = "idle"]
    /\ got' = [got EXCEPT ![i] = Rest]
    /\ seen' = [seen EXCEPT ![i] = 0]

Compare(i) ==
    /\ pc[i] = "compare"
    /\ \/ got[i] = prev /\ Return(i)
       \/ /\ got[i] # prev
          /\ pc' = [pc EXCEPT ![i] =
                       IF Clockwise(prev, got[i]) THEN "up"
                       ELSE IF Anticlockwise(prev, got[i]) THEN "down"
                       ELSE "remember"]
          /\ UNCHANGED <<got, seen>>
    /\ UNCHANGED <<others, prev, counter>>

LoadCounter(i) ==
    /\ pc[i] \in {"up", "down"}
    /\ seen' = [seen EXCEPT ![i] = counter]
    /\ pc' = [pc EXCEPT ![i] =
                 IF pc[i] = "up" /\ counter < MaxCount THEN "store_up"
                 ELSE IF pc[i] = "down" /\ counter > 0 THEN "store_down"
                 ELSE "remember"]
    /\ UNCHANGED <<others, got, prev, counter>>

StoreCounter(i) ==
    /\ pc[i] \in {"store_up", "store_down"}
    /\ counter' = IF pc[i] = "store_up" THEN seen[i] + 1 ELSE seen[i] - 1
    /\ pc' = [pc EXCEPT ![i] = "remember"]
    /\ UNCHANGED <<others, got, seen, prev>>

\* Mutant: prev_s2 is not stored.
RememberS1Only(i) ==
    /\ pc[i] = "remember"
    /\ prev' = <<got[i][1], prev[2]>>
    /\ Return(i)
    /\ UNCHANGED <<others, counter>>

Remember(i) ==
    /\ pc[i] = "remember"
    /\ prev' = got[i]
    /\ Return(i)
    /\ UNCHANGED <<others, counter>>

Handle(i) ==
    \/ Enter(i) \/ ReadS1(i) \/ ReadS2(i) \/ Compare(i)
    \/ LoadCounter(i) \/ StoreCounter(i) \/ Remember(i)

Next == Turn \/ (\E o \in Openers : Use(o)) \/ \E i \in Irqs : Handle(i)

Spec == Init /\ [][Next]_vars

-----------------------------------------------------------------------------
\* A knob that waits for the driver is counted exactly from an opening on that
\* began at peace, no edge lost and none counted by both threads: unless it
\* turns while somebody samples its lines or before both interrupts are
\* requested, and also when others try to open the device while it rests.
PatientKnobCounted ==
    Settled /\ exact # Unknown => counter = exact /\ prev = lines

\* However fast the knob turns, once the driver has caught up it knows where
\* the knob is: provided that whoever looked last, a handler or an opening,
\* looked alone and every edge since was heard.  So one edge that is heard is
\* enough to recover from what was missed or overwritten before.
CaughtUp == Settled /\ ~unsure => prev = lines
=============================================================================
