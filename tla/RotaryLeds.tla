------------------------------ MODULE RotaryLeds ------------------------------
(***************************************************************************)
(* The encoder drivers with LEDs, which show the counter, the key and the  *)
(* direction of the last turn.                                             *)
(*                                                                         *)
(* rotary_encoder ("threads") decodes in the interrupt threads of the two  *)
(* signal lines and toggles the key in the debounce timer, and each of the *)
(* three updates the LEDs, pin by pin, from values it loads first.  The    *)
(* module under test ("timer") only restarts the timer on every edge, and  *)
(* does everything in its callback.  Decoding is one step here: its parts  *)
(* interleave in RotaryKnob.                                               *)
(*                                                                         *)
(* The driver samples the signal lines when it is opened, before it        *)
(* requests the interrupts, and once more, to no other effect, whenever it *)
(* is opened again and refuses; the module under test samples them when it *)
(* is loaded, after it has requested the interrupts.                       *)
(***************************************************************************)
EXTENDS Integers

CONSTANTS
    CountPins,      \* pins that show the counter (4)
    MaxEdges        \* bound: edges of the knob and the key, and reopenings

PinsAssumption == CountPins \in Nat \ {0} /\ MaxEdges \in Nat

Pins == 0 .. CountPins + 2
Highest == 2 ^ CountPins - 1
Threads == {"s1", "s2", "timer"}    \* who runs update_led
Edges == {"s1", "s2", "key"}
Lines == {0, 1} \X {0, 1}

\* my_open of the driver, and what loading the module under test comes to.
Opening(v) ==
    IF v = "threads"
    THEN <<"read1", "keep1", "read2", "keep2", "setup", "s1", "s2", "key">>
    ELSE <<"setup", "s1", "s2", "key", "read1", "keep1", "read2", "keep2">>

VARIABLES
    variant,        \* which of the two drivers
    step,           \* how far it is opened: the next step, or past the last
    on,             \* the lines whose interrupt is requested
    sampled,        \* the level of a line that it has read last
    lines, down,    \* the levels of the signal lines; the key is held
    pending,        \* edges not handled yet
    armed,          \* debounce_timer
    pc,             \* what each thread does: "idle", "load" or "set"
    data,           \* its led_data
    pin,            \* the pin it sets next
    prev, counter, direction, key,      \* the driver's globals
    leds,
    edges,          \* edges and reopenings so far (bounds the run)
    updated,        \* history: update_led has been called since open()
    overlapped,     \* history: two threads have been at it at once
    unsure          \* history: since the lines were last decoded or sampled, an
                    \* edge was not heard or the one has met the other

vars == <<variant, step, on, sampled, lines, down, pending, armed, pc, data, pin,
          prev, counter, direction, key, leds, edges, updated, overlapped, unsure>>
input == <<variant, lines, down, edges>>
opening == <<step, on, sampled>>
globals == <<prev, counter, direction, key>>
update == <<data, pin, leds>>

TypeOK ==
    /\ variant \in {"threads", "timer"}
    /\ step \in 1 .. 9
    /\ on \subseteq Edges /\ sampled \in {0, 1}
    /\ lines \in Lines /\ prev \in Lines
    /\ pending \subseteq on
    /\ pc \in [Threads -> {"idle", "load", "set"}]
    /\ data \in [Threads -> [Pins -> {0, 1}]]
    /\ pin \in [Threads -> Pins]
    /\ counter \in 0 .. Highest
    /\ direction \in 0 .. 2
    /\ leds \in [Pins -> {0, 1}]
    /\ edges \in 0 .. MaxEdges
    /\ down \in BOOLEAN /\ armed \in BOOLEAN /\ key \in BOOLEAN
    /\ updated \in BOOLEAN /\ overlapped \in BOOLEAN /\ unsure \in BOOLEAN

\* The GPIOs have been requested, which turns the LEDs off.  The globals of the
\* driver are as an earlier user left them, those of the module are fresh.
Init ==
    /\ variant \in {"threads", "timer"}
    /\ step = 1 /\ on = {} /\ sampled = 0
    /\ lines \in Lines /\ prev \in Lines
    /\ down \in BOOLEAN /\ pending = {} /\ armed = FALSE
    /\ pc = [t \in Threads |-> "idle"]
    /\ data = [t \in Threads |-> [p \in Pins |-> 0]]
    /\ pin = [t \in Threads |-> 0]
    /\ counter \in 0 .. Highest /\ direction \in 0 .. 2 /\ key \in BOOLEAN
    /\ variant = "timer" => prev = <<0, 0>> /\ counter = 0 /\ direction = 0 /\ ~key
    /\ leds = [p \in Pins |-> 0]
    /\ edges = 0
    /\ updated = FALSE /\ overlapped = FALSE /\ unsure = TRUE

Idle == \A t \in Threads : pc[t] = "idle"

\* What the opening does next.
At(place) == step \in 1 .. 8 /\ Opening(variant)[step] = place
\* It has read a line and not kept both yet.
Sampling == At("keep1") \/ At("read2") \/ At("keep2")

Settled == Idle /\ pending = {} /\ ~armed /\ ~Sampling

-----------------------------------------------------------------------------
(* Opening.                                                                *)

Read ==
    /\ \/ At("read1") /\ sampled' = lines[1] /\ unsure' = ~Idle
       \/ At("read2") /\ sampled' = lines[2] /\ UNCHANGED unsure
    /\ step' = step + 1
    /\ UNCHANGED <<input, on, pending, armed, pc, update, globals, updated, overlapped>>

Keep ==
    /\ \/ At("keep1") /\ prev' = <<sampled, prev[2]>>
       \/ At("keep2") /\ prev' = <<prev[1], sampled>>
    /\ step' = step + 1
    /\ sampled' = 0
    /\ UNCHANGED <<input, on, pending, armed, pc, update, counter, direction, key,
                   updated, overlapped, unsure>>

\* timer_setup: a timer that is pending is forgotten.
SetupTimer ==
    /\ At("setup")
    /\ step' = step + 1
    /\ armed' = FALSE
    /\ UNCHANGED <<input, on, sampled, pending, pc, update, globals, updated,
                   overlapped, unsure>>

\* A request that is refused, because somebody has the interrupt or for want of
\* memory, does not keep the driver from the others.  The module under test is
\* not loaded then, which is ModuleLoading's.
Request(e) ==
    /\ At(e)
    /\ step' = step + 1
    /\ \/ on' = on \cup {e}
       \/ variant = "threads" /\ UNCHANGED on
    /\ UNCHANGED <<input, sampled, pending, armed, pc, update, globals, updated,
                   overlapped, unsure>>

\* Another process opens the device.  It does not get the LEDs' GPIOs, and those
\* stay as they are.
Reopen ==
    /\ variant = "threads"
    /\ step = 9
    /\ edges < MaxEdges
    /\ edges' = edges + 1
    /\ step' = 1
    /\ UNCHANGED <<variant, lines, down, on, sampled, pending, armed, pc, update,
                   globals, updated, overlapped, unsure>>

-----------------------------------------------------------------------------
(* The knob and the key, which interrupts when it is pressed.              *)

Turn ==
    /\ edges < MaxEdges
    /\ edges' = edges + 1
    /\ \E k \in 1 .. 2 :
          LET line == <<"s1", "s2">>[k]
          IN  /\ lines' = [lines EXCEPT ![k] = 1 - @]
              /\ pending' = pending \cup ({line} \cap on)
              /\ unsure' = (unsure \/ line \notin on)
    /\ UNCHANGED <<variant, down, opening, armed, pc, update, globals, updated,
                   overlapped>>

PressOrLetGo ==
    /\ edges < MaxEdges
    /\ edges' = edges + 1
    /\ down' = ~down
    /\ pending' = IF down THEN pending ELSE pending \cup ({"key"} \cap on)
    /\ UNCHANGED <<variant, lines, opening, armed, pc, update, globals, updated,
                   overlapped, unsure>>

-----------------------------------------------------------------------------
(* Decoding: the driver counts the steps into the rest position, the module *)
(* under test every step.                                                  *)

Next4 == [l \in Lines |-> CASE l = <<0, 0>> -> <<1, 0>>
                            [] l = <<1, 0>> -> <<1, 1>>
                            [] l = <<1, 1>> -> <<0, 1>>
                            [] l = <<0, 1>> -> <<0, 0>>]

Counts(from, to) == variant = "timer" \/ to = <<0, 0>>
Clockwise(from, to) == to = Next4[from] /\ Counts(from, to)
Anticlockwise(from, to) == from = Next4[to] /\ Counts(from, to)

Decode ==
    /\ prev' = lines
    /\ unsure' = Sampling
    /\ \/ /\ Clockwise(prev, lines)
          /\ counter' = IF counter < Highest THEN counter + 1 ELSE counter
          /\ direction' = 1
       \/ /\ Anticlockwise(prev, lines)
          /\ counter' = IF counter > 0 THEN counter - 1 ELSE counter
          /\ direction' = 2
       \/ /\ ~Clockwise(prev, lines) /\ ~Anticlockwise(prev, lines)
          /\ UNCHANGED <<counter, direction>>

Begin(t) ==
    /\ pc[t] = "idle"
    /\ pc' = [pc EXCEPT ![t] = "load"]
    /\ overlapped' = (overlapped \/ ~Idle)

\* irq_handler of the driver, in the thread of line t.
HandleLine(t) ==
    /\ variant = "threads"
    /\ t \in pending \cap {"s1", "s2"}
    /\ pending' = pending \ {t}
    /\ Begin(t)
    /\ Decode
    /\ UNCHANGED <<input, opening, armed, key, update, updated>>

\* key_handler of the driver, irq_handler of the module under test.
StartTimer(e) ==
    /\ e \in pending
    /\ e = "key" \/ variant = "timer"
    /\ pending' = pending \ {e}
    /\ armed' = TRUE
    /\ UNCHANGED <<input, opening, pc, globals, update, updated, overlapped, unsure>>

\* debounce_timer_callback: while the key is down every expiry toggles.
Expire ==
    /\ armed
    /\ armed' = FALSE
    /\ Begin("timer")
    /\ key' = (key # down)
    /\ IF variant = "timer" THEN Decode
       ELSE UNCHANGED <<prev, counter, direction, unsure>>
    /\ UNCHANGED <<input, opening, pending, update, updated>>

-----------------------------------------------------------------------------
(* update_led.                                                             *)

\* Bits 0 to 3: the counter, 4: the key, 5 and 6: the direction.
LedData ==
    [p \in Pins |->
        IF p < CountPins THEN (counter \div 2 ^ p) % 2
        ELSE IF p = CountPins THEN IF key THEN 1 ELSE 0
        ELSE (direction \div 2 ^ (p - CountPins - 1)) % 2]

LoadLeds(t) ==
    /\ pc[t] = "load"
    /\ data' = [data EXCEPT ![t] = LedData]
    /\ pin' = [pin EXCEPT ![t] = 0]
    /\ pc' = [pc EXCEPT ![t] = "set"]
    /\ updated' = TRUE
    /\ UNCHANGED <<input, opening, pending, armed, globals, leds, overlapped, unsure>>

\* Mutant: the last pin is left out.
SetPinShort(t) ==
    /\ pc[t] = "set"
    /\ leds' = [leds EXCEPT ![pin[t]] = data[t][pin[t]]]
    /\ IF pin[t] < CountPins + 1
       THEN pin' = [pin EXCEPT ![t] = @ + 1] /\ UNCHANGED pc
       ELSE pc' = [pc EXCEPT ![t] = "idle"] /\ UNCHANGED pin
    /\ UNCHANGED <<input, opening, pending, armed, globals, data, updated, overlapped,
                   unsure>>

SetPin(t) ==
    /\ pc[t] = "set"
    /\ leds' = [leds EXCEPT ![pin[t]] = data[t][pin[t]]]
    /\ IF pin[t] < CountPins + 2
       THEN pin' = [pin EXCEPT ![t] = @ + 1] /\ UNCHANGED pc
       ELSE pc' = [pc EXCEPT ![t] = "idle"] /\ UNCHANGED pin
    /\ UNCHANGED <<input, opening, pending, armed, globals, data, updated, overlapped,
                   unsure>>

Next ==
    \/ Read \/ Keep \/ SetupTimer \/ Reopen
    \/ Turn \/ PressOrLetGo \/ Expire
    \/ \E e \in Edges : Request(e) \/ StartTimer(e)
    \/ \E t \in Threads : HandleLine(t) \/ LoadLeds(t) \/ SetPin(t)

Spec == Init /\ [][Next]_vars

-----------------------------------------------------------------------------
\* Once every edge has been handled, the LEDs show what the driver knows and it
\* knows where the knob is: the first unless two threads have been at it at once,
\* which cannot happen where the timer does it all, and not before the first
\* update; the second unless, since the last look, an edge was not heard or an
\* opening has met a handler.
LedsCatchUp ==
    Settled /\ updated /\ (variant = "threads" => ~overlapped) =>
        /\ leds = LedData
        /\ ~unsure => prev = lines
=============================================================================
