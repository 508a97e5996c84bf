---------------------------- MODULE RotaryEncoder ----------------------------
(***************************************************************************)
(* The rotary encoder driver rotary_encoder_vol as a whole: opening,       *)
(* reading and closing its device (RotaryKey, whose names are used as they *)
(* are) and the knob (RotaryKnob).  A process in my_open samples the lines *)
(* of the knob at its own pace, and the interrupts of the two lines are    *)
(* those that a process has requested and not freed yet.                   *)
(***************************************************************************)
EXTENDS RotaryKey

CONSTANTS MaxCount, MaxTurns                            \* of the knob

VARIABLES
    lines, patient, pending, turning, got, seen, sampled, prev, counter, turns,
    unsure, exact

\* irq_s1 and irq_s2, if somebody has requested them.
requested ==
    (IF owner[1] = Nobody THEN {} ELSE {"s1"})
        \cup (IF owner[2] = Nobody THEN {} ELSE {"s2"})

opening == [u \in Users |-> IF pc[u] \in Samples THEN pc[u] ELSE "away"]

Knob == INSTANCE RotaryKnob WITH
    Openers <- Users, pc <- turning, on <- requested, opening <- opening

turningKnob == <<lines, patient, pending, turning, got, seen, sampled, prev,
                 counter, turns, unsure, exact>>

EncoderInit == Init /\ Knob!Init

\* What a process does is a step of the knob's as well when it opens, samples
\* a line or keeps it, or requests or frees one of the knob's interrupts.
Process(u) ==
    /\ Use(u)
    /\ \/ UNCHANGED <<opening, requested>> /\ UNCHANGED turningKnob
       \/ Knob!Use(u)

PressKey == (Press \/ LetGo \/ HandleKey \/ Expire) /\ UNCHANGED turningKnob

TurnKnob == UNCHANGED vars /\ (Knob!Turn \/ \E i \in Knob!Irqs : Knob!Handle(i))

Processes == \E u \in Users : Process(u)

EncoderNext == Processes \/ PressKey \/ TurnKnob

EncoderSpec == EncoderInit /\ [][EncoderNext]_<<vars, turningKnob>>
=============================================================================
