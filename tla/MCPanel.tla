------------------------------- MODULE MCPanel -------------------------------
(***************************************************************************)
(* What the user handles and sees: the encoder (RotaryEncoder, whose names *)
(* are used as they are), the LEDs of the encoder driver that has them,    *)
(* the display, and the loading of these drivers.  They share no state, so *)
(* that a behaviour checks one of them, its subject, while the others stay *)
(* as they start.  The encoder is two subjects: its device and key while   *)
(* nobody turns the knob, and its knob while nobody presses the key.       *)
(***************************************************************************)
EXTENDS RotaryEncoder, Sequences, TLC

CONSTANTS
    KnobOpens,                                          \* the knob
    CountPins, MaxEdges,                                \* the LEDs
    Writers, Fields, Spectrum, MaxWrites,               \* the display
    Modules, MaxLoads                                   \* the modules

VARIABLES
    subject,
    variant, stage, listening, glance, levels, held, awaited, armed, updating,
    data, pin, before, count, direction, toggle, leds, edges, twice, updated,
    blind,
    drawing, at, id, plays, loaded, copy, buffer, window, shown, garbled,
    writes, base, latest, trouble,
    state, module, claim, claimed, stray, clash, loads

Leds == INSTANCE RotaryLeds WITH
    pc <- updating, lines <- levels, down <- held, pending <- awaited,
    prev <- before, counter <- count, key <- toggle, overlapped <- twice,
    step <- stage, on <- listening, sampled <- glance, unsure <- blind
Oled == INSTANCE OledDriver WITH pc <- drawing
Loading == INSTANCE ModuleLoading WITH at <- claim, held <- claimed

\* What the parts take for granted of their constants.
ASSUME PanelAssumption ==
    /\ Knob!CountAssumption /\ Knob!TurnsAssumption /\ Leds!PinsAssumption
    /\ Oled!FieldsAssumption /\ Oled!WritesAssumption
    /\ Loading!ModulesAssumption /\ Loading!LoadsAssumption

MCFields == <<"volume", "spectrum">>

encoderState == <<vars, turningKnob>>
ledState == <<variant, stage, listening, glance, levels, held, awaited, armed,
              updating, data, pin, before, count, direction, toggle, leds, edges,
              twice, updated, blind>>
oledState == <<drawing, at, id, plays, loaded, copy, buffer, window, shown,
               garbled, writes, base, latest, trouble>>
loadState == <<state, module, claim, claimed, stray, clash, loads>>

\* Processes are interchangeable.
Symmetry == Permutations(Users) \cup Permutations(Writers)

MCvars == <<subject, encoderState, ledState, oledState, loadState>>

\* While the knob is looked at nobody reads, and so few open that it is small.
Reading == {u \in Users : pc[u] \in {"clear", "copy"}}

\* The parts that are not looked at start in one way only.
MCInit ==
    /\ subject \in {"key", "knob", "leds", "display", "loading"}
    /\ EncoderInit /\ Leds!Init /\ Oled!Init /\ Loading!Init
    /\ subject # "knob" => lines = <<0, 0>> /\ patient
    /\ subject # "leds" =>
          variant = "timer" /\ levels = <<0, 0>> /\ ~held
    /\ subject # "loading" => module = CHOOSE m \in Modules : TRUE

MCNext ==
    /\ UNCHANGED subject
    /\ \/ /\ subject = "key" /\ (Processes \/ PressKey)
          /\ UNCHANGED <<ledState, oledState, loadState>>
       \/ /\ subject = "knob" /\ (Processes \/ TurnKnob)
          /\ Reading' = {} /\ opens' <= KnobOpens
          /\ UNCHANGED <<ledState, oledState, loadState>>
       \/ /\ subject = "leds" /\ Leds!Next
          /\ UNCHANGED <<encoderState, oledState, loadState>>
       \/ /\ subject = "display" /\ Oled!Next
          /\ UNCHANGED <<encoderState, ledState, loadState>>
       \/ /\ subject = "loading" /\ Loading!Next
          /\ UNCHANGED <<encoderState, ledState, oledState>>

MCSpec == MCInit /\ [][MCNext]_MCvars

\* Every variable of the subject has its type.
TypesOK ==
    /\ subject \in {"key", "knob"} => TypeOK /\ Knob!TypeOK
    /\ subject = "leds" => Leds!TypeOK
    /\ subject = "display" => Oled!TypeOK
    /\ subject = "loading" => Loading!TypeOK

PatientKnobCounted == Knob!PatientKnobCounted
CaughtUp == Knob!CaughtUp
LedsCatchUp == Leds!LedsCatchUp
SerialPicture == Oled!SerialPicture
NoGhosts == Oled!NoGhosts
\* It is about constants only, and looked at once.
FieldsApart == subject = "display" /\ writes = 0 => Oled!FieldsApart
LoadingBalanced == Loading!LoadingBalanced
=============================================================================
