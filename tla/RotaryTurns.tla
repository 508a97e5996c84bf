----------------------------- MODULE RotaryTurns -----------------------------
(***************************************************************************)
(* The knob with a history of its turns, to say what counts as one.        *)
(***************************************************************************)
EXTENDS RotaryKnob, Sequences

\* The levels since the knob was last at rest, or since it can be counted.
VARIABLE path

TurnsInit == Init /\ path = <<lines>>

TurnsNext ==
    /\ Next
    /\ path' = IF exact' = Unknown \/ exact = Unknown THEN <<lines'>>
               ELSE IF lines' = lines THEN path
               ELSE IF lines = Rest THEN <<Rest, lines'>> ELSE Append(path, lines')

TurnsSpec == TurnsInit /\ [][TurnsNext]_<<vars, path>>

-----------------------------------------------------------------------------
\* A knob that started from rest counts clockwise only after it has gone
\* through the clockwise cycle (rotary_encoder_vol/rotary_encoder.c:141).
WholeTurnsOnly ==
    [][counter' > counter /\ exact # Unknown /\ path[1] = Rest
         => path = Append(Cycle, Rest)]_<<vars, path>>
=============================================================================
