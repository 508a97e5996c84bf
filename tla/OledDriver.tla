------------------------------ MODULE OledDriver ------------------------------
(***************************************************************************)
(* The OLED driver: write() clears the driver's one frame buffer, draws    *)
(* the fields of the screen into it one after the other, copies it, sets   *)
(* the window of the display with six command bytes and sends the copy.    *)
(* No lock is taken, so that several processes do this at once; the I2C    *)
(* bus sends one message at a time.  A field is drawn by reading, or-ing   *)
(* and storing the bytes it lies in.                                       *)
(*                                                                         *)
(* A picture is, for each field, the set of writes whose ink is in it.     *)
(***************************************************************************)
EXTENDS Integers, Sequences

CONSTANTS
    Writers,        \* the processes that write to the display
    Fields,         \* the fields of the screen, in the order they are drawn
    Spectrum,       \* the one that is drawn only while the music plays
    MaxWrites       \* bound: writes

FieldsAssumption == Fields \in Seq(STRING) /\ Spectrum \in STRING
WritesAssumption == MaxWrites \in Nat

Field == {Fields[i] : i \in 1 .. Len(Fields)}
Picture == [Field -> SUBSET (1 .. MaxWrites)]
Blank == [f \in Field |-> {}]

\* The addressing window: column and page, first and last, of the whole screen.
Window == <<33, 0, 127, 34, 0, 7>>
Whole == [col1 |-> 0, col2 |-> 127, page1 |-> 0, page2 |-> 7,
          line |-> 0, awaits |-> <<>>]

VARIABLES
    pc,             \* where in update_display each writer is
    at,             \* the field or the command byte it is at
    id,             \* the number of the write it is doing
    plays,          \* whether its data has the spectrum run
    loaded,         \* what it has read of the field it is drawing
    copy,           \* its transfer_buf
    buffer,         \* oled_buffer
    window,         \* the display's registers, and the arguments it awaits
    shown,          \* the picture in the display's memory
    garbled,        \* the picture was not sent into the whole screen
    writes,         \* writes so far (bounds the run)
    base,           \* history: the writes before the driver was last at rest
    latest,         \* history: the picture the last write was given
    trouble         \* history: two writes have met, or memory or the bus has
                    \* failed one

vars == <<pc, at, id, plays, loaded, copy, buffer, window, shown, garbled,
          writes, base, latest, trouble>>
display == <<window, shown, garbled>>
history == <<writes, base, latest>>

TypeOK ==
    /\ pc \in [Writers -> {"idle", "clear", "load", "store", "copy", "command",
                           "data"}]
    /\ at \in [Writers -> Nat]
    /\ id \in [Writers -> 0 .. MaxWrites]
    /\ plays \in [Writers -> BOOLEAN]
    /\ loaded \in [Writers -> SUBSET (1 .. MaxWrites)]
    /\ copy \in [Writers -> Picture]
    /\ buffer \in Picture /\ shown \in Picture /\ latest \in Picture
    /\ window.col1 \in 0 .. 127 /\ window.col2 \in 0 .. 127
    /\ window.page1 \in 0 .. 7 /\ window.page2 \in 0 .. 7
    /\ window.line \in 0 .. 63
    /\ writes \in 0 .. MaxWrites /\ base \in 0 .. MaxWrites
    /\ garbled \in BOOLEAN /\ trouble \in BOOLEAN

\* oled_init_sequence has set the registers.
Init ==
    /\ pc = [w \in Writers |-> "idle"]
    /\ at = [w \in Writers |-> 1]
    /\ id = [w \in Writers |-> 0]
    /\ plays = [w \in Writers |-> FALSE]
    /\ loaded = [w \in Writers |-> {}]
    /\ copy = [w \in Writers |-> Blank]
    /\ buffer = Blank /\ shown = Blank /\ latest = Blank
    /\ window = Whole
    /\ garbled = FALSE
    /\ writes = 0 /\ base = 0
    /\ trouble = FALSE

Goto(w, place) == pc' = [pc EXCEPT ![w] = place]
Idle == \A w \in Writers : pc[w] = "idle"

-----------------------------------------------------------------------------
(* mp3_oled_write and update_display.                                       *)

Write(w) ==
    /\ pc[w] = "idle"
    /\ writes < MaxWrites
    /\ writes' = writes + 1
    /\ id' = [id EXCEPT ![w] = writes + 1]
    /\ \E p \in BOOLEAN :
          /\ plays' = [plays EXCEPT ![w] = p]
          /\ latest' = [f \in Field |->
                           IF f = Spectrum /\ ~p THEN {} ELSE {writes + 1}]
    /\ base' = IF Idle THEN writes ELSE base
    /\ trouble' = (trouble \/ ~Idle)
    /\ Goto(w, "clear")
    /\ UNCHANGED <<at, loaded, copy, buffer, display>>

\* Mutant: oled_clear_buffer is not called.
ClearNothing(w) ==
    /\ pc[w] = "clear"
    /\ at' = [at EXCEPT ![w] = 1]
    /\ Goto(w, "load")
    /\ UNCHANGED <<id, plays, loaded, copy, buffer, display, history, trouble>>

Clear(w) ==
    /\ pc[w] = "clear"
    /\ buffer' = Blank
    /\ at' = [at EXCEPT ![w] = 1]
    /\ Goto(w, "load")
    /\ UNCHANGED <<id, plays, loaded, copy, display, history, trouble>>

\* The fields in turn; a stopped spectrum is passed over.
Load(w) ==
    /\ pc[w] = "load"
    /\ at[w] <= Len(Fields)
    /\ \/ /\ Fields[at[w]] = Spectrum /\ ~plays[w]
          /\ at' = [at EXCEPT ![w] = @ + 1]
          /\ UNCHANGED <<pc, loaded>>
       \/ /\ Fields[at[w]] # Spectrum \/ plays[w]
          /\ loaded' = [loaded EXCEPT ![w] = buffer[Fields[at[w]]]]
          /\ Goto(w, "store")
          /\ UNCHANGED at
    /\ UNCHANGED <<id, plays, copy, buffer, display, history, trouble>>

\* oled_draw_pixel sets bits and leaves the others as it has read them.
Store(w) ==
    /\ pc[w] = "store"
    /\ buffer' = [buffer EXCEPT ![Fields[at[w]]] = loaded[w] \cup {id[w]}]
    /\ loaded' = [loaded EXCEPT ![w] = {}]
    /\ at' = [at EXCEPT ![w] = @ + 1]
    /\ Goto(w, "load")
    /\ UNCHANGED <<id, plays, copy, display, history, trouble>>

\* oled_flush_buffer; without memory it returns at once.
Copy(w) ==
    /\ pc[w] = "load"
    /\ at[w] > Len(Fields)
    /\ \/ /\ copy' = [copy EXCEPT ![w] = buffer]
          /\ at' = [at EXCEPT ![w] = 1]
          /\ Goto(w, "command")
          /\ UNCHANGED trouble
       \/ /\ trouble' = TRUE
          /\ Goto(w, "idle")
          /\ UNCHANGED <<copy, at>>
    /\ UNCHANGED <<id, plays, loaded, buffer, display, history>>

-----------------------------------------------------------------------------
(* The display (SSD1306), as the driver's command bytes and comments use it: *)
(* a command takes the bytes that follow as its arguments, whoever sends     *)
(* them; a byte from 64 to 127 that is no argument sets the start line.      *)

Received(b) ==
    IF window.awaits # <<>>
    THEN LET r == Head(window.awaits)
             v == IF r \in {"col1", "col2"} THEN b % 128 ELSE b % 8
         IN  [window EXCEPT ![r] = v, !.awaits = Tail(window.awaits)]
    ELSE CASE b = 33 -> [window EXCEPT !.awaits = <<"col1", "col2">>]
           [] b = 34 -> [window EXCEPT !.awaits = <<"page1", "page2">>]
           [] b \in 64 .. 127 -> [window EXCEPT !.line = b % 64]
           [] OTHER -> window

\* Mutant: the last byte, the last page, is not sent.
CommandOneShort(w) ==
    /\ pc[w] = "command"
    /\ \/ at[w] = Len(Window) - 1 /\ Goto(w, "data") /\ at' = [at EXCEPT ![w] = 1]
       \/ at[w] < Len(Window) - 1 /\ at' = [at EXCEPT ![w] = @ + 1] /\ UNCHANGED pc
    /\ \/ window' = Received(Window[at[w]]) /\ UNCHANGED trouble
       \/ trouble' = TRUE /\ UNCHANGED window
    /\ UNCHANGED <<id, plays, loaded, copy, buffer, shown, garbled, history>>

\* oled_send_cmd: a byte that is not sent is logged, and the next one follows.
Command(w) ==
    /\ pc[w] = "command"
    /\ \/ at[w] = Len(Window) /\ Goto(w, "data") /\ at' = [at EXCEPT ![w] = 1]
       \/ at[w] < Len(Window) /\ at' = [at EXCEPT ![w] = @ + 1] /\ UNCHANGED pc
    /\ \/ window' = Received(Window[at[w]]) /\ UNCHANGED trouble
       \/ trouble' = TRUE /\ UNCHANGED window
    /\ UNCHANGED <<id, plays, loaded, copy, buffer, shown, garbled, history>>

\* The copy is sent, or not, and freed.
Data(w) ==
    /\ pc[w] = "data"
    /\ \/ /\ shown' = copy[w]
          /\ garbled' = (window # Whole)
          /\ UNCHANGED trouble
       \/ /\ trouble' = TRUE
          /\ UNCHANGED <<shown, garbled>>
    /\ copy' = [copy EXCEPT ![w] = Blank]
    /\ Goto(w, "idle")
    /\ UNCHANGED <<at, id, plays, loaded, buffer, window, history>>

Draw(w) == Clear(w) \/ Load(w) \/ Store(w) \/ Copy(w) \/ Command(w) \/ Data(w)

Next == \E w \in Writers : Write(w) \/ Draw(w)

Spec == Init /\ [][Next]_vars

-----------------------------------------------------------------------------
(* Where the fields are drawn: rectangles of pixels.                       *)

Box(x, y, w, h) == [x |-> x, y |-> y, w |-> w, h |-> h]

\* A character is five pixels wide and eight high, and six from the next.
Text(x, y, n) == IF n = 0 THEN {} ELSE {Box(x, y, 6 * n - 1, 8)}

\* A bar for each threshold the level has reached.
Bars(level) ==
    LET height == <<2, 4, 6, 8, 10>>
        threshold == <<0, 4, 7, 10, 13>>
    IN  {Box(6 + i * 4, 11 - height[i], 3, height[i]) :
            i \in {j \in 1 .. 5 : level >= threshold[j]}}

SpectrumBars == {Box(2 + i * 4, 23, 3, 15) : i \in 0 .. 31}

\* Mutant: the title is centred by the width of the characters alone.
TitleAtFive(n) == IF n > 25 THEN 0 ELSE 64 - (n * 5) \div 2

TitleAt(n) == IF n > 21 THEN 0 ELSE 64 - (n * 6) \div 2

\* The track is "%02d/%02d" of two unsigned ints, in a string of sixteen.
TrackLengths == 5 .. 15
TrackNumber(n) == Text(90, 2, n)

\* The lengths of the title and the track vary.  The times are "%02d:%02d" in
\* strings of six.
Layout(level, title, track) ==
    {Box(2, 2, 8, 8)} \cup Bars(level) \cup SpectrumBars
        \cup Text(48, 2, 5) \cup TrackNumber(track) \cup Text(4, 54, 5)
        \cup Text(TitleAt(title), 44, title) \cup Text(90, 54, 5)

Apart(a, b) ==
    a.x + a.w <= b.x \/ b.x + b.w <= a.x \/ a.y + a.h <= b.y \/ b.y + b.h <= a.y

\* oled_draw_pixel leaves out what is off the screen.
Cut(a) == a.x + a.w - 128

-----------------------------------------------------------------------------
\* While writes come one at a time and nothing fails, the display shows what
\* the last one was given and nothing else: no field is missing and no ink is
\* left of an earlier picture.
SerialPicture ==
    Idle /\ ~trouble => shown = latest /\ ~garbled

\* However writes overlap, a picture that is sent has no ink of a write that
\* was over when the driver was last at rest.
NoGhosts ==
    \A w \in Writers : pc[w] \in {"command", "data"} =>
        \A f \in Field : copy[w][f] \subseteq base + 1 .. writes

\* The fields of a screen never cover each other, for every level the volume may
\* have, every title that fits the record (oled.h) and however long the track is.
\* Nothing of them is cut off but the last column of the last spectrum bar, and
\* the end of the track when it is longer than six characters.
FieldsApart ==
    \A level \in 0 .. 15, title \in 0 .. 20, track \in TrackLengths :
        LET boxes == Layout(level, title, track)
        IN  /\ \A a, b \in boxes : a = b \/ Apart(a, b)
            /\ \A a \in boxes :
                  /\ a.x >= 0 /\ a.y >= 0 /\ a.y + a.h <= 64
                  /\ \/ Cut(a) <= 0
                     \/ Cut(a) = 1 /\ a \in SpectrumBars
                     \/ track > 6 /\ a \in TrackNumber(track)
=============================================================================
