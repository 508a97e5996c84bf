--------------------------- MODULE OledDriver_proofs ---------------------------
(***************************************************************************)
(* The display driver for any number of processes, writes and fields:      *)
(* that no picture sent to the display has ink of a write that was over    *)
(* when the driver was last at rest, however the writes overlap in the one *)
(* frame buffer; that the display shows the last picture while writes come *)
(* one at a time and nothing fails; types; and that the fields never meet. *)
(***************************************************************************)
EXTENDS OledDriver, TLAPS

\* The types of what carries ink.
Typed ==
    /\ pc \in [Writers -> {"idle", "clear", "load", "store", "copy", "command",
                           "data"}]
    /\ at \in [Writers -> Nat \ {0}]
    /\ id \in [Writers -> Nat]
    /\ loaded \in [Writers -> SUBSET Nat]
    /\ copy \in [Writers -> [Field -> SUBSET Nat]]
    /\ buffer \in [Field -> SUBSET Nat]
    /\ writes \in Nat /\ base \in Nat

\* The writes since the driver was last at rest.
Recent == base + 1 .. writes

Past(w) == pc[w] \in {"load", "store", "command", "data"}

\* Since a writer has cleared the buffer, nobody has put older ink into it,
\* nor has any writer older ink in its hands.
Fresh ==
    /\ \A w \in Writers : pc[w] # "idle" => id[w] \in Recent
    /\ \A w \in Writers : Past(w) => \A f \in Field : buffer[f] \subseteq Recent
    /\ \A w \in Writers : pc[w] = "store" =>
          loaded[w] \subseteq Recent /\ at[w] <= Len(Fields)
    /\ \A w \in Writers : pc[w] \in {"command", "data"} =>
          \A f \in Field : copy[w][f] \subseteq Recent

IInv == Typed /\ Fresh

-----------------------------------------------------------------------------
LEMMA InitIInv == Init => IInv
BY DEF Init, IInv, Typed, Fresh, Past, Blank

\* A field that is drawn is one of the screen's.
LEMMA DrawnField ==
    ASSUME FieldsAssumption, NEW i \in Nat \ {0}, i <= Len(Fields)
    PROVE  Fields[i] \in Field
<1>1. Len(Fields) \in Nat
  BY DEF FieldsAssumption
<1> QED
  BY <1>1 DEF Field

\* mp3_oled_write starts: its number is the newest, and if it starts alone the
\* older ones are over.
LEMMA WriteKeeps == ASSUME IInv, NEW w \in Writers, Write(w) PROVE IInv'
<1> USE DEF IInv
<1>1. /\ pc[w] = "idle" /\ pc' = [pc EXCEPT ![w] = "clear"]
      /\ writes' = writes + 1 /\ id' = [id EXCEPT ![w] = writes + 1]
      /\ base' = IF Idle THEN writes ELSE base
      /\ UNCHANGED <<at, loaded, copy, buffer>>
  BY DEF Write, Goto
<1>2. Typed'
  BY <1>1 DEF Typed
<1>3. pc'[w] = "clear" /\ id'[w] = writes + 1
      /\ \A v \in Writers \ {w} : pc'[v] = pc[v] /\ id'[v] = id[v]
  BY <1>1 DEF Typed
<1>4. writes + 1 \in Recent'
  <2>1. \E v \in Writers : ~Idle => id[v] \in base + 1 .. writes
    <3>1. CASE Idle
      BY <3>1
    <3>2. CASE ~Idle
      BY <3>2 DEF Idle, Fresh, Recent
    <3> QED
      BY <3>1, <3>2
  <2> QED
    BY <1>1, <2>1 DEF Typed, Recent
<1>5. CASE Idle
  <2>1. \A v \in Writers \ {w} : pc'[v] = "idle"
    BY <1>3, <1>5 DEF Idle
  <2> QED
    BY <1>2, <1>3, <1>4, <2>1 DEF Fresh, Past
<1>6. CASE ~Idle
  <2>1. Recent \subseteq Recent'
    BY <1>1, <1>6 DEF Typed, Recent
  <2>2. \A v \in Writers \ {w} : pc'[v] # "idle" => id'[v] \in Recent'
    BY <1>3, <2>1 DEF Fresh
  <2>3. \A v \in Writers : Past(v)' => \A f \in Field : buffer'[f] \subseteq Recent'
    BY <1>1, <1>3, <2>1 DEF Fresh, Past
  <2>4. \A v \in Writers : pc'[v] = "store" =>
           loaded'[v] \subseteq Recent' /\ at'[v] <= Len(Fields)
    BY <1>1, <1>3, <2>1 DEF Fresh
  <2>5. \A v \in Writers : pc'[v] \in {"command", "data"} =>
           \A f \in Field : copy'[v][f] \subseteq Recent'
    BY <1>1, <1>3, <2>1 DEF Fresh
  <2> QED
    BY <1>2, <1>3, <1>4, <2>2, <2>3, <2>4, <2>5 DEF Fresh
<1> QED
  BY <1>5, <1>6

\* A step of a writer that adds no ink anywhere: its place is one it was
\* already past the clearing at, or the buffer is blank.
LEMMA Inkless ==
    ASSUME IInv, NEW w \in Writers, Typed', pc[w] # "idle",
           UNCHANGED <<id, writes, base, loaded>>,
           \A v \in Writers \ {w} :
               pc'[v] = pc[v] /\ at'[v] = at[v] /\ copy'[v] = copy[v],
           (Past(w) /\ buffer' = buffer) \/ buffer' = Blank,
           pc'[w] # "store",
           pc'[w] \in {"command", "data"} =>
               \A f \in Field : copy'[w][f] \subseteq Recent
    PROVE  IInv'
<1> USE DEF IInv
<1>1. Recent' = Recent
  BY DEF Recent
<1>2. \A v \in Writers : pc'[v] # "idle" => id'[v] \in Recent
  BY DEF Fresh
<1>3. ASSUME NEW v \in Writers, Past(v)'
      PROVE  \A f \in Field : buffer'[f] \subseteq Recent
  <2>1. CASE buffer' = Blank
    BY <2>1 DEF Blank
  <2>2. CASE Past(w) /\ buffer' = buffer
    BY <2>2 DEF Fresh
  <2> QED
    BY <2>1, <2>2
<1>4. \A v \in Writers : pc'[v] = "store" =>
         loaded'[v] \subseteq Recent /\ at'[v] <= Len(Fields)
  BY DEF Fresh
<1>5. \A v \in Writers : pc'[v] \in {"command", "data"} =>
         \A f \in Field : copy'[v][f] \subseteq Recent
  BY DEF Fresh
<1> QED
  BY <1>1, <1>2, <1>3, <1>4, <1>5 DEF Fresh

\* update_display and oled_flush_buffer.
LEMMA DrawKeeps ==
    ASSUME FieldsAssumption, IInv, NEW w \in Writers, Draw(w)
    PROVE  IInv'
<1> USE DEF IInv
<1>1. CASE Clear(w)
  <2>1. /\ pc[w] = "clear" /\ pc' = [pc EXCEPT ![w] = "load"]
        /\ at' = [at EXCEPT ![w] = 1] /\ buffer' = Blank
        /\ UNCHANGED <<id, loaded, copy, writes, base>>
    BY <1>1 DEF Clear, Goto, history
  <2>2. Blank \in [Field -> SUBSET Nat]
    BY DEF Blank
  <2>3. Typed'
    BY <2>1, <2>2 DEF Typed
  <2> QED
    BY <2>1, <2>3, Inkless DEF Typed
<1>2. CASE Load(w)
  <2>1. /\ pc[w] = "load" /\ at[w] <= Len(Fields)
        /\ UNCHANGED <<id, copy, buffer, writes, base>>
    BY <1>2 DEF Load, history
  <2>2. at[w] \in Nat \ {0} /\ Fields[at[w]] \in Field
    BY <2>1, DrawnField DEF Typed
  <2>3. CASE at' = [at EXCEPT ![w] = @ + 1] /\ UNCHANGED <<pc, loaded>>
    <3>1. Typed'
      BY <2>1, <2>2, <2>3 DEF Typed
    <3> QED
      BY <2>1, <2>3, <3>1, Inkless DEF Typed, Past
  <2>4. CASE /\ loaded' = [loaded EXCEPT ![w] = buffer[Fields[at[w]]]]
             /\ pc' = [pc EXCEPT ![w] = "store"] /\ UNCHANGED at
    <3>1. buffer[Fields[at[w]]] \subseteq Recent
      BY <2>1, <2>2 DEF Fresh, Past
    <3>2. buffer[Fields[at[w]]] \in SUBSET Nat
      BY <2>2 DEF Typed
    <3>3. Typed'
      BY <2>1, <2>4, <3>2 DEF Typed
    <3>4. Recent' = Recent
      BY <2>1 DEF Recent
    <3>5. pc'[w] = "store" /\ loaded'[w] \subseteq Recent
          /\ \A v \in Writers \ {w} : pc'[v] = pc[v] /\ loaded'[v] = loaded[v]
      BY <2>4, <3>1 DEF Typed
    <3>6. \A v \in Writers : Past(v)' => Past(v)
      BY <2>1, <3>5 DEF Past
    <3> QED
      BY <2>1, <2>4, <3>3, <3>4, <3>5, <3>6 DEF Fresh
  <2> QED
    BY <1>2, <2>3, <2>4 DEF Load, Goto
<1>3. CASE Store(w)
  <2>1. /\ pc[w] = "store" /\ pc' = [pc EXCEPT ![w] = "load"]
        /\ buffer' = [buffer EXCEPT ![Fields[at[w]]] = loaded[w] \cup {id[w]}]
        /\ loaded' = [loaded EXCEPT ![w] = {}] /\ at' = [at EXCEPT ![w] = @ + 1]
        /\ UNCHANGED <<id, copy, writes, base>>
    BY <1>3 DEF Store, Goto, history
  <2>2. at[w] \in Nat \ {0} /\ Fields[at[w]] \in Field
    BY <2>1, DrawnField DEF Typed, Fresh
  <2>3. loaded[w] \cup {id[w]} \subseteq Recent /\ Recent \subseteq Nat
    BY <2>1 DEF Fresh, Recent, Typed
  <2>4. Typed'
    <3>1. buffer' \in [Field -> SUBSET Nat]
      BY <2>1, <2>2, <2>3 DEF Typed
    <3> QED
      BY <2>1, <2>2, <3>1 DEF Typed
  <2>5. \A f \in Field : buffer'[f] \subseteq Recent
    <3>1. \A f \in Field : buffer[f] \subseteq Recent
      BY <2>1 DEF Fresh, Past
    <3> QED
      BY <2>1, <2>2, <2>3, <3>1 DEF Typed
  <2>6. Recent' = Recent
    BY <2>1 DEF Recent
  <2>7. pc'[w] = "load"
        /\ \A v \in Writers \ {w} :
              pc'[v] = pc[v] /\ loaded'[v] = loaded[v] /\ at'[v] = at[v]
    BY <2>1 DEF Typed
  <2> QED
    BY <2>1, <2>4, <2>5, <2>6, <2>7 DEF Fresh
<1>4. CASE Copy(w)
  <2>1. /\ pc[w] = "load" /\ UNCHANGED <<id, loaded, buffer, writes, base>>
        /\ \/ /\ copy' = [copy EXCEPT ![w] = buffer]
              /\ at' = [at EXCEPT ![w] = 1] /\ pc' = [pc EXCEPT ![w] = "command"]
           \/ pc' = [pc EXCEPT ![w] = "idle"] /\ UNCHANGED <<copy, at>>
    BY <1>4 DEF Copy, Goto, history
  <2>2. Typed'
    <3>1. copy' \in [Writers -> [Field -> SUBSET Nat]] /\ at' \in [Writers -> Nat \ {0}]
      <4>1. CASE UNCHANGED <<copy, at>>
        BY <4>1 DEF Typed
      <4>2. CASE copy' = [copy EXCEPT ![w] = buffer] /\ at' = [at EXCEPT ![w] = 1]
        <5>1. copy' \in [Writers -> [Field -> SUBSET Nat]]
          BY <4>2 DEF Typed
        <5>2. at' \in [Writers -> Nat \ {0}]
          BY <4>2 DEF Typed
        <5> QED
          BY <5>1, <5>2
      <4> QED
        BY <2>1, <4>1, <4>2
    <3>2. pc' \in [Writers -> {"idle", "clear", "load", "store", "copy",
                               "command", "data"}]
      BY <2>1 DEF Typed
    <3> QED
      BY <2>1, <3>1, <3>2 DEF Typed
  <2>3. \A f \in Field : buffer[f] \subseteq Recent
    BY <2>1 DEF Fresh, Past
  <2> QED
    BY <2>1, <2>2, <2>3, Inkless DEF Typed, Past
<1>5. CASE Command(w)
  <2>1. /\ pc[w] = "command" /\ UNCHANGED <<id, loaded, copy, buffer, writes, base>>
        /\ \/ pc' = [pc EXCEPT ![w] = "data"] /\ at' = [at EXCEPT ![w] = 1]
           \/ at' = [at EXCEPT ![w] = @ + 1] /\ UNCHANGED pc
    BY <1>5 DEF Command, Goto, history
  <2>2. Typed'
    <3>1. at[w] + 1 \in Nat \ {0}
      BY DEF Typed
    <3>2. at' \in [Writers -> Nat \ {0}]
      BY <2>1, <3>1 DEF Typed
    <3>3. pc' \in [Writers -> {"idle", "clear", "load", "store", "copy",
                               "command", "data"}]
      BY <2>1 DEF Typed
    <3> QED
      BY <2>1, <3>2, <3>3 DEF Typed
  <2>3. \A f \in Field : copy[w][f] \subseteq Recent
    BY <2>1 DEF Fresh
  <2> QED
    BY <2>1, <2>2, <2>3, Inkless DEF Typed, Past
<1>6. CASE Data(w)
  <2>1. /\ pc[w] = "data" /\ UNCHANGED <<at, id, loaded, buffer, writes, base>>
        /\ copy' = [copy EXCEPT ![w] = Blank] /\ pc' = [pc EXCEPT ![w] = "idle"]
    BY <1>6 DEF Data, Goto, history
  <2>2. Typed'
    <3>1. Blank \in [Field -> SUBSET Nat]
      BY DEF Blank
    <3> QED
      BY <2>1, <3>1 DEF Typed
  <2> QED
    BY <2>1, <2>2, Inkless DEF Typed, Past
<1> QED
  BY <1>1, <1>2, <1>3, <1>4, <1>5, <1>6 DEF Draw

\* Every step of the writers.
LEMMA NextIInv == ASSUME FieldsAssumption, IInv, [Next]_vars PROVE IInv'
<1>1. CASE UNCHANGED vars
  BY <1>1 DEF vars, IInv, Typed, Fresh, Past, Recent
<1>2. CASE Next
  BY <1>2, WriteKeeps, DrawKeeps DEF Next
<1> QED
  BY <1>1, <1>2

\* For any processes, writes and fields: however writes overlap, a picture that
\* is sent has no ink of a write that was over when the driver was last at rest
\* (oled.c, update_display and oled_flush_buffer).
THEOREM NoGhostIsSent == ASSUME FieldsAssumption PROVE Spec => []NoGhosts
<1>1. IInv => NoGhosts
  BY DEF IInv, Fresh, Recent, NoGhosts
<1> QED
  BY <1>1, InitIInv, NextIInv, PTL DEF Spec
-----------------------------------------------------------------------------
(* The picture, while writes come one at a time and nothing fails.         *)

\* The display's registers between the command bytes, and the arguments that
\* it awaits before each of the six.
Awaiting(a) == [col1 |-> 0, col2 |-> 127, page1 |-> 0, page2 |-> 7,
                line |-> 0, awaits |-> a]
Awaited == <<<<>>, <<"col1", "col2">>, <<"col2">>,
             <<>>, <<"page1", "page2">>, <<"page2">>>>

LEMMA WholeAwaitsNothing == Whole = Awaiting(<<>>)
BY DEF Whole, Awaiting

\* An argument that is what its register holds already.
Argument(b, r) == IF r \in {"col1", "col2"} THEN b % 128 ELSE b % 8

LEMMA ArgumentReceived ==
    ASSUME NEW b, NEW r, NEW a, window = Awaiting(a), a # <<>>, r = Head(a), r # "awaits",
           window[r] = Argument(b, r)
    PROVE  Received(b) = Awaiting(Tail(a))
<1> DEFINE v == window[r]
           t == Tail(a)
<1>1. window.awaits = a
  BY DEF Awaiting
<1>2. Received(b) = [window EXCEPT ![r] = v, !.awaits = t]
  BY <1>1, Zenon DEF Received, Argument
<1> HIDE DEF t
<1>3. [window EXCEPT ![r] = v, !.awaits = t]
        = [x \in DOMAIN window |-> IF x = "awaits" THEN t ELSE IF x = r THEN v ELSE window[x]]
  OBVIOUS
<1>4. [x \in DOMAIN window |-> IF x = "awaits" THEN t ELSE IF x = r THEN v ELSE window[x]]
        = [x \in DOMAIN window |-> IF x = "awaits" THEN t ELSE window[x]]
  BY SMT
<1>5. [x \in DOMAIN window |-> IF x = "awaits" THEN t ELSE window[x]]
        = [window EXCEPT !.awaits = t]
  OBVIOUS
<1>6. [window EXCEPT !.awaits = t] = Awaiting(t)
  BY DEF Awaiting
<1> QED
  BY <1>2, <1>3, <1>4, <1>5, <1>6, Zenon DEF t

\* The two commands.
LEMMA CommandReceived ==
    ASSUME window = Awaiting(<<>>)
    PROVE  /\ Received(33) = Awaiting(<<"col1", "col2">>)
           /\ Received(34) = Awaiting(<<"page1", "page2">>)
<1>1. window.awaits = <<>>
  BY DEF Awaiting
<1>2. 33 # 34 /\ 33 \notin 64 .. 127 /\ 34 \notin 64 .. 127
  OBVIOUS
<1>3. Received(33) = [window EXCEPT !.awaits = <<"col1", "col2">>]
  BY <1>1, <1>2, Zenon DEF Received
<1>4. Received(34) = [window EXCEPT !.awaits = <<"page1", "page2">>]
  BY <1>1, <1>2, Zenon DEF Received
<1>5. ASSUME NEW t PROVE [window EXCEPT !.awaits = t] = Awaiting(t)
  BY DEF Awaiting
<1> QED
  BY <1>3, <1>4, <1>5

\* Six bytes in a row bring the window back to the whole screen.
LEMMA ByteReceived ==
    ASSUME NEW k \in 1 .. 6, window = Awaiting(Awaited[k])
    PROVE  Received(Window[k]) = Awaiting(IF k < 6 THEN Awaited[k + 1] ELSE <<>>)
<1>1. CASE k = 1
  BY <1>1, CommandReceived DEF Awaited, Window
<1>2. CASE k = 2
  <2>1. window = Awaiting(<<"col1", "col2">>)
    BY <1>2 DEF Awaited
  <2>2. window["col1"] = Argument(0, "col1")
    BY <2>1 DEF Awaiting, Argument
  <2>3. /\ <<"col1", "col2">> # <<>> /\ "col1" = Head(<<"col1", "col2">>)
        /\ "col1" # "awaits"
    OBVIOUS
  <2>4. Received(0) = Awaiting(Tail(<<"col1", "col2">>))
    BY <2>1, <2>2, <2>3, ArgumentReceived
  <2> QED
    BY <1>2, <2>4 DEF Awaited, Window
<1>3. CASE k = 3
  <2>1. window = Awaiting(<<"col2">>)
    BY <1>3 DEF Awaited
  <2>2. window["col2"] = Argument(127, "col2")
    BY <2>1 DEF Awaiting, Argument
  <2>3. <<"col2">> # <<>> /\ "col2" = Head(<<"col2">>) /\ "col2" # "awaits"
    OBVIOUS
  <2>4. Received(127) = Awaiting(Tail(<<"col2">>))
    BY <2>1, <2>2, <2>3, ArgumentReceived
  <2> QED
    BY <1>3, <2>4 DEF Awaited, Window
<1>4. CASE k = 4
  BY <1>4, CommandReceived DEF Awaited, Window
<1>5. CASE k = 5
  <2>1. window = Awaiting(<<"page1", "page2">>)
    BY <1>5 DEF Awaited
  <2>2. window["page1"] = Argument(0, "page1")
    BY <2>1 DEF Awaiting, Argument
  <2>3. /\ <<"page1", "page2">> # <<>> /\ "page1" = Head(<<"page1", "page2">>)
        /\ "page1" # "awaits"
    OBVIOUS
  <2>4. Received(0) = Awaiting(Tail(<<"page1", "page2">>))
    BY <2>1, <2>2, <2>3, ArgumentReceived
  <2> QED
    BY <1>5, <2>4 DEF Awaited, Window
<1>6. CASE k = 6
  <2>1. window = Awaiting(<<"page2">>)
    BY <1>6 DEF Awaited
  <2>2. window["page2"] = Argument(7, "page2")
    BY <2>1 DEF Awaiting, Argument
  <2>3. <<"page2">> # <<>> /\ "page2" = Head(<<"page2">>) /\ "page2" # "awaits"
    OBVIOUS
  <2>4. Received(7) = Awaiting(Tail(<<"page2">>))
    BY <2>1, <2>2, <2>3, ArgumentReceived
  <2> QED
    BY <1>6, <2>4 DEF Awaited, Window
<1> QED
  BY <1>1, <1>2, <1>3, <1>4, <1>5, <1>6

\* The picture a writer was given, and what it has drawn of it.
Given(w) == [f \in Field |-> IF f = Spectrum /\ ~plays[w] THEN {} ELSE {id[w]}]
Drawn(w) ==
    [f \in Field |-> IF \E i \in 1 .. at[w] - 1 : Fields[i] = f THEN Given(w)[f] ELSE {}]

\* What a writer that is not disturbed finds where it is.
Undisturbed(w) ==
    /\ pc[w] # "idle" => latest = Given(w)
    /\ pc[w] \in {"load", "store"} => buffer = Drawn(w)
    /\ pc[w] = "store" =>
          /\ loaded[w] = buffer[Fields[at[w]]]
          /\ Fields[at[w]] # Spectrum \/ plays[w]
    /\ pc[w] \in {"command", "data"} => copy[w] = latest
    /\ pc[w] \in {"clear", "load", "store", "data"} => window = Whole
    /\ pc[w] = "command" => at[w] \in 1 .. 6 /\ window = Awaiting(Awaited[at[w]])

\* The driver at rest shows the last picture, and takes the next one whole.
Shows == shown = latest /\ ~garbled /\ window = Whole

\* Until two writes meet or one fails there is one writer at most.
Serial ==
    ~trouble =>
        /\ Idle => Shows
        /\ \A v, w \in Writers : pc[v] # "idle" /\ pc[w] # "idle" => v = w
        /\ \A w \in Writers : Undisturbed(w)

SInv == IInv /\ plays \in [Writers -> BOOLEAN] /\ Serial

LEMMA InitSInv == Init => SInv
<1> SUFFICES ASSUME Init PROVE SInv
  OBVIOUS
<1>1. plays \in [Writers -> BOOLEAN] /\ Shows /\ \A w \in Writers : pc[w] = "idle"
  BY DEF Init, Shows
<1> QED
  BY <1>1, InitIInv DEF SInv, Serial, Undisturbed

\* What is left to look at after a step of a writer that was, or is, alone.
LEMMA OnlyThis ==
    ASSUME NEW w \in Writers, \A v \in Writers \ {w} : pc'[v] = "idle",
           Undisturbed(w)', pc'[w] = "idle" => Shows'
    PROVE  Serial'
<1>1. \A v \in Writers \ {w} : Undisturbed(v)'
  BY DEF Undisturbed
<1> QED
  BY <1>1 DEF Serial, Idle

\* A writer that is on its way is the only one.
LEMMA NobodyElse ==
    ASSUME SInv, ~trouble, NEW w \in Writers, pc[w] # "idle"
    PROVE  Undisturbed(w) /\ \A v \in Writers \ {w} : pc[v] = "idle"
BY DEF SInv, Serial

LEMMA WriteIsSerial ==
    ASSUME SInv, NEW w \in Writers, Write(w)
    PROVE  Serial'
<1>1. SUFFICES ASSUME ~trouble' PROVE Serial'
  BY DEF Serial
<1>2. Idle /\ ~trouble
  BY <1>1 DEF Write
<1>3. Shows
  BY <1>2 DEF SInv, Serial
<1>4. /\ pc' = [pc EXCEPT ![w] = "clear"] /\ id' = [id EXCEPT ![w] = writes + 1]
      /\ UNCHANGED window
  BY DEF Write, Goto, display
<1>5. pc'[w] = "clear" /\ \A v \in Writers \ {w} : pc'[v] = "idle"
  BY <1>2, <1>4 DEF SInv, IInv, Typed, Idle
<1>6. latest' = Given(w)'
  <2>1. PICK p \in BOOLEAN :
          /\ plays' = [plays EXCEPT ![w] = p]
          /\ latest' = [f \in Field |-> IF f = Spectrum /\ ~p THEN {} ELSE {writes + 1}]
    BY DEF Write
  <2>2. plays'[w] = p
    BY <2>1 DEF SInv
  <2>3. id'[w] = writes + 1
    BY <1>4 DEF SInv, IInv, Typed
  <2> QED
    BY <2>1, <2>2, <2>3 DEF Given, Field
<1>7. Undisturbed(w)'
  BY <1>3, <1>4, <1>5, <1>6 DEF Undisturbed, Shows
<1> QED
  BY <1>5, <1>7, OnlyThis

\* A field more is drawn, with the ink it was given.
LEMMA OneMoreDrawn ==
    ASSUME FieldsAssumption, NEW w \in Writers, at[w] \in Nat \ {0}, at'[w] = at[w] + 1,
           UNCHANGED <<id, plays>>, NEW g, g = Fields[at[w]]
    PROVE  Drawn(w)' = [f \in Field |-> IF f = g THEN Given(w)[f] ELSE Drawn(w)[f]]
<1>1. Given(w)' = Given(w)
  BY DEF Given, Field
<1>2. 1 .. at'[w] - 1 = (1 .. at[w] - 1) \cup {at[w]}
  OBVIOUS
<1>3. ASSUME NEW f \in Field
      PROVE  (\E i \in 1 .. at'[w] - 1 : Fields[i] = f)
               <=> f = g \/ \E i \in 1 .. at[w] - 1 : Fields[i] = f
  BY <1>2
<1>4. Drawn(w)'
        = [f \in Field |-> IF \E i \in 1 .. at'[w] - 1 : Fields[i] = f
                           THEN Given(w)[f] ELSE {}]
  BY <1>1 DEF Drawn, Field
<1>5. ASSUME NEW f \in Field
      PROVE  Drawn(w)[f] = IF \E i \in 1 .. at[w] - 1 : Fields[i] = f
                           THEN Given(w)[f] ELSE {}
  BY DEF Drawn
<1> HIDE DEF Field
<1> QED
  BY <1>3, <1>4, <1>5

\* update_display and oled_flush_buffer, undisturbed.
LEMMA DrawIsSerial ==
    ASSUME FieldsAssumption, SInv, NEW w \in Writers, Draw(w)
    PROVE  Serial'
<1>1. SUFFICES ASSUME ~trouble' PROVE Serial'
  BY DEF Serial
<1>2. pc[w] # "idle" /\ ~trouble /\ UNCHANGED <<id, plays, latest>>
  BY <1>1 DEF Draw, Clear, Load, Store, Copy, Command, Data, history
<1>3. Undisturbed(w) /\ \A v \in Writers \ {w} : pc[v] = "idle"
  BY <1>2, NobodyElse
<1>4. Given(w)' = Given(w) /\ latest' = Given(w)
  BY <1>2, <1>3 DEF Given, Field, Undisturbed
<1>5. Typed
  BY DEF SInv, IInv
<1>6. ASSUME NEW place, pc' = [pc EXCEPT ![w] = place]
      PROVE  pc'[w] = place /\ \A v \in Writers \ {w} : pc'[v] = "idle"
  BY <1>3, <1>5, <1>6 DEF Typed
<1>7. UNCHANGED pc => \A v \in Writers \ {w} : pc'[v] = "idle"
  BY <1>3
<1>8. CASE Clear(w)
  <2>1. /\ pc[w] = "clear" /\ pc' = [pc EXCEPT ![w] = "load"] /\ buffer' = Blank
        /\ at' = [at EXCEPT ![w] = 1] /\ UNCHANGED window
    BY <1>8 DEF Clear, Goto, display
  <2>2. pc'[w] = "load" /\ \A v \in Writers \ {w} : pc'[v] = "idle"
    BY <2>1, <1>6
  <2>3. at'[w] = 1
    BY <2>1, <1>5 DEF Typed
  <2>4. Drawn(w)' = Blank
    BY <2>3 DEF Drawn, Blank, Field
  <2>5. Undisturbed(w)'
    BY <1>3, <1>4, <2>1, <2>2, <2>4 DEF Undisturbed
  <2> QED
    BY <2>2, <2>5, OnlyThis
<1>9. CASE Load(w)
  <2>1. /\ pc[w] = "load" /\ at[w] <= Len(Fields) /\ UNCHANGED <<buffer, window, plays>>
    BY <1>9 DEF Load, display
  <2>2. at[w] \in Nat \ {0} /\ Fields[at[w]] \in Field
    BY <2>1, <1>5, DrawnField DEF Typed
  <2>3. CASE /\ Fields[at[w]] = Spectrum /\ ~plays[w]
             /\ at' = [at EXCEPT ![w] = @ + 1] /\ UNCHANGED pc
    <3>1. at'[w] = at[w] + 1
      BY <2>3, <1>5 DEF Typed
    <3>2. Drawn(w)' = [f \in Field |-> IF f = Spectrum THEN Given(w)[f] ELSE Drawn(w)[f]]
      BY <1>2, <2>2, <2>3, <3>1, OneMoreDrawn
    <3>3. ASSUME NEW f \in Field, f = Spectrum PROVE Given(w)[f] = Drawn(w)[f]
      BY <2>3, <3>3 DEF Given, Drawn
    <3>4. Drawn(w)' = Drawn(w)
      BY <3>2, <3>3 DEF Drawn
    <3>5. Undisturbed(w)'
      BY <1>3, <1>4, <2>1, <2>3, <3>4 DEF Undisturbed
    <3> QED
      BY <1>7, <2>1, <2>3, <3>5, OnlyThis
  <2>4. CASE /\ Fields[at[w]] # Spectrum \/ plays[w]
             /\ loaded' = [loaded EXCEPT ![w] = buffer[Fields[at[w]]]]
             /\ pc' = [pc EXCEPT ![w] = "store"] /\ UNCHANGED at
    <3>1. pc'[w] = "store" /\ \A v \in Writers \ {w} : pc'[v] = "idle"
      BY <2>4, <1>6
    <3>2. loaded'[w] = buffer'[Fields[at'[w]]]
      BY <2>1, <2>4, <1>5 DEF Typed
    <3>3. Drawn(w)' = Drawn(w)
      BY <1>4, <2>4 DEF Drawn, Field
    <3>4. Undisturbed(w)'
      BY <1>3, <1>4, <2>1, <2>4, <3>1, <3>2, <3>3 DEF Undisturbed
    <3> QED
      BY <3>1, <3>4, OnlyThis
  <2> QED
    BY <1>9, <2>3, <2>4 DEF Load, Goto
<1>10. CASE Store(w)
  <2>1. /\ pc[w] = "store" /\ pc' = [pc EXCEPT ![w] = "load"]
        /\ buffer' = [buffer EXCEPT ![Fields[at[w]]] = loaded[w] \cup {id[w]}]
        /\ at' = [at EXCEPT ![w] = @ + 1] /\ UNCHANGED window
    BY <1>10 DEF Store, Goto, display
  <2>2. pc'[w] = "load" /\ \A v \in Writers \ {w} : pc'[v] = "idle"
    BY <2>1, <1>6
  <2>3. at'[w] = at[w] + 1 /\ at[w] \in Nat \ {0} /\ Fields[at[w]] \in Field
    BY <2>1, <1>5, DrawnField DEF Typed, SInv, IInv, Fresh
  <2> DEFINE g == Fields[at[w]]
  <2>4. /\ buffer = Drawn(w) /\ loaded[w] = Drawn(w)[g]
        /\ g # Spectrum \/ plays[w]
    BY <1>3, <2>1 DEF Undisturbed
  <2>5. Drawn(w)' = [f \in Field |-> IF f = g THEN Given(w)[f] ELSE Drawn(w)[f]]
    BY <1>2, <2>3, OneMoreDrawn
  <2>6. Given(w)[g] = {id[w]} /\ Drawn(w)[g] \in {{}, Given(w)[g]}
    BY <2>3, <2>4 DEF Given, Drawn
  <2>7. loaded[w] \cup {id[w]} = Given(w)[g]
    BY <2>4, <2>6
  <2>8. buffer' = [f \in Field |-> IF f = g THEN Given(w)[f] ELSE Drawn(w)[f]]
    BY <2>1, <2>3, <2>4, <2>7 DEF Drawn
  <2>9. Undisturbed(w)'
    BY <1>3, <1>4, <2>1, <2>2, <2>5, <2>8 DEF Undisturbed
  <2> QED
    BY <2>2, <2>9, OnlyThis
<1>11. CASE Copy(w)
  <2>1. /\ pc[w] = "load" /\ at[w] > Len(Fields) /\ copy' = [copy EXCEPT ![w] = buffer]
        /\ at' = [at EXCEPT ![w] = 1] /\ pc' = [pc EXCEPT ![w] = "command"]
        /\ UNCHANGED window
    BY <1>1, <1>11 DEF Copy, Goto, display
  <2>2. pc'[w] = "command" /\ \A v \in Writers \ {w} : pc'[v] = "idle"
    BY <2>1, <1>6
  <2>3. copy'[w] = Drawn(w) /\ at'[w] = 1
    BY <1>3, <1>5, <2>1 DEF Undisturbed, Typed
  <2>4. Drawn(w) = Given(w)
    <3>1. Len(Fields) \in Nat /\ at[w] \in Nat
      BY <1>5 DEF FieldsAssumption, Typed
    <3>2. \A f \in Field : \E i \in 1 .. at[w] - 1 : Fields[i] = f
      BY <2>1, <3>1 DEF Field
    <3> QED
      BY <3>2 DEF Drawn, Given
  <2>5. window' = Awaiting(Awaited[1])
    BY <1>3, <2>1, WholeAwaitsNothing DEF Undisturbed, Awaited
  <2>6. Undisturbed(w)'
    BY <1>4, <2>2, <2>3, <2>4, <2>5 DEF Undisturbed
  <2> QED
    BY <2>2, <2>6, OnlyThis
<1>12. CASE Command(w)
  <2>1. /\ pc[w] = "command" /\ window' = Received(Window[at[w]]) /\ UNCHANGED copy
        /\ \/ at[w] = 6 /\ pc' = [pc EXCEPT ![w] = "data"]
           \/ at[w] < 6 /\ at' = [at EXCEPT ![w] = @ + 1] /\ UNCHANGED pc
    BY <1>1, <1>12 DEF Command, Goto, Window
  <2>2. at[w] \in 1 .. 6 /\ window = Awaiting(Awaited[at[w]]) /\ copy'[w] = latest'
    BY <1>2, <1>3, <2>1 DEF Undisturbed
  <2>3. window' = Awaiting(IF at[w] < 6 THEN Awaited[at[w] + 1] ELSE <<>>)
    BY <2>1, <2>2, ByteReceived
  <2>4. CASE at[w] = 6 /\ pc' = [pc EXCEPT ![w] = "data"]
    <3>1. pc'[w] = "data" /\ \A v \in Writers \ {w} : pc'[v] = "idle"
      BY <2>4, <1>6
    <3>2. window' = Whole
      BY <2>3, <2>4, WholeAwaitsNothing
    <3>3. Undisturbed(w)'
      BY <1>4, <2>2, <3>1, <3>2 DEF Undisturbed
    <3> QED
      BY <3>1, <3>3, OnlyThis
  <2>5. CASE at[w] < 6 /\ at' = [at EXCEPT ![w] = @ + 1] /\ UNCHANGED pc
    <3>1. at'[w] = at[w] + 1
      BY <2>5, <1>5 DEF Typed
    <3>2. at'[w] \in 1 .. 6 /\ window' = Awaiting(Awaited[at'[w]])
      BY <2>2, <2>3, <2>5, <3>1
    <3>3. Undisturbed(w)'
      BY <1>4, <2>1, <2>2, <2>5, <3>2 DEF Undisturbed
    <3> QED
      BY <1>7, <2>1, <2>5, <3>3, OnlyThis
  <2> QED
    BY <2>1, <2>4, <2>5
<1>13. CASE Data(w)
  <2>1. /\ pc[w] = "data" /\ shown' = copy[w] /\ garbled' = (window # Whole)
        /\ pc' = [pc EXCEPT ![w] = "idle"] /\ UNCHANGED window
    BY <1>1, <1>13 DEF Data, Goto
  <2>2. pc'[w] = "idle" /\ \A v \in Writers \ {w} : pc'[v] = "idle"
    BY <2>1, <1>6
  <2>3. Shows'
    BY <1>2, <1>3, <2>1 DEF Undisturbed, Shows
  <2>4. Undisturbed(w)'
    BY <2>2 DEF Undisturbed
  <2> QED
    BY <2>2, <2>3, <2>4, OnlyThis
<1> QED
  BY <1>8, <1>9, <1>10, <1>11, <1>12, <1>13 DEF Draw

LEMMA NextSInv == ASSUME FieldsAssumption, SInv, [Next]_vars PROVE SInv'
<1>1. IInv'
  BY NextIInv DEF SInv
<1>2. CASE UNCHANGED vars
  <2>1. UNCHANGED vars
    BY <1>2
  <2>2. \A w \in Writers : Given(w)' = Given(w) /\ Drawn(w)' = Drawn(w)
    BY <2>1 DEF vars, Given, Drawn, Field
  <2>3. \A w \in Writers : Undisturbed(w) => Undisturbed(w)'
    BY <2>1, <2>2 DEF vars, Undisturbed
  <2>4. UNCHANGED <<plays, Idle, Shows>>
    BY <2>1 DEF vars, Idle, Shows
  <2>5. Serial'
    BY <2>1, <2>3, <2>4 DEF vars, SInv, Serial
  <2> QED
    BY <1>1, <2>4, <2>5 DEF SInv
<1>3. CASE Next
  <2>1. Serial'
    BY <1>3, WriteIsSerial, DrawIsSerial DEF Next
  <2>2. plays' \in [Writers -> BOOLEAN]
    <3>1. plays \in [Writers -> BOOLEAN]
      BY DEF SInv
    <3>2. ASSUME NEW w \in Writers, Write(w) PROVE plays' \in [Writers -> BOOLEAN]
      BY <3>1, <3>2 DEF Write
    <3>3. ASSUME NEW w \in Writers, Draw(w) PROVE UNCHANGED plays
      BY <3>3 DEF Draw, Clear, Load, Store, Copy, Command, Data
    <3> QED
      BY <1>3, <3>1, <3>2, <3>3 DEF Next
  <2> QED
    BY <1>1, <2>1, <2>2 DEF SInv
<1> QED
  BY <1>2, <1>3

\* For any processes, writes and fields: while writes come one at a time and
\* nothing fails, the driver at rest shows what the last one was given and
\* nothing else (oled.c, update_display, oled_flush_buffer, oled_send_cmd).
THEOREM LastPictureIsShown == ASSUME FieldsAssumption PROVE Spec => []SerialPicture
<1>1. SInv => SerialPicture
  BY DEF SInv, Serial, Shows, SerialPicture
<1> QED
  BY <1>1, InitSInv, NextSInv, PTL DEF Spec


-----------------------------------------------------------------------------
(* Types.                                                                  *)

\* The display's registers, which await the rest of one command's arguments.
Registers ==
    [col1 : 0 .. 127, col2 : 0 .. 127, page1 : 0 .. 7, page2 : 0 .. 7, line : 0 .. 63,
     awaits : {<<>>, <<"col1", "col2">>, <<"col2">>, <<"page1", "page2">>, <<"page2">>}]

TInv ==
    /\ TypeOK /\ IInv
    /\ window \in Registers
    /\ \A w \in Writers : pc[w] = "command" => at[w] \in 1 .. 6

\* Whatever byte the display receives, its registers keep their widths.
LEMMA RegistersKeep ==
    ASSUME window \in Registers, NEW b \in Nat
    PROVE  Received(b) \in Registers
<1>1. CASE window.awaits = <<>>
  <2>1. b \in 64 .. 127 => b % 64 \in 0 .. 63
    OBVIOUS
  <2>2. Received(b) =
          CASE b = 33 -> [window EXCEPT !.awaits = <<"col1", "col2">>]
            [] b = 34 -> [window EXCEPT !.awaits = <<"page1", "page2">>]
            [] b \in 64 .. 127 -> [window EXCEPT !.line = b % 64]
            [] OTHER -> window
    BY <1>1, Zenon DEF Received
  <2>3. /\ [window EXCEPT !.awaits = <<"col1", "col2">>] \in Registers
        /\ [window EXCEPT !.awaits = <<"page1", "page2">>] \in Registers
    BY DEF Registers
  <2>4. b \in 64 .. 127 => [window EXCEPT !.line = b % 64] \in Registers
    BY <2>1 DEF Registers
  <2> HIDE DEF Registers
  <2>5. CASE b = 33
    BY <2>2, <2>3, <2>5
  <2>6. CASE b = 34
    BY <2>2, <2>3, <2>6
  <2>7. CASE b # 33 /\ b # 34 /\ b \in 64 .. 127
    BY <2>2, <2>4, <2>7
  <2>8. CASE b # 33 /\ b # 34 /\ b \notin 64 .. 127
    BY <2>2, <2>8
  <2> QED
    BY <2>5, <2>6, <2>7, <2>8
<1>2. CASE window.awaits # <<>>
  <2>1. b % 128 \in 0 .. 127 /\ b % 8 \in 0 .. 7
    OBVIOUS
  <2>2. window.awaits \in {<<"col1", "col2">>, <<"col2">>, <<"page1", "page2">>, <<"page2">>}
    BY <1>2 DEF Registers
  <2>3. CASE window.awaits = <<"col1", "col2">>
    <3>1. Received(b) = [window EXCEPT !["col1"] = b % 128, !.awaits = <<"col2">>]
      BY <2>3 DEF Received
    <3> QED
      BY <2>1, <3>1 DEF Registers
  <2>4. CASE window.awaits = <<"col2">>
    <3>1. Received(b) = [window EXCEPT !["col2"] = b % 128, !.awaits = <<>>]
      BY <2>4 DEF Received
    <3> QED
      BY <2>1, <3>1 DEF Registers
  <2>5. CASE window.awaits = <<"page1", "page2">>
    <3>1. Received(b) = [window EXCEPT !["page1"] = b % 8, !.awaits = <<"page2">>]
      BY <2>5 DEF Received
    <3> QED
      BY <2>1, <3>1 DEF Registers
  <2>6. CASE window.awaits = <<"page2">>
    <3>1. Received(b) = [window EXCEPT !["page2"] = b % 8, !.awaits = <<>>]
      BY <2>6 DEF Received
    <3> QED
      BY <2>1, <3>1 DEF Registers
  <2> QED
    BY <2>2, <2>3, <2>4, <2>5, <2>6
<1> QED
  BY <1>1, <1>2

LEMMA InitTInv == ASSUME WritesAssumption, Init PROVE TInv
<1>1. 0 \in 0 .. MaxWrites
  BY DEF WritesAssumption
<1>2. Blank \in Picture
  BY DEF Blank, Picture
<1>3. /\ id \in [Writers -> 0 .. MaxWrites] /\ at \in [Writers -> Nat]
      /\ loaded \in [Writers -> SUBSET (1 .. MaxWrites)] /\ copy \in [Writers -> Picture]
  BY <1>1, <1>2 DEF Init
<1>4. /\ pc \in [Writers -> {"idle", "clear", "load", "store", "copy", "command", "data"}]
      /\ \A w \in Writers : pc[w] = "idle"
  BY DEF Init
<1>5. window \in Registers
  BY DEF Init, Whole, Registers
<1>6. TypeOK
  BY <1>1, <1>2, <1>3, <1>4, <1>5 DEF Init, TypeOK, Registers
<1> QED
  BY <1>4, <1>5, <1>6, InitIInv DEF TInv

LEMMA NextTInv ==
    ASSUME FieldsAssumption, WritesAssumption, TInv, [Next]_vars
    PROVE  TInv'
<1>1. IInv'
  BY NextIInv DEF TInv
<1>2. TypeOK /\ IInv /\ window \in Registers /\ MaxWrites \in Nat
  BY DEF TInv, WritesAssumption
<1>3. ASSUME window' \in Registers
      PROVE  /\ window'.col1 \in 0 .. 127 /\ window'.col2 \in 0 .. 127
             /\ window'.page1 \in 0 .. 7 /\ window'.page2 \in 0 .. 7
             /\ window'.line \in 0 .. 63
  BY <1>3 DEF Registers
<1>4. pc' \in [Writers -> {"idle", "clear", "load", "store", "copy", "command", "data"}]
      /\ at' \in [Writers -> Nat]
  BY <1>1 DEF IInv, Typed
<1>5. CASE UNCHANGED vars
  BY <1>1, <1>2, <1>5 DEF vars, TInv, TypeOK
<1>6. ASSUME NEW w \in Writers, Write(w) PROVE TInv'
  <2>1. /\ writes < MaxWrites /\ writes' = writes + 1
        /\ id' = [id EXCEPT ![w] = writes + 1] /\ pc' = [pc EXCEPT ![w] = "clear"]
        /\ base' \in {writes, base} /\ trouble' = (trouble \/ ~Idle)
        /\ UNCHANGED <<at, loaded, copy, buffer, window, shown, garbled>>
    BY <1>6 DEF Write, Goto, display
  <2>2. PICK p \in BOOLEAN :
          /\ plays' = [plays EXCEPT ![w] = p]
          /\ latest' = [f \in Field |-> IF f = Spectrum /\ ~p THEN {} ELSE {writes + 1}]
    BY <1>6 DEF Write
  <2>3. writes + 1 \in 1 .. MaxWrites
    BY <1>2, <2>1 DEF TypeOK
  <2>4. latest' \in Picture
    BY <2>2, <2>3 DEF Picture
  <2>5. id' \in [Writers -> 0 .. MaxWrites] /\ plays' \in [Writers -> BOOLEAN]
    BY <1>2, <2>1, <2>2, <2>3 DEF TypeOK
  <2>6. trouble' \in BOOLEAN
    BY <1>2, <2>1 DEF TypeOK
  <2>7. \A v \in Writers : pc'[v] = "command" => at'[v] \in 1 .. 6
    BY <2>1, <1>2 DEF TInv, TypeOK
  <2>8. writes' \in 0 .. MaxWrites /\ base' \in 0 .. MaxWrites
    BY <1>2, <2>1, <2>3 DEF TypeOK
  <2>9. TypeOK'
    BY <1>2, <1>3, <1>4, <2>1, <2>4, <2>5, <2>6, <2>8 DEF TypeOK
  <2> QED
    BY <1>1, <1>2, <2>1, <2>7, <2>9 DEF TInv
<1>7. ASSUME NEW w \in Writers, Draw(w) PROVE TInv'
  <2>1. /\ UNCHANGED <<id, plays, writes, base, latest>>
        /\ pc[w] # "idle"
    BY <1>7 DEF Draw, Clear, Load, Store, Copy, Command, Data, history
  <2>2. id[w] \in 1 .. MaxWrites
    BY <1>2, <2>1 DEF TypeOK, IInv, Fresh, Recent
  <2>3. Blank \in Picture
    BY DEF Blank, Picture
  <2>4. SUFFICES /\ loaded' \in [Writers -> SUBSET (1 .. MaxWrites)]
                 /\ copy' \in [Writers -> Picture]
                 /\ buffer' \in Picture /\ shown' \in Picture
                 /\ garbled' \in BOOLEAN /\ trouble' \in BOOLEAN
                 /\ window' \in Registers
                 /\ \A v \in Writers : pc'[v] = "command" => at'[v] \in 1 .. 6
    <3>1. TypeOK'
      BY <1>2, <1>3, <1>4, <2>1, <2>4 DEF TypeOK
    <3> QED
      BY <1>1, <2>4, <3>1 DEF TInv
  <2> DEFINE PcAt == \A v \in Writers : pc'[v] = "command" => at'[v] \in 1 .. 6
  <2>5. ASSUME NEW place \in {"idle", "load", "store", "data"},
               pc' = [pc EXCEPT ![w] = place], \A v \in Writers \ {w} : at'[v] = at[v]
        PROVE  PcAt
    BY <1>2, <2>5 DEF TInv, TypeOK
  <2>6. CASE Clear(w)
    <3>1. PcAt
      BY <1>2, <2>5, <2>6 DEF Clear, Goto, TypeOK
    <3> QED
      BY <1>2, <2>3, <2>6, <3>1 DEF Clear, TypeOK, display
  <2>7. CASE Load(w)
    <3>1. /\ pc[w] = "load" /\ at[w] <= Len(Fields)
          /\ UNCHANGED <<copy, buffer, shown, garbled, window, trouble>>
      BY <2>7 DEF Load, display
    <3>2. Fields[at[w]] \in Field
      BY <1>2, <3>1, DrawnField DEF IInv, Typed
    <3>3. buffer[Fields[at[w]]] \subseteq 1 .. MaxWrites
      BY <1>2, <3>2 DEF TypeOK, Picture
    <3>4. CASE at' = [at EXCEPT ![w] = @ + 1] /\ UNCHANGED <<pc, loaded>>
      <4>1. PcAt
        BY <1>2, <3>1, <3>4 DEF TInv, TypeOK
      <4> QED
        BY <1>2, <3>1, <3>4, <4>1 DEF TypeOK
    <3>5. CASE /\ loaded' = [loaded EXCEPT ![w] = buffer[Fields[at[w]]]]
               /\ pc' = [pc EXCEPT ![w] = "store"] /\ UNCHANGED at
      <4>1. PcAt
        BY <2>5, <3>5
      <4>2. loaded' \in [Writers -> SUBSET (1 .. MaxWrites)]
        BY <1>2, <3>3, <3>5 DEF TypeOK
      <4> QED
        BY <1>2, <3>1, <4>1, <4>2 DEF TypeOK
    <3> QED
      BY <2>7, <3>4, <3>5 DEF Load, Goto
  <2>8. CASE Store(w)
    <3>1. /\ pc[w] = "store" /\ pc' = [pc EXCEPT ![w] = "load"]
          /\ buffer' = [buffer EXCEPT ![Fields[at[w]]] = loaded[w] \cup {id[w]}]
          /\ loaded' = [loaded EXCEPT ![w] = {}] /\ at' = [at EXCEPT ![w] = @ + 1]
          /\ UNCHANGED <<copy, shown, garbled, window, trouble>>
      BY <2>8 DEF Store, Goto, display
    <3>2. loaded[w] \cup {id[w]} \subseteq 1 .. MaxWrites
      BY <1>2, <2>2 DEF TypeOK
    <3>3. buffer' \in Picture
      BY <1>2, <3>1, <3>2 DEF TypeOK, Picture
    <3>4. PcAt
      BY <1>2, <2>5, <3>1 DEF TypeOK
    <3> QED
      BY <1>2, <3>1, <3>3, <3>4 DEF TypeOK
  <2>9. CASE Copy(w)
    <3>1. UNCHANGED <<loaded, buffer, shown, garbled, window>>
      BY <2>9 DEF Copy, display
    <3>2. CASE /\ copy' = [copy EXCEPT ![w] = buffer] /\ at' = [at EXCEPT ![w] = 1]
               /\ pc' = [pc EXCEPT ![w] = "command"] /\ UNCHANGED trouble
      <4>1. PcAt
        BY <1>2, <3>2 DEF TInv, TypeOK
      <4>2. copy' \in [Writers -> Picture]
        BY <1>2, <3>2 DEF TypeOK
      <4> QED
        BY <1>2, <3>1, <3>2, <4>1, <4>2 DEF TypeOK
    <3>3. CASE trouble' = TRUE /\ pc' = [pc EXCEPT ![w] = "idle"] /\ UNCHANGED <<copy, at>>
      <4>1. PcAt
        BY <2>5, <3>3
      <4> QED
        BY <1>2, <3>1, <3>3, <4>1 DEF TypeOK
    <3> QED
      BY <2>9, <3>2, <3>3 DEF Copy, Goto
  <2>10. CASE Command(w)
    <3>1. /\ pc[w] = "command" /\ UNCHANGED <<loaded, copy, buffer, shown, garbled>>
          /\ \/ pc' = [pc EXCEPT ![w] = "data"] /\ at' = [at EXCEPT ![w] = 1]
             \/ at[w] < 6 /\ at' = [at EXCEPT ![w] = @ + 1] /\ UNCHANGED pc
          /\ \/ window' = Received(Window[at[w]]) /\ UNCHANGED trouble
             \/ trouble' = TRUE /\ UNCHANGED window
      BY <2>10 DEF Command, Goto, Window
    <3>2. at[w] \in 1 .. 6
      BY <3>1 DEF TInv
    <3>3. Window[at[w]] \in Nat
      BY <3>2 DEF Window
    <3>4. window' \in Registers /\ trouble' \in BOOLEAN
      BY <1>2, <3>1, <3>3, RegistersKeep DEF TypeOK
    <3>5. CASE pc' = [pc EXCEPT ![w] = "data"] /\ at' = [at EXCEPT ![w] = 1]
      <4>1. PcAt
        BY <1>2, <2>5, <3>5 DEF TypeOK
      <4> QED
        BY <1>2, <3>1, <3>4, <4>1 DEF TypeOK
    <3>6. CASE at[w] < 6 /\ at' = [at EXCEPT ![w] = @ + 1] /\ UNCHANGED pc
      <4>1. at'[w] \in 1 .. 6 /\ \A v \in Writers \ {w} : at'[v] = at[v]
        BY <1>2, <3>2, <3>6 DEF TypeOK
      <4>2. PcAt
        BY <3>6, <4>1 DEF TInv
      <4> QED
        BY <1>2, <3>1, <3>4, <4>2 DEF TypeOK
    <3> QED
      BY <3>1, <3>5, <3>6
  <2>11. CASE Data(w)
    <3>1. /\ pc' = [pc EXCEPT ![w] = "idle"] /\ copy' = [copy EXCEPT ![w] = Blank]
          /\ UNCHANGED <<at, loaded, buffer, window>>
          /\ \/ shown' = copy[w] /\ garbled' = (window # Whole) /\ UNCHANGED trouble
             \/ trouble' = TRUE /\ UNCHANGED <<shown, garbled>>
      BY <2>11 DEF Data, Goto
    <3>2. PcAt
      BY <2>5, <3>1
    <3>3. copy' \in [Writers -> Picture] /\ shown' \in Picture
      BY <1>2, <2>3, <3>1 DEF TypeOK
    <3>4. garbled' \in BOOLEAN /\ trouble' \in BOOLEAN
      BY <1>2, <3>1 DEF TypeOK
    <3> QED
      BY <1>2, <3>1, <3>2, <3>3, <3>4 DEF TypeOK
  <2> QED
    BY <1>7, <2>6, <2>7, <2>8, <2>9, <2>10, <2>11 DEF Draw
<1> QED
  BY <1>5, <1>6, <1>7 DEF Next

\* Type correctness of the display driver; in particular the display's
\* registers keep their widths whatever bytes are lost or mixed.
THEOREM TypeCorrect ==
    ASSUME FieldsAssumption, WritesAssumption
    PROVE  Spec => []TypeOK
<1>1. Init => TInv
  BY InitTInv
<1>2. TInv /\ [Next]_vars => TInv'
  BY NextTInv
<1>3. TInv => TypeOK
  BY DEF TInv
<1> QED
  BY <1>1, <1>2, <1>3, PTL DEF Spec

-----------------------------------------------------------------------------
(* The layout.                                                             *)

\* The kinds of boxes; n is the length of the title, t that of the track.
StatusBoxes == {Box(2, 2, 8, 8), Box(48, 2, 29, 8)}
TrackBoxes(t) == {Box(90, 2, 6 * t - 1, 8)}
BarBoxes == {Box(6 + i * 4, 11 - 2 * i, 3, 2 * i) : i \in 1 .. 5}
TitleBoxes(n) == {Box(64 - 3 * n, 44, 6 * n - 1, 8)}
BottomBoxes == {Box(4, 54, 29, 8), Box(90, 54, 29, 8)}

Kinds(n, t) ==
    {StatusBoxes, TrackBoxes(t), BarBoxes, SpectrumBars, TitleBoxes(n), BottomBoxes}

LEMMA LayoutBoxes ==
    ASSUME NEW level \in 0 .. 15, NEW title \in 0 .. 20, NEW track \in TrackLengths, NEW a \in Layout(level, title, track),
           NEW n, title > 0 => n = title
    PROVE  \E K \in Kinds(n, track) : a \in K
<1>1. CASE a \in Bars(level)
  <2>1. \A i \in 1 .. 5 : <<2, 4, 6, 8, 10>>[i] = 2 * i
    OBVIOUS
  <2>2. PICK i \in 1 .. 5 :
          a = Box(6 + i * 4, 11 - <<2, 4, 6, 8, 10>>[i], 3, <<2, 4, 6, 8, 10>>[i])
    BY <1>1, Zenon DEF Bars
  <2>3. a = Box(6 + i * 4, 11 - 2 * i, 3, 2 * i)
    BY <2>1, <2>2
  <2>4. a \in BarBoxes
    BY <2>3, Zenon DEF BarBoxes
  <2> QED
    BY <2>4, Zenon DEF Kinds
<1>2. CASE a \in SpectrumBars
  BY <1>2, Zenon DEF Kinds
<1>3. /\ Text(48, 2, 5) = {Box(48, 2, 29, 8)} /\ TrackNumber(track) = TrackBoxes(track)
      /\ Text(4, 54, 5) = {Box(4, 54, 29, 8)} /\ Text(90, 54, 5) = {Box(90, 54, 29, 8)}
  BY DEF Text, TrackNumber, TrackBoxes, TrackLengths
<1>4. CASE a \in Text(TitleAt(title), 44, title)
  <2>1. TitleAt(title) = 64 - 3 * title
    BY DEF TitleAt
  <2>2. title # 0 /\ a = Box(TitleAt(title), 44, 6 * title - 1, 8)
    BY <1>4 DEF Text
  <2>3. a \in TitleBoxes(n)
    BY <2>1, <2>2 DEF TitleBoxes
  <2> QED
    BY <2>3, Zenon DEF Kinds
<1>5. CASE a \in StatusBoxes \cup TrackBoxes(track) \cup BottomBoxes
  BY <1>5, Zenon DEF Kinds
<1> QED
  BY <1>1, <1>2, <1>3, <1>4, <1>5 DEF Layout, StatusBoxes, BottomBoxes

\* Two boxes have their edges on either side of a line.
AllApart(K, L) == \A a \in K, b \in L : a = b \/ Apart(a, b)

LEMMA ApartBothWays == ASSUME NEW K, NEW L, AllApart(K, L) PROVE AllApart(L, K)
BY Zenon DEF AllApart, Apart

LEMMA KindsApart ==
    ASSUME NEW n \in 1 .. 20, NEW t \in TrackLengths,
           NEW K \in Kinds(n, t), NEW L \in Kinds(n, t)
    PROVE  AllApart(K, L)
<1>1. /\ AllApart(StatusBoxes, StatusBoxes) /\ AllApart(BottomBoxes, BottomBoxes)
      /\ AllApart(StatusBoxes, BottomBoxes)
  BY DEF AllApart, Apart, Box, StatusBoxes, BottomBoxes
<1>2. AllApart(BarBoxes, BarBoxes) /\ AllApart(SpectrumBars, SpectrumBars)
  BY DEF AllApart, Apart, Box, BarBoxes, SpectrumBars
<1>3. AllApart(BarBoxes, SpectrumBars)
  BY DEF AllApart, Apart, Box, BarBoxes, SpectrumBars
<1>4. AllApart(StatusBoxes, BarBoxes) /\ AllApart(StatusBoxes, SpectrumBars)
  BY DEF AllApart, Apart, Box, StatusBoxes, BarBoxes, SpectrumBars
<1>5. AllApart(BottomBoxes, BarBoxes) /\ AllApart(BottomBoxes, SpectrumBars)
  BY DEF AllApart, Apart, Box, BottomBoxes, BarBoxes, SpectrumBars
<1>6. /\ AllApart(TitleBoxes(n), TitleBoxes(n)) /\ AllApart(TitleBoxes(n), StatusBoxes)
      /\ AllApart(TitleBoxes(n), BottomBoxes)
  BY DEF AllApart, Apart, Box, TitleBoxes, StatusBoxes, BottomBoxes
<1>7. AllApart(TitleBoxes(n), BarBoxes) /\ AllApart(TitleBoxes(n), SpectrumBars)
  BY DEF AllApart, Apart, Box, TitleBoxes, BarBoxes, SpectrumBars
<1>8. /\ AllApart(TrackBoxes(t), TrackBoxes(t)) /\ AllApart(TrackBoxes(t), StatusBoxes)
      /\ AllApart(TrackBoxes(t), BottomBoxes) /\ AllApart(TrackBoxes(t), TitleBoxes(n))
  BY DEF AllApart, Apart, Box, TrackBoxes, StatusBoxes, BottomBoxes, TitleBoxes, TrackLengths
<1>9. AllApart(TrackBoxes(t), BarBoxes) /\ AllApart(TrackBoxes(t), SpectrumBars)
  BY DEF AllApart, Apart, Box, TrackBoxes, BarBoxes, SpectrumBars, TrackLengths
<1>10. AllApart(K, L) \/ AllApart(L, K)
  BY <1>1, <1>2, <1>3, <1>4, <1>5, <1>6, <1>7, <1>8, <1>9 DEF Kinds
<1> QED
  BY <1>10, ApartBothWays

\* A box is on the screen, or one of those that are cut off.
SeenOrCut(a, track) ==
    \/ Cut(a) <= 0
    \/ Cut(a) = 1 /\ a \in SpectrumBars
    \/ track > 6 /\ a \in TrackNumber(track)

LEMMA KindsOnScreen ==
    ASSUME NEW n \in 1 .. 20, NEW track \in TrackLengths, NEW K \in Kinds(n, track), NEW a \in K
    PROVE  /\ a.x >= 0 /\ a.y >= 0 /\ a.y + a.h <= 64
           /\ SeenOrCut(a, track)
<1>1. CASE K = SpectrumBars
  <2>1. PICK i \in 0 .. 31 : a = Box(2 + i * 4, 23, 3, 15)
    BY <1>1 DEF SpectrumBars
  <2>2. a.x = 2 + i * 4 /\ a.y = 23 /\ a.w = 3 /\ a.h = 15
    BY <2>1 DEF Box
  <2> QED
    BY <1>1, <2>2 DEF Cut, SeenOrCut
<1>2. CASE K = BarBoxes
  <2>1. PICK i \in 1 .. 5 : a = Box(6 + i * 4, 11 - 2 * i, 3, 2 * i)
    BY <1>2 DEF BarBoxes
  <2>2. a.x = 6 + i * 4 /\ a.y = 11 - 2 * i /\ a.w = 3 /\ a.h = 2 * i
    BY <2>1 DEF Box
  <2> QED
    BY <2>2 DEF Cut, SeenOrCut
<1>3. CASE K \in {StatusBoxes, TitleBoxes(n), BottomBoxes}
  BY <1>3 DEF Cut, SeenOrCut, Box, StatusBoxes, TitleBoxes, BottomBoxes
<1>4. CASE K = TrackBoxes(track)
  <2>1. /\ a \in TrackNumber(track)
        /\ a.x = 90 /\ a.y = 2 /\ a.w = 6 * track - 1 /\ a.h = 8
    BY <1>4 DEF TrackBoxes, TrackNumber, Text, Box, TrackLengths
  <2> QED
    BY <2>1 DEF Cut, SeenOrCut, TrackLengths
<1> QED
  BY <1>1, <1>2, <1>3, <1>4 DEF Kinds

\* At every volume, with every title and every track the fields of the screen are
\* apart, and all of them is seen but a column of the spectrum and the end of a
\* track that is longer than six characters (oled.c, update_display).
THEOREM LayoutFits == FieldsApart
<1> SUFFICES ASSUME NEW level \in 0 .. 15, NEW title \in 0 .. 20, NEW track \in TrackLengths
             PROVE  /\ \A a, b \in Layout(level, title, track) : a = b \/ Apart(a, b)
                    /\ \A a \in Layout(level, title, track) :
                          /\ a.x >= 0 /\ a.y >= 0 /\ a.y + a.h <= 64
                          /\ SeenOrCut(a, track)
  BY Zenon DEF FieldsApart, SeenOrCut
<1>1. PICK n \in 1 .. 20 : title > 0 => n = title
  <2>1. CASE title > 0
    BY <2>1
  <2>2. CASE ~(title > 0)
    <3>1. 1 \in 1 .. 20
      OBVIOUS
    <3> QED
      BY <2>2, <3>1
  <2> QED
    BY <2>1, <2>2
<1>2. ASSUME NEW a \in Layout(level, title, track) PROVE \E K \in Kinds(n, track) : a \in K
  BY <1>1, LayoutBoxes
<1>3. ASSUME NEW a \in Layout(level, title, track), NEW b \in Layout(level, title, track)
      PROVE  a = b \/ Apart(a, b)
  <2>1. PICK K \in Kinds(n, track) : a \in K
    BY <1>2
  <2>2. PICK L \in Kinds(n, track) : b \in L
    BY <1>2
  <2>3. AllApart(K, L)
    BY KindsApart
  <2> QED
    BY <2>1, <2>2, <2>3, Zenon DEF AllApart
<1>4. ASSUME NEW a \in Layout(level, title, track)
      PROVE  /\ a.x >= 0 /\ a.y >= 0 /\ a.y + a.h <= 64
             /\ SeenOrCut(a, track)
  <2>1. PICK K \in Kinds(n, track) : a \in K
    BY <1>2
  <2> QED
    BY <2>1, KindsOnScreen
<1> QED
  BY <1>3, <1>4
=============================================================================
