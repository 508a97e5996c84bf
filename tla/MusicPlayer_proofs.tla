--------------------------- MODULE MusicPlayer_proofs ---------------------------
(***************************************************************************)
(* The safety of the player's threads for any playlist and any number of   *)
(* clicks: what they share never disagrees, a track change is prompt, and  *)
(* the playback thread waits only in a pause.                              *)
(***************************************************************************)
EXTENDS MusicPlayer, TLAPS

\* Once a block has been written against a pending track change, the playback
\* thread is on its way to the end of the song and cannot write another.
Leaving ==
    \/ extra = 0
    \/ extra = 1 /\ request /\ at.player \in {"store", "read", "check", "ended"}

IInv ==
    /\ at \in Places
    /\ SongIsCurrent
    /\ WaitsOnlyPaused
    /\ Leaving

-----------------------------------------------------------------------------
\* Nothing is played at first.
LEMMA InitIInv == Init => IInv
BY DEF Init, IInv, Places, SongIsCurrent, WaitsOnlyPaused, Leaving, Playing

\* A step that leaves the playback thread and what it shares alone.
LEMMA ElsewhereKeeps ==
    ASSUME IInv, at' \in Places, at'.player = at.player,
           UNCHANGED <<shared, playing, extra>>
    PROVE  IInv'
BY DEF IInv, shared, SongIsCurrent, WaitsOnlyPaused, Leaving, Playing

\* Each step of the playback thread.
LEMMA PlayKeeps == ASSUME IInv, Play \/ WakeSpuriously PROVE IInv'
<1> USE DEF IInv, Go, shared, history
<1>1. CASE StartPlayer
  <2>1. at' \in Places
    BY <1>1 DEF StartPlayer, Places
  <2>2. SongIsCurrent'
    BY <1>1 DEF StartPlayer, SongIsCurrent, Playing, Places
  <2>3. WaitsOnlyPaused'
    BY <1>1 DEF StartPlayer, WaitsOnlyPaused, Places
  <2>4. Leaving'
    BY <1>1 DEF StartPlayer, Leaving, Places
  <2> QED
    BY <2>1, <2>2, <2>3, <2>4
<1>2. CASE Pick
  <2>1. at' \in Places
    BY <1>2 DEF Pick, Places
  <2>2. SongIsCurrent'
    BY <1>2 DEF Pick, SongIsCurrent, Playing, Places
  <2>3. WaitsOnlyPaused'
    BY <1>2 DEF Pick, WaitsOnlyPaused, Places
  <2>4. Leaving'
    BY <1>2 DEF Pick, Leaving, Places
  <2> QED
    BY <2>1, <2>2, <2>3, <2>4
<1>3. CASE OpenSong
  <2>1. at' \in Places
    BY <1>3 DEF OpenSong, Places
  <2>2. SongIsCurrent'
    BY <1>3 DEF OpenSong, SongIsCurrent, Playing, Places
  <2>3. WaitsOnlyPaused'
    BY <1>3 DEF OpenSong, WaitsOnlyPaused, Places
  <2>4. Leaving'
    BY <1>3 DEF OpenSong, Leaving, Places
  <2> QED
    BY <2>1, <2>2, <2>3, <2>4
<1>4. CASE ReadBlock
  <2>1. at' \in Places
    BY <1>4 DEF ReadBlock, Places
  <2>2. SongIsCurrent'
    BY <1>4 DEF ReadBlock, SongIsCurrent, Playing, Places
  <2>3. WaitsOnlyPaused'
    BY <1>4 DEF ReadBlock, WaitsOnlyPaused, Places
  <2>4. Leaving'
    BY <1>4 DEF ReadBlock, Leaving, Places
  <2> QED
    BY <2>1, <2>2, <2>3, <2>4
<1>5. CASE Check
  <2>1. at' \in Places
    BY <1>5 DEF Check, Places
  <2>2. SongIsCurrent'
    BY <1>5 DEF Check, SongIsCurrent, Playing, Places
  <2>3. WaitsOnlyPaused'
    BY <1>5 DEF Check, WaitsOnlyPaused, Places
  <2>4. Leaving'
    BY <1>5 DEF Check, Leaving, Places
  <2> QED
    BY <2>1, <2>2, <2>3, <2>4
<1>6. CASE WakeSpuriously
  <2>1. at' \in Places
    BY <1>6 DEF WakeSpuriously, Places
  <2>2. SongIsCurrent'
    BY <1>6 DEF WakeSpuriously, SongIsCurrent, Playing, Places
  <2>3. WaitsOnlyPaused'
    BY <1>6 DEF WakeSpuriously, WaitsOnlyPaused, Places
  <2>4. Leaving'
    BY <1>6 DEF WakeSpuriously, Leaving, Places
  <2> QED
    BY <2>1, <2>2, <2>3, <2>4
<1>7. CASE WriteBlock
  <2>1. at' \in Places
    BY <1>7 DEF WriteBlock, Places
  <2>2. SongIsCurrent'
    BY <1>7 DEF WriteBlock, SongIsCurrent, Playing, Places
  <2>3. WaitsOnlyPaused'
    BY <1>7 DEF WriteBlock, WaitsOnlyPaused, Places
  <2>4. Leaving'
    BY <1>7 DEF WriteBlock, Leaving, Places
  <2> QED
    BY <2>1, <2>2, <2>3, <2>4
<1>8. CASE StoreTime
  <2>1. at' \in Places
    BY <1>8 DEF StoreTime, Places
  <2>2. SongIsCurrent'
    BY <1>8 DEF StoreTime, SongIsCurrent, Playing, Places
  <2>3. WaitsOnlyPaused'
    BY <1>8 DEF StoreTime, WaitsOnlyPaused, Places
  <2>4. Leaving'
    BY <1>8 DEF StoreTime, Leaving, Places
  <2> QED
    BY <2>1, <2>2, <2>3, <2>4
<1>9. CASE EndSong
  <2>1. at' \in Places
    BY <1>9 DEF EndSong, Places
  <2>2. SongIsCurrent'
    BY <1>9 DEF EndSong, SongIsCurrent, Playing, Places
  <2>3. WaitsOnlyPaused'
    BY <1>9 DEF EndSong, WaitsOnlyPaused, Places
  <2>4. Leaving'
    BY <1>9 DEF EndSong, Leaving, Places
  <2> QED
    BY <2>1, <2>2, <2>3, <2>4
<1> QED
  BY <1>1, <1>2, <1>3, <1>4, <1>5, <1>6, <1>7, <1>8, <1>9 DEF Play

\* The control thread's decision: a track change is announced by the request,
\* and the playback thread is woken or left where it is.
LEMMA DecideKeeps == ASSUME IInv, Decide PROVE IInv'
<1> USE DEF IInv, history
<1>1. at' \in Places
  BY DEF Decide, Places
<1>2. UNCHANGED <<playing, total>>
  BY DEF Decide
<1>3. \/ UNCHANGED <<track, paused, request, current, extra>>
      \/ paused' = ~paused /\ UNCHANGED <<track, request, current, extra>>
      \/ /\ request' /\ UNCHANGED paused
         /\ extra' = IF request THEN extra ELSE 0
  BY DEF Decide, Act
<1>4. \/ at'.player = at.player /\ (at.player = "waiting" /\ paused => paused')
      \/ at.player = "waiting" /\ at'.player = "check"
  BY DEF Decide, Act, Places
<1>5. SongIsCurrent'
  BY <1>2, <1>3, <1>4 DEF SongIsCurrent, Playing
<1>6. WaitsOnlyPaused'
  BY <1>4 DEF WaitsOnlyPaused
<1>7. Leaving'
  BY <1>3, <1>4 DEF Leaving
<1> QED
  BY <1>1, <1>5, <1>6, <1>7

\* Every step of the program.
LEMMA NextIInv == ASSUME IInv, [Next]_vars PROVE IInv'
<1> USE DEF IInv, Go
<1>1. CASE Play \/ WakeSpuriously
  BY <1>1, PlayKeeps
<1>2. CASE Decide
  BY <1>2, DecideKeeps
<1>3. CASE StartControl
  <2>1. at' \in Places /\ at'.player = at.player
    BY <1>3 DEF StartControl, Places
  <2>2. UNCHANGED <<shared, playing, extra>>
    BY <1>3 DEF StartControl, history
  <2> QED
    BY <2>1, <2>2, ElsewhereKeeps
<1>4. CASE ReadKey
  <2>1. at' \in Places /\ at'.player = at.player
    BY <1>4 DEF ReadKey, Places
  <2>2. UNCHANGED <<shared, playing, extra>>
    BY <1>4 DEF ReadKey, history
  <2> QED
    BY <2>1, <2>2, ElsewhereKeeps
<1>5. CASE CountClick
  <2>1. at' \in Places /\ at'.player = at.player
    BY <1>5 DEF CountClick, Places
  <2>2. UNCHANGED <<shared, playing, extra>>
    BY <1>5 DEF CountClick, history
  <2> QED
    BY <2>1, <2>2, ElsewhereKeeps
<1>6. CASE StartUi
  <2>1. at' \in Places /\ at'.player = at.player
    BY <1>6 DEF StartUi, Places
  <2>2. UNCHANGED <<shared, playing, extra>>
    BY <1>6 DEF StartUi, history
  <2> QED
    BY <2>1, <2>2, ElsewhereKeeps
<1>7. CASE Refresh
  <2>1. at' \in Places /\ at'.player = at.player
    BY <1>7 DEF Refresh, Places
  <2>2. UNCHANGED <<shared, playing, extra>>
    BY <1>7 DEF Refresh, history
  <2> QED
    BY <2>1, <2>2, ElsewhereKeeps
<1>8. CASE Stop
  <2>1. at' \in Places /\ at'.player = at.player
    BY <1>8 DEF Stop, Places
  <2>2. UNCHANGED <<shared, playing, extra>>
    BY <1>8 DEF Stop, history
  <2> QED
    BY <2>1, <2>2, ElsewhereKeeps
<1>9. CASE Exit
  <2>1. at' \in Places /\ at'.player = at.player
    BY <1>9 DEF Exit, Places
  <2>2. UNCHANGED <<shared, playing, extra>>
    BY <1>9 DEF Exit, history
  <2> QED
    BY <2>1, <2>2, ElsewhereKeeps
<1>10. CASE Click
  <2>1. at' \in Places /\ at'.player = at.player
    BY <1>10 DEF Click, Places
  <2>2. UNCHANGED <<shared, playing, extra>>
    BY <1>10 DEF Click, history
  <2> QED
    BY <2>1, <2>2, ElsewhereKeeps
<1>11. CASE TimePasses
  <2>1. at' \in Places /\ at'.player = at.player
    BY <1>11 DEF TimePasses, Places
  <2>2. UNCHANGED <<shared, playing, extra>>
    BY <1>11 DEF TimePasses, history
  <2> QED
    BY <2>1, <2>2, ElsewhereKeeps
<1>12. CASE UNCHANGED vars
  BY <1>12, ElsewhereKeeps DEF vars, shared
<1> QED
  BY <1>1, <1>2, <1>3, <1>4, <1>5, <1>6, <1>7, <1>8, <1>9, <1>10, <1>11,
     <1>12 DEF Next, Control, Ui, Main

\* The inductive invariant holds in every state of the program.
LEMMA Inductive == Spec => []IInv
BY InitIInv, NextIInv, PTL DEF Spec

-----------------------------------------------------------------------------
\* What the playback and the control thread share agrees while a song plays,
\* for any playlist and any clicks (change_music.c:121-125, 160-172, 226-231).
THEOREM SharedAgree == Spec => []SongIsCurrent
<1>1. IInv => SongIsCurrent
  BY DEF IInv
<1> QED
  BY <1>1, Inductive, PTL

\* The playback thread is never left waiting by a lost signal
\* (change_music.c:140-145, 236-240).
THEOREM WaitIsForAPause == Spec => []WaitsOnlyPaused
<1>1. IInv => WaitsOnlyPaused
  BY DEF IInv
<1> QED
  BY <1>1, Inductive, PTL

\* After a track change at most one more block of the old song is written
\* (change_music.c:135-172).
THEOREM ChangePrompt == Spec => []ChangeIsPrompt
<1>1. IInv => ChangeIsPrompt
  BY DEF IInv, Leaving, ChangeIsPrompt
<1> QED
  BY <1>1, Inductive, PTL

\* What the clicks have chosen is the current track until the song ends.
ChoiceStands == chosen # None => chosen = track

\* Only the clicks and the end of a song move the track.
LEMMA NextChoiceStands ==
    ASSUME ChoiceStands, [Next]_vars
    PROVE  ChoiceStands'
<1>1. CASE EndSong
  BY <1>1 DEF ChoiceStands, EndSong
<1>2. CASE Decide
  BY <1>2 DEF ChoiceStands, Decide, Act, history
<1>3. CASE ~EndSong /\ ~Decide
  <2>1. UNCHANGED <<chosen, track>>
    BY <1>3 DEF Next, vars, shared, history, Play, StartPlayer, Pick, OpenSong,
                ReadBlock, Check, WakeSpuriously, WriteBlock, StoreTime,
                Control, StartControl, ReadKey, CountClick, Ui, StartUi,
                Refresh, Main, Stop, Exit, Click, TimePasses
  <2> QED
    BY <2>1 DEF ChoiceStands
<1> QED
  BY <1>1, <1>2, <1>3

\* The song picked after a track change is the one the clicks chose, for any
\* playlist and any clicks (change_music.c:120, 166-172, 226-231).
THEOREM ChoicePlayed == Spec => ChoiceIsPlayed
<1>1. Init => ChoiceStands
  BY DEF Init, ChoiceStands
<1>2. IInv /\ ChoiceStands /\ [Next]_vars
        => [at.player = "pick" /\ at'.player = "open" /\ chosen # None
              => playing' = chosen]_vars
  <2> SUFFICES ASSUME IInv, ChoiceStands, Next, at.player = "pick",
                      at'.player = "open", chosen # None
               PROVE  playing' = chosen
    OBVIOUS
  <2>1. Pick
    BY DEF IInv, Places, Next, Play, StartPlayer, OpenSong, ReadBlock, Check,
           WakeSpuriously, WriteBlock, StoreTime, EndSong, Control,
           StartControl, ReadKey, CountClick, Decide, Ui, StartUi, Refresh,
           Main, Stop, Exit, Click, TimePasses, Go
  <2> QED
    BY <2>1 DEF Pick, ChoiceStands
<1> QED
  BY <1>1, <1>2, Inductive, NextChoiceStands, PTL DEF Spec, ChoiceIsPlayed

-----------------------------------------------------------------------------
(* Types.                                                                  *)

\* The clicks counted, the one that is about to be, and the one the driver has
\* still to report are different clicks: the count stays within its bound.
Counting == at.control = "count" /\ got
ClicksBound ==
    count + (IF event THEN 1 ELSE 0) + (IF Counting THEN 1 ELSE 0) <= clicks

TInv == TypeOK /\ ClicksBound

\* A thread goes to another of its places.
LEMMA GoesToPlaces ==
    ASSUME at \in Places,
           NEW p \in {"start", "pick", "open", "read", "check", "waiting",
                      "write", "store", "ended", "finished"},
           NEW c \in {"start", "read", "count", "decide", "finished"},
           NEW u \in {"start", "refresh", "finished"},
           NEW m \in {"join", "stop", "exited"}
    PROVE  /\ [at EXCEPT !.player = p] \in Places
           /\ [at EXCEPT !.control = c] \in Places
           /\ [at EXCEPT !.ui = u] \in Places
           /\ [at EXCEPT !.main = m] \in Places
           /\ [at EXCEPT !.control = c, !.player = p] \in Places
BY DEF Places

\* The tracks before and after a track are tracks.
LEMMA NeighboursAreTracks ==
    ASSUME track \in Tracks
    PROVE  NextTrack \in Tracks /\ PreviousTrack \in Tracks
BY TracksAssumption DEF Tracks, NextTrack, PreviousTrack

LEMMA InitTInv == Init => TInv
<1> SUFFICES ASSUME Init PROVE TInv
  OBVIOUS
<1>1. 0 \in Tracks /\ clicks \in 0 .. MaxClicks /\ count \in 0 .. MaxClicks
  BY TracksAssumption, ClicksAssumption DEF Tracks, Init
<1>2. at \in Places
  BY DEF Init, Places
<1>3. paused \in BOOLEAN /\ request \in BOOLEAN /\ keep \in BOOLEAN
      /\ event \in BOOLEAN /\ got \in BOOLEAN /\ expired \in BOOLEAN
  BY Zenon DEF Init
<1>4. TypeOK
  BY <1>1, <1>2, <1>3 DEF Init, TypeOK
<1>5. ClicksBound
  BY DEF Init, ClicksBound, Counting
<1> QED
  BY <1>4, <1>5 DEF TInv

\* What the playback thread does to the types.
LEMMA PlayTyped == ASSUME TypeOK, Play \/ WakeSpuriously PROVE TypeOK'
<1> USE DEF TypeOK, shared, control, history
<1>1. at' \in Places
  BY GoesToPlaces DEF Play, StartPlayer, Pick, OpenSong, ReadBlock, Check,
     WakeSpuriously, WriteBlock, StoreTime, EndSong, Go
<1>2. UNCHANGED <<paused, keep, event, got, count, expired, shown, clicks>>
  BY DEF Play, StartPlayer, Pick, OpenSong, ReadBlock, Check,
     WakeSpuriously, WriteBlock, StoreTime, EndSong
<1>3. request' \in BOOLEAN
  BY DEF Play, StartPlayer, Pick, OpenSong, ReadBlock, Check,
     WakeSpuriously, WriteBlock, StoreTime, EndSong
<1>4. playing' \in Tracks /\ total' \in Tracks /\ current' \in Tracks \cup {None}
  BY DEF Play, StartPlayer, Pick, OpenSong, ReadBlock, Check,
     WakeSpuriously, WriteBlock, StoreTime, EndSong
<1>5. track' \in Tracks /\ chosen' \in Tracks \cup {None}
  BY NeighboursAreTracks DEF Play, StartPlayer, Pick, OpenSong, ReadBlock, Check,
     WakeSpuriously, WriteBlock, StoreTime, EndSong
<1>6. extra' \in Nat
  BY DEF Play, StartPlayer, Pick, OpenSong, ReadBlock, Check,
     WakeSpuriously, WriteBlock, StoreTime, EndSong
<1> QED
  BY <1>1, <1>2, <1>3, <1>4, <1>5, <1>6

\* What the control thread, the display thread, main and the key do.
LEMMA OthersTyped ==
    ASSUME TInv, StartControl \/ ReadKey \/ CountClick \/ Ui \/ Main \/ Click
                   \/ TimePasses
    PROVE  TypeOK'
<1> USE DEF TInv, TypeOK, shared, control, history
<1>1. at' \in Places
  BY GoesToPlaces DEF StartControl, ReadKey, CountClick, Ui, StartUi, Refresh,
     Main, Stop, Exit, Click, TimePasses, Go
<1>2. UNCHANGED <<shared, playing, history>>
  BY DEF StartControl, ReadKey, CountClick, Ui, StartUi, Refresh, Main, Stop,
     Exit, Click, TimePasses
<1>3. clicks' \in 0 .. MaxClicks
  BY ClicksAssumption DEF StartControl, ReadKey, CountClick, Ui, StartUi,
     Refresh, Main, Stop, Exit, Click, TimePasses
<1>4. keep' \in BOOLEAN /\ event' \in BOOLEAN /\ got' \in BOOLEAN
  BY DEF StartControl, ReadKey, CountClick, Ui, StartUi, Refresh, Main, Stop,
     Exit, Click, TimePasses
<1>5. expired' \in BOOLEAN
  BY DEF StartControl, ReadKey, CountClick, Ui, StartUi, Refresh, Main, Stop,
     Exit, Click, TimePasses
<1>6. count' \in 0 .. MaxClicks
  <2>1. CASE CountClick
    <3>1. got => Counting
      BY <2>1 DEF CountClick, Go, Counting
    <3>2. got => count + 1 <= clicks
      <4>1. CASE event
        BY <3>1, <4>1 DEF ClicksBound
      <4>2. CASE ~event
        BY <3>1, <4>2 DEF ClicksBound
      <4> QED
        BY <4>1, <4>2
    <3> QED
      BY <2>1, <3>2, ClicksAssumption DEF CountClick
  <2>2. CASE ~CountClick
    BY <2>2 DEF StartControl, ReadKey, Ui, StartUi, Refresh, Main, Stop, Exit,
       Click, TimePasses
  <2> QED
    BY <2>1, <2>2
<1>7. shown' \in [track : Tracks, total : Tracks, current : Tracks \cup {None}]
  BY DEF StartControl, ReadKey, CountClick, Ui, StartUi, Refresh, Main, Stop,
     Exit, Click, TimePasses
<1> QED
  BY <1>1, <1>2, <1>3, <1>4, <1>5, <1>6, <1>7

\* The decision of the control thread.
LEMMA DecideTyped == ASSUME TypeOK, Decide PROVE TypeOK'
<1> USE DEF TypeOK, history
<1>1. at' \in Places
  <2>1. \E p \in {"check", at.player} :
           \/ at' = [at EXCEPT !.control = "read", !.player = p]
           \/ at' = [at EXCEPT !.control = "read"]
    BY DEF Decide, Places
  <2>2. at.player \in {"start", "pick", "open", "read", "check", "waiting",
                       "write", "store", "ended", "finished"}
    BY DEF Places
  <2> QED
    BY <2>1, <2>2, GoesToPlaces
<1>2. UNCHANGED <<total, keep, playing, event, got, expired, shown, clicks>>
  BY DEF Decide
<1>3. paused' \in BOOLEAN /\ request' \in BOOLEAN
  BY DEF Decide, Act
<1>4. /\ track' \in Tracks /\ current' \in Tracks \cup {None}
      /\ chosen' \in Tracks \cup {None}
  BY NeighboursAreTracks DEF Decide, Act
<1>5. count' \in 0 .. MaxClicks /\ extra' \in Nat
  BY ClicksAssumption DEF Decide, Act
<1> QED
  BY <1>1, <1>2, <1>3, <1>4, <1>5

\* The count never outgrows the clicks.
LEMMA BoundKept == ASSUME TInv, [Next]_vars PROVE ClicksBound'
<1> USE DEF TInv, TypeOK, Go, shared, control, history
<1>0. count \in Nat /\ clicks \in Nat
  BY ClicksAssumption
<1>1. CASE Play \/ WakeSpuriously \/ Ui \/ Main \/ TimePasses \/ UNCHANGED vars
  <2>1. UNCHANGED <<count, event, got, clicks>> /\ at'.control = at.control
    BY <1>1 DEF Play, StartPlayer, Pick, OpenSong, ReadBlock, Check,
       WakeSpuriously, WriteBlock, StoreTime, EndSong, Ui, StartUi, Refresh,
       Main, Stop, Exit, TimePasses, vars, Places
  <2> QED
    BY <2>1 DEF ClicksBound, Counting
<1>2. CASE StartControl
  BY <1>2 DEF StartControl, ClicksBound, Counting, Places
<1>3. CASE ReadKey
  <2>1. at.control = "read" /\ count' = count /\ clicks' = clicks
    BY <1>3 DEF ReadKey
  <2>2. ~Counting /\ (~event => ~event' /\ ~Counting') /\ ~(event' /\ Counting')
    BY <1>3 DEF ReadKey, Places, Counting
  <2> QED
    BY <1>0, <2>1, <2>2 DEF ClicksBound
<1>4. CASE CountClick
  <2>1. at.control = "count" /\ at'.control = "decide"
        /\ UNCHANGED <<event, clicks>>
        /\ (~got => count' = count) /\ (got => count' = 1 \/ count' = count + 1)
    BY <1>4 DEF CountClick, Places
  <2>2. CASE got
    BY <1>0, <2>1, <2>2 DEF ClicksBound, Counting
  <2>3. CASE ~got
    BY <1>0, <2>1, <2>3 DEF ClicksBound, Counting
  <2> QED
    BY <2>2, <2>3
<1>5. CASE Decide
  <2>1. at.control = "decide" /\ at'.control = "read" /\ (count' = 0 \/ count' = count)
        /\ UNCHANGED <<event, got, clicks>>
    BY <1>5 DEF Decide, Places
  <2> QED
    BY <1>0, <2>1 DEF ClicksBound, Counting
<1>6. CASE Click
  <2>1. clicks' = clicks + 1 /\ UNCHANGED <<at, got, count>>
    BY <1>6 DEF Click
  <2> QED
    BY <1>0, <2>1 DEF ClicksBound, Counting
<1> QED
  BY <1>1, <1>2, <1>3, <1>4, <1>5, <1>6 DEF Next, Control

\* Every variable has its type, for any playlist and any number of clicks; in
\* particular track_current stays in the playlist (change_music.c:160-172,
\* 226-231).
THEOREM TypeCorrect == Spec => []TypeOK
<1>1. ASSUME TInv, [Next]_vars PROVE TInv'
  <2>1. CASE UNCHANGED vars
    BY <1>1, <2>1, BoundKept DEF vars, TInv, TypeOK
  <2>2. CASE Next
    BY <1>1, <2>2, BoundKept, PlayTyped, OthersTyped, DecideTyped
    DEF Next, Control, TInv
  <2> QED
    BY <1>1, <2>1, <2>2
<1> QED
  BY <1>1, InitTInv, PTL DEF Spec, TInv
=============================================================================
