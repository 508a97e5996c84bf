---------------------------- MODULE MusicPlayer ----------------------------
(***************************************************************************)
(* The player program user_space/music_vol_ctrl/change_music.c: a thread   *)
(* that plays the songs, a thread that reads the rotary encoder and counts *)
(* the clicks of its key, a thread that refreshes the display, and main,   *)
(* which waits for them.  They share player_state and request_track_change *)
(* under state_mutex; player_cond wakes a paused playback thread.          *)
(*                                                                         *)
(* Nothing that blocks for another thread happens under the mutex, so each *)
(* critical section is one step.  Times are abstracted: of a playback time *)
(* only the song it was measured in is kept, of a total time the song it   *)
(* is the duration of.  The volume is left out.                            *)
(***************************************************************************)
EXTENDS Naturals

CONSTANTS
    NumTracks,      \* num_tracks
    Missing,        \* songs whose file cannot be opened
    None,           \* no song: a playback time of 0, nothing chosen
    MaxClicks       \* bound: clicks of the key

Tracks == 0 .. NumTracks - 1

ASSUME TracksAssumption == NumTracks \in Nat \ {0} /\ Missing \subseteq Tracks
ASSUME NoneAssumption == None \notin Tracks
ASSUME ClicksAssumption == MaxClicks \in Nat

VARIABLES
    track,          \* track_current
    paused,         \* play_state = STATE_PAUSED
    request,        \* request_track_change
    current,        \* song_current_sec: the song it was measured in
    total,          \* song_total_sec: the song it belongs to
    keep,           \* keep_running_threads
    at,             \* where each thread is
    playing,        \* track_to_play of the playback thread
    event,          \* a click the rotary driver has to report
    got,            \* key_event as the control thread has read it
    count,          \* click_count of the control thread
    expired,        \* more than CLICK_TIMEOUT_MS since last_click_time
    shown,          \* what the display shows
    clicks,         \* clicks so far (bounds the run)
    chosen,         \* history: the track last chosen by clicks
    extra           \* history: blocks written since a track change

shared == <<track, paused, request, current, total>>
control == <<got, count, expired>>
vars == <<track, paused, request, current, total, keep, at, playing, event,
          got, count, expired, shown, clicks, chosen, extra>>
history == <<chosen, extra>>

Places == [player : {"start", "pick", "open", "read", "check", "waiting",
                     "write", "store", "ended", "finished"},
           control : {"start", "read", "count", "decide", "finished"},
           ui : {"start", "refresh", "finished"},
           main : {"join", "stop", "exited"}]

TypeOK ==
    /\ track \in Tracks
    /\ paused \in BOOLEAN /\ request \in BOOLEAN
    /\ current \in Tracks \cup {None}
    /\ total \in Tracks
    /\ keep \in BOOLEAN
    /\ at \in Places
    /\ playing \in Tracks
    /\ event \in BOOLEAN /\ got \in BOOLEAN /\ expired \in BOOLEAN
    /\ count \in 0 .. MaxClicks
    /\ shown \in [track : Tracks, total : Tracks,
                  current : Tracks \cup {None}]
    /\ clicks \in 0 .. MaxClicks
    /\ chosen \in Tracks \cup {None}
    /\ extra \in Nat

Init ==
    /\ track = 0 /\ paused = FALSE /\ request = FALSE
    /\ current = None /\ total = 0
    /\ keep = TRUE
    /\ at = [player |-> "start", control |-> "start", ui |-> "start",
             main |-> "join"]
    /\ playing = 0
    /\ event = FALSE
    /\ got = FALSE /\ count = 0 /\ expired = TRUE
    /\ shown = [track |-> 0, total |-> 0, current |-> None]
    /\ clicks = 0
    /\ chosen = None
    /\ extra = 0

\* The thread goes from one place to another.
Go(thread, from, to) ==
    /\ at[thread] = from
    /\ at' = [at EXCEPT ![thread] = to]

\* Mutant: the playlist does not wrap round.
NextTrackUnwrapped == track + 1

\* The tracks before and after the current one, round the playlist.
NextTrack == (track + 1) % NumTracks
PreviousTrack == (track + NumTracks - 1) % NumTracks

-----------------------------------------------------------------------------
(* playback_thread_func.                                                   *)

StartPlayer ==
    /\ \/ Go("player", "start", "pick")
       \/ Go("player", "start", "finished")      \* open() failed
    /\ UNCHANGED <<shared, keep, playing, event, control, shown, clicks,
                   history>>

Pick ==
    /\ keep
    /\ Go("player", "pick", "open")
    /\ playing' = track
    /\ total' = track
    /\ current' = None
    /\ UNCHANGED <<track, paused, request, keep, event, control, shown,
                   clicks, history>>

\* fopen fails on a missing file, and the loop starts over.
OpenSong ==
    /\ Go("player", "open", IF playing \in Missing THEN "pick" ELSE "read")
    /\ UNCHANGED <<shared, keep, playing, event, control, shown, clicks,
                   history>>

\* fread finds another block, or the end of the song.
ReadBlock ==
    /\ \/ Go("player", "read", "check")
       \/ Go("player", "read", "ended")
    /\ UNCHANGED <<shared, keep, playing, event, control, shown, clicks,
                   history>>

\* Mutant: the track change is noticed only at the end of a pause.
CheckPauseOnly ==
    /\ \/ paused /\ ~request /\ Go("player", "check", "waiting")
       \/ paused /\ request /\ Go("player", "check", "ended")
       \/ ~paused /\ Go("player", "check", "write")
    /\ UNCHANGED <<shared, keep, playing, event, control, shown, clicks,
                   history>>

Check ==
    /\ \/ paused /\ ~request /\ Go("player", "check", "waiting")
       \/ (request \/ (~paused /\ ~keep)) /\ Go("player", "check", "ended")
       \/ ~paused /\ ~request /\ keep /\ Go("player", "check", "write")
    /\ UNCHANGED <<shared, keep, playing, event, control, shown, clicks,
                   history>>

\* pthread_cond_wait may return although nobody has signalled.
WakeSpuriously ==
    /\ Go("player", "waiting", "check")
    /\ UNCHANGED <<shared, keep, playing, event, control, shown, clicks,
                   history>>

\* write() to the decoder, and the time measured after it.
WriteBlock ==
    /\ \/ Go("player", "write", "store")
       \/ Go("player", "write", "ended")         \* write() failed
    /\ extra' = IF request THEN extra + 1 ELSE 0
    /\ UNCHANGED <<shared, keep, playing, event, control, shown, clicks,
                   chosen>>

StoreTime ==
    /\ Go("player", "store", "read")
    /\ current' = playing
    /\ UNCHANGED <<track, paused, request, total, keep, playing, event,
                   control, shown, clicks, history>>

\* Mutant: the playlist advances although a track has been chosen.
EndSongAdvances ==
    /\ Go("player", "ended", "pick")
    /\ request' = FALSE
    /\ track' = NextTrack
    /\ chosen' = IF request THEN chosen ELSE None
    /\ extra' = 0
    /\ UNCHANGED <<paused, current, total, keep, playing, event, control,
                   shown, clicks>>

\* Mutant: the request is not reset.
EndSongKeepsRequest ==
    /\ Go("player", "ended", "pick")
    /\ track' = IF request THEN track ELSE NextTrack
    /\ chosen' = IF request THEN chosen ELSE None
    /\ extra' = 0
    /\ UNCHANGED <<paused, request, current, total, keep, playing, event,
                   control, shown, clicks>>

EndSong ==
    /\ Go("player", "ended", "pick")
    /\ request' = FALSE
    /\ track' = IF request THEN track ELSE NextTrack
    /\ chosen' = IF request THEN chosen ELSE None
    /\ extra' = 0
    /\ UNCHANGED <<paused, current, total, keep, playing, event, control,
                   shown, clicks>>

Play ==
    \/ StartPlayer \/ Pick \/ OpenSong \/ ReadBlock \/ Check
    \/ WriteBlock \/ StoreTime \/ EndSong

-----------------------------------------------------------------------------
(* control_thread_func, and the key it reads through the rotary driver.    *)

\* A click is remembered by the driver until it is read.
Click ==
    /\ clicks < MaxClicks
    /\ clicks' = clicks + 1
    /\ event' = TRUE
    /\ UNCHANGED <<shared, keep, at, playing, control, shown, history>>

TimePasses ==
    /\ ~expired
    /\ expired' = TRUE
    /\ UNCHANGED <<shared, keep, at, playing, event, got, count, shown,
                   clicks, history>>

StartControl ==
    /\ \/ Go("control", "start", "read")
       \/ Go("control", "start", "finished")     \* open() failed
    /\ UNCHANGED <<shared, keep, playing, event, control, shown, clicks,
                   history>>

ReadKey ==
    /\ IF keep THEN /\ Go("control", "read", "count")
                    /\ got' = event
                    /\ event' = FALSE
               ELSE /\ Go("control", "read", "finished")
                    /\ UNCHANGED <<got, event>>
    /\ UNCHANGED <<shared, keep, playing, count, expired, shown, clicks,
                   history>>

\* A click after the time-out starts a new count, even if the old one has
\* not been acted upon.
CountClick ==
    /\ Go("control", "count", "decide")
    /\ count' = IF ~got THEN count ELSE IF expired THEN 1 ELSE count + 1
    /\ expired' = (expired /\ ~got)
    /\ UNCHANGED <<shared, keep, playing, event, got, shown, clicks,
                   history>>

\* Mutant: a double click changes the track without a request.
ActForgetsRequest ==
    \/ /\ count = 1
       /\ paused' = ~paused
       /\ UNCHANGED <<track, request, current, history>>
    \/ /\ count > 1
       /\ request' = (request \/ count > 2)
       /\ current' = None
       /\ track' = IF count = 2 THEN NextTrack ELSE PreviousTrack
       /\ chosen' = track'
       /\ extra' = IF request THEN extra ELSE 0
       /\ UNCHANGED paused

\* No click arrived for the time-out: one click pauses or resumes, two go to
\* the next track, more to the previous one.
Act ==
    \/ /\ count = 1
       /\ paused' = ~paused
       /\ UNCHANGED <<track, request, current, history>>
    \/ /\ count > 1
       /\ request' = TRUE
       /\ current' = None
       /\ track' = IF count = 2 THEN NextTrack ELSE PreviousTrack
       /\ chosen' = track'
       /\ extra' = IF request THEN extra ELSE 0
       /\ UNCHANGED paused

\* Mutant: the playback thread is woken when the pause begins.
DecideWakesPaused ==
    /\ at.control = "decide"
    /\ IF count > 0 /\ expired
       THEN /\ Act
            /\ count' = 0
            /\ at' = [at EXCEPT !.control = "read",
                        !.player = IF paused' /\ @ = "waiting"
                                   THEN "check" ELSE @]
       ELSE /\ at' = [at EXCEPT !.control = "read"]
            /\ UNCHANGED <<track, paused, request, current, count, history>>
    /\ UNCHANGED <<total, keep, playing, event, got, expired, shown, clicks>>

\* pthread_cond_signal wakes the playback thread if it waits, and is lost
\* otherwise.  It is called only if the player is not paused afterwards.
Decide ==
    /\ at.control = "decide"
    /\ IF count > 0 /\ expired
       THEN /\ Act
            /\ count' = 0
            /\ at' = [at EXCEPT !.control = "read",
                        !.player = IF ~paused' /\ @ = "waiting"
                                   THEN "check" ELSE @]
       ELSE /\ at' = [at EXCEPT !.control = "read"]
            /\ UNCHANGED <<track, paused, request, current, count, history>>
    /\ UNCHANGED <<total, keep, playing, event, got, expired, shown, clicks>>

Control == StartControl \/ ReadKey \/ CountClick \/ Decide

-----------------------------------------------------------------------------
(* ui_thread_func and main.                                                *)

StartUi ==
    /\ \/ Go("ui", "start", "refresh")
       \/ Go("ui", "start", "finished")          \* open() failed
    /\ UNCHANGED <<shared, keep, playing, event, control, shown, clicks,
                   history>>

\* The shared state is copied under the mutex and then sent to the display;
\* a failed write() leaves the display as it was.
Refresh ==
    /\ IF keep THEN /\ Go("ui", "refresh", "refresh")
                    /\ shown' \in {shown, [track |-> track, total |-> total,
                                           current |-> current]}
               ELSE /\ Go("ui", "refresh", "finished")
                    /\ UNCHANGED shown
    /\ UNCHANGED <<shared, keep, playing, event, control, clicks, history>>

Ui == StartUi \/ Refresh

\* Mutant: main joins the other threads without telling them to stop.
StopSilently ==
    /\ at.player = "finished"
    /\ Go("main", "join", "stop")
    /\ UNCHANGED <<shared, keep, playing, event, control, shown, clicks,
                   history>>

\* The playback thread has been joined.  Nobody waits on player_cond then.
Stop ==
    /\ at.player = "finished"
    /\ Go("main", "join", "stop")
    /\ keep' = FALSE
    /\ UNCHANGED <<shared, playing, event, control, shown, clicks,
                   history>>

Exit ==
    /\ at.control = "finished" /\ at.ui = "finished"
    /\ Go("main", "stop", "exited")
    /\ UNCHANGED <<shared, keep, playing, event, control, shown, clicks,
                   history>>

Main == Stop \/ Exit

-----------------------------------------------------------------------------
Next ==
    \/ Play \/ WakeSpuriously \/ Control \/ Ui \/ Main
    \/ Click \/ TimePasses

Spec == Init /\ [][Next]_vars

\* All threads are scheduled and time passes; nobody has to click.
FairSpec ==
    /\ Spec
    /\ WF_vars(Play) /\ WF_vars(Control) /\ WF_vars(Ui) /\ WF_vars(Main)
    /\ WF_vars(TimePasses)

-----------------------------------------------------------------------------
Playing == {"open", "read", "check", "waiting", "write", "store"}

\* While a song is played and no track change is pending, it is the current
\* track, and the shared times are those of that track: the two threads that
\* move track_current and the times never leave them disagreeing
\* (change_music.c:121-125, 160-172, 226-231).
SongIsCurrent ==
    at.player \in Playing /\ ~request =>
        /\ playing = track
        /\ total = track
        /\ current \in {track, None}

\* After a track change at most one more block of the old song is written.
ChangeIsPrompt == extra <= 1

\* The playback thread waits on player_cond only while the player is paused:
\* no signal is lost between its test and its wait.
WaitsOnlyPaused == at.player = "waiting" => paused

\* The song that is picked after a track change is the one the clicks chose,
\* whatever the playlist's own advance does at the same time.
ChoiceIsPlayed ==
    [][at.player = "pick" /\ at'.player = "open" /\ chosen # None
         => playing' = chosen]_vars

\* A track change is carried out, unless the player is paused, the file of
\* the track cannot be opened or there is no decoder to play on.
ChangeIsTaken ==
    request ~> \/ ~request
               \/ paused
               \/ track \in Missing
               \/ at.player = "finished"

\* When the playback thread has finished, the program ends.
ProgramEnds == at.player = "finished" ~> at.main = "exited"

\* What is sent to the display of a player at rest in a pause belongs
\* together: the times are those of the track it names (change_music.c:254,
\* oled.h:15-28).
DisplayIsConsistent ==
    [][at.player = "waiting" /\ shown' # shown
         => shown'.total = shown'.track
            /\ shown'.current \in {shown'.track, None}]_vars
=============================================================================
