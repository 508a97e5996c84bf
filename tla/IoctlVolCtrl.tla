----------------------------- MODULE IoctlVolCtrl -----------------------------
(***************************************************************************)
(* The program ioctl_vol_ctrl, command play: main feeds the song to the    *)
(* chip in chunks while a thread polls the rotary encoder, sets the volume *)
(* with an ioctl when the count has changed and pauses or resumes the      *)
(* playback when the key was clicked.  is_paused is read and written under *)
(* pause_mutex only, so a critical section is one step; pthread_cond_wait  *)
(* gives the mutex up and may also wake without a signal.                  *)
(***************************************************************************)
EXTENDS Integers

CONSTANTS
    Counts,         \* what the encoder may report
    MaxChunks       \* bound: chunks of the song

CountsAssumption == Counts \subseteq 0 .. 15
ChunksAssumption == MaxChunks \in Nat

None == -999                        \* last_count before the first report

VARIABLES
    main,           \* where the main thread is
    left,           \* chunks of the song not yet read
    keep,           \* keep_running_threads
    paused,         \* is_paused
    woken,          \* pause_cond was signalled while main waited
    thread,         \* where the volume thread is
    now,            \* current_count
    click,          \* key_event
    last,           \* last_count
    late            \* history: chunks written since the pause

vars == <<main, left, keep, paused, woken, thread, now, click, last, late>>
mainVars == <<main, left, keep>>
report == <<now, click, last>>
pause == <<paused, woken, late>>

TypeOK ==
    /\ main \in {"create", "open", "fetch", "test", "wait", "write", "join",
                 "done"}
    /\ left \in 0 .. MaxChunks
    /\ keep \in BOOLEAN /\ paused \in BOOLEAN /\ woken \in BOOLEAN
    /\ thread \in {"none", "open", "loop", "read", "ioctl", "called", "key",
                   "gone"}
    /\ now \in Counts \cup {None} /\ last \in Counts \cup {None}
    /\ click \in BOOLEAN
    /\ late \in Nat

Init ==
    /\ main = "create"
    /\ left \in 0 .. MaxChunks
    /\ keep = TRUE /\ paused = FALSE /\ woken = FALSE
    /\ thread = "none"
    /\ now = None /\ last = None /\ click = FALSE
    /\ late = 0

-----------------------------------------------------------------------------
(* main.                                                                   *)

\* Without its thread the program ends.
Create ==
    /\ main = "create"
    /\ \/ main' = "open" /\ thread' = "open"
       \/ main' = "done" /\ UNCHANGED thread
    /\ UNCHANGED <<left, keep, report, pause>>

Finish == keep' = FALSE /\ main' = "join"

OpenFiles ==
    /\ main = "open"
    /\ \/ main' = "fetch" /\ UNCHANGED keep
       \/ Finish
    /\ UNCHANGED <<left, thread, report, pause>>

Fetch ==
    /\ main = "fetch"
    /\ \/ /\ left > 0
          /\ left' = left - 1
          /\ main' = "test"
          /\ UNCHANGED keep
       \/ /\ left = 0
          /\ Finish
          /\ UNCHANGED left
    /\ UNCHANGED <<thread, report, pause>>

\* Mutant: the pause is not looked at.
TestNothing ==
    /\ main = "test"
    /\ main' = "write"
    /\ UNCHANGED <<left, keep, thread, report, pause>>

Test ==
    /\ main = "test"
    /\ main' = IF paused THEN "wait" ELSE "write"
    /\ UNCHANGED <<left, keep, thread, report, pause>>

Wake ==
    /\ main = "wait"
    /\ woken
    /\ main' = "test"
    /\ woken' = FALSE
    /\ UNCHANGED <<left, keep, paused, late, thread, report>>

WakeSpuriously ==
    /\ main = "wait"
    /\ ~woken
    /\ main' = "test"
    /\ UNCHANGED <<left, keep, thread, report, pause>>

\* The write to the chip may fail.
Write ==
    /\ main = "write"
    /\ late' = IF paused THEN late + 1 ELSE late
    /\ \/ main' = "fetch" /\ UNCHANGED keep
       \/ Finish
    /\ UNCHANGED <<left, paused, woken, thread, report>>

Join ==
    /\ main = "join"
    /\ thread = "gone"
    /\ main' = "done"
    /\ UNCHANGED <<left, keep, thread, report, pause>>

-----------------------------------------------------------------------------
(* volume_control_thread_func.                                             *)

OpenDevices ==
    /\ thread = "open"
    /\ thread' \in {"loop", "gone"}
    /\ UNCHANGED <<mainVars, report, pause>>

\* Mutant: keep_running_threads is not looked at.
LoopForever ==
    /\ thread = "loop"
    /\ thread' = "read"
    /\ UNCHANGED <<mainVars, report, pause>>

Loop ==
    /\ thread = "loop"
    /\ thread' = IF keep THEN "read" ELSE "gone"
    /\ UNCHANGED <<mainVars, report, pause>>

\* Mutant: only a rising count is passed on.
ReadRising ==
    /\ thread = "read"
    /\ \/ /\ now' \in Counts
          /\ click' \in BOOLEAN
          /\ thread' = IF now' > last THEN "ioctl" ELSE "key"
       \/ /\ thread' = "loop"
          /\ UNCHANGED <<now, click>>
    /\ UNCHANGED <<mainVars, last, pause>>

\* The count and the click, or nothing when the read fails.
Read ==
    /\ thread = "read"
    /\ \/ /\ now' \in Counts
          /\ click' \in BOOLEAN
          /\ thread' = IF now' # last THEN "ioctl" ELSE "key"
       \/ /\ thread' = "loop"
          /\ UNCHANGED <<now, click>>
    /\ UNCHANGED <<mainVars, last, pause>>

StartIoctl ==
    /\ thread = "ioctl"
    /\ thread' = "called"
    /\ UNCHANGED <<mainVars, report, pause>>

\* The count is remembered whatever the ioctl returned.
IoctlReturns ==
    /\ thread = "called"
    /\ last' = now
    /\ thread' = "key"
    /\ UNCHANGED <<mainVars, now, click, pause>>

\* Mutant: a resume is not signalled.
KeySilent ==
    /\ thread = "key"
    /\ thread' = "loop"
    /\ paused' = (paused # click)
    /\ late' = IF click THEN 0 ELSE late
    /\ UNCHANGED <<mainVars, report, woken>>

\* A click toggles the pause; a resume signals whoever waits.
Key ==
    /\ thread = "key"
    /\ thread' = "loop"
    /\ paused' = (paused # click)
    /\ woken' = (woken \/ (click /\ paused /\ main = "wait"))
    /\ late' = IF click THEN 0 ELSE late
    /\ UNCHANGED <<mainVars, report>>

MapCountToVolume(count) ==
    LET v == 100 - count * 5
    IN  IF v < 0 THEN 0 ELSE IF v > 254 THEN 254 ELSE v

-----------------------------------------------------------------------------
Main == Create \/ OpenFiles \/ Fetch \/ Test \/ Wake \/ Write \/ Join
Thread == OpenDevices \/ Loop \/ Read \/ Key

-----------------------------------------------------------------------------
\* A click stops the music after one more chunk at most, the one whose pause
\* was looked at before.
PauseHolds == late <= 1
=============================================================================
