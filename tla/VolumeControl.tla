---------------------------- MODULE VolumeControl ----------------------------
(***************************************************************************)
(* The program ioctl_vol_ctrl on the driver it calls: the volume thread's  *)
(* ioctls, and those of another run of the program with the command        *)
(* setvolume, set the register that the driver's control path implements   *)
(* (Vs10xxControl!AtomicVolume).  A caller that is busy is in the driver.  *)
(***************************************************************************)
EXTENDS IoctlVolCtrl

CONSTANTS
    Player,         \* the caller that is the volume thread
    Command,        \* the caller that is a run of setvolume
    Levels          \* what setvolume is called with, left and right

CommandAssumption == Command # Player /\ Levels \subseteq 0 .. 254

VARIABLES
    value, busy, wanted, trust,     \* the register (VolumeRegister)
    setter                          \* history: who has called last

\* The ioctl carries two bytes, left and right.
Volume(l, r) == <<l, r>>
VolumeOf(count) == Volume(MapCountToVolume(count), MapCountToVolume(count))
Values == {VolumeOf(n) : n \in Counts} \cup {Volume(l, r) : l, r \in Levels}

Driver == INSTANCE VolumeRegister WITH
    Callers <- {Player, Command}, Loudest <- Volume(0, 0)

program == vars
register == <<value, busy, wanted, trust>>
driver == <<register, setter>>
system == <<program, driver>>

SystemInit == Init /\ Driver!Init /\ setter = Command

\* The volume thread is inside the driver from StartIoctl to IoctlReturns.
CallIoctl ==
    /\ StartIoctl
    /\ value' = value
    /\ Driver!Ask(Player, VolumeOf(now))
    /\ setter' = Player

ReturnFromIoctl ==
    Driver!Return(Player) /\ IoctlReturns /\ UNCHANGED setter

\* The command setvolume, in a process of its own.
SetVolume ==
    /\ value' = value
    /\ \E l, r \in Levels : Driver!Ask(Command, Volume(l, r))
    /\ setter' = Command
    /\ UNCHANGED program

SetVolumeDone == Driver!Return(Command) /\ UNCHANGED <<program, setter>>

Chip == (Driver!Set \/ Driver!Fail) /\ UNCHANGED <<program, setter>>

MainStep == Main /\ UNCHANGED driver
ThreadStep ==
    \/ Thread /\ UNCHANGED driver
    \/ CallIoctl
    \/ trust # "shared" /\ ReturnFromIoctl

SystemNext ==
    \/ MainStep \/ ThreadStep \/ ReturnFromIoctl
    \/ WakeSpuriously /\ UNCHANGED driver
    \/ SetVolume \/ SetVolumeDone \/ Chip

\* Both threads run.  A call returns as long as it had the driver to itself:
\* of two at once the driver promises nothing.
Fairness == WF_system(MainStep) /\ WF_system(ThreadStep)

SystemSpec == SystemInit /\ [][SystemNext]_system /\ Fairness

-----------------------------------------------------------------------------
\* After each report of the encoder the music plays at the volume of the
\* count in it, as long as no command failed, no two calls met and nobody else
\* has set the volume since, although only a change of the count is passed on.
VolumeFollowsKnob ==
    thread = "key" /\ trust = "exact" /\ busy = {} /\ setter = Player
    => value = VolumeOf(now)

\* A resume is heard: main does not go on waiting unless it is paused again.
ResumeIsHeard == main = "wait" /\ ~paused ~> main # "wait" \/ paused

\* When the playback is over the program ends, even if its thread was just
\* setting the volume.
ProgramEnds == main = "join" ~> main = "done" \/ trust = "shared"
=============================================================================
