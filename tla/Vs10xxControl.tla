---------------------------- MODULE Vs10xxControl ----------------------------
(***************************************************************************)
(* The control path of the vs10xx driver: ioctl(VS10XX_SET_VOL) and the    *)
(* initialisation of the chip, down to the SPI bus.                        *)
(*                                                                         *)
(* Every register access waits for DREQ, builds a message in the chip's    *)
(* only spi_message, transfer array and tx_buf, has it sent and waits for  *)
(* DREQ again.  No lock is taken anywhere: a step is one of these accesses *)
(* to what the callers share.  spi_sync lets one caller at a time on the   *)
(* bus.  When the message is changed while it is being sent, is linked     *)
(* twice or is sent half cleared, the kernel's list is corrupt: damaged is *)
(* set and nothing is said about what follows.                             *)
(***************************************************************************)
EXTENDS Naturals, Sequences

CONSTANTS
    Callers,        \* who runs this code: the data probe and users' ioctls
    Probe,          \* the one that starts the chip
    Nobody,         \* sender when the bus is free
    Args            \* the arguments each user calls ioctl with

ASSUME CallersAssumption == Nobody \notin Callers /\ Probe \in Callers
ASSUME ArgsAssumption == Args \in [Callers \ {Probe} -> SUBSET Nat]

VARIABLES
    pc,             \* where in the access of a register each caller is
    todo,           \* the accesses it has left
    msg,            \* the chip's message: "torn", "empty" or "built"
    tx,             \* the command in tx_buf
    sender,         \* whose message is on the bus
    dreq,           \* the chip can take a command
    volume,         \* the chip's volume register
    probed,         \* the data probe has been called
    damaged,        \* the message was changed under the bus driver's hands
    asked,          \* history: the volume asked for last
    overlapped,     \* history: two callers have been at it at once
    faulty          \* history: the chip or the bus has failed a command

vars == <<pc, todo, msg, tx, sender, dreq, volume, probed, damaged, asked,
          overlapped, faulty>>
history == <<probed, asked, overlapped, faulty>>

Byte == 0 .. 255

\* Mutant: the upper bits of the argument are not masked off.
VolumeUnmasked(arg) == <<arg \div 256, arg % 256>>

\* The two levels in the argument of the ioctl.
Volume(arg) == <<(arg \div 256) % 256, arg % 256>>
Quietest == <<254, 254>>
Loudest == <<0, 0>>                 \* after a reset
Values == Byte \X Byte

\* A command sets the volume to a pair of levels, or it reads or writes one of
\* the other registers, whose values are left out.
Other == <<>>
Commands == Values \cup {Other}

\* STATUS is read, CLOCKF, VOL and AUDATA are written.
StartUp == <<Other, Other, Quietest, Other>>

TypeOK ==
    /\ pc \in [Callers -> {"idle", "ready", "clear", "renew", "build",
                           "submit", "transfer", "settle"}]
    /\ todo \in [Callers -> Seq(Commands)]
    /\ msg \in {"torn", "empty", "built"}
    /\ tx \in Commands
    /\ sender \in Callers \cup {Nobody}
    /\ dreq \in BOOLEAN
    /\ volume \in Values
    /\ asked \in Values
    /\ probed \in BOOLEAN /\ damaged \in BOOLEAN
    /\ overlapped \in BOOLEAN /\ faulty \in BOOLEAN

Init ==
    /\ pc = [c \in Callers |-> "idle"]
    /\ todo = [c \in Callers |-> <<>>]
    /\ msg = "torn"
    /\ tx = Other
    /\ sender = Nobody
    /\ dreq = TRUE
    /\ volume = Loudest
    /\ asked = Loudest
    /\ probed = FALSE /\ damaged = FALSE
    /\ overlapped = FALSE /\ faulty = FALSE

Goto(c, place) == pc' = [pc EXCEPT ![c] = place]
Idle == \A c \in Callers : pc[c] = "idle"

-----------------------------------------------------------------------------
Call(c, accesses) ==
    /\ pc[c] = "idle"
    /\ Goto(c, "ready")
    /\ todo' = [todo EXCEPT ![c] = accesses]
    /\ overlapped' = (overlapped \/ ~Idle)
    /\ UNCHANGED <<msg, tx, sender, damaged, faulty>>

Ioctl(c, arg) ==
    /\ Call(c, <<Volume(arg)>>)
    /\ asked' = Volume(arg)
    /\ UNCHANGED <<dreq, volume, probed>>

\* vs10xx_device_init: the reset clears the volume; the chip is busy until
\* it has started.
DeviceInit(c) ==
    /\ c = Probe
    /\ ~probed
    /\ probed' = TRUE
    /\ Call(c, StartUp)
    /\ asked' = Quietest
    /\ volume' = Loudest
    /\ dreq' = FALSE

\* An access is over, whatever its result: both callers go on all the same.
Finish(c) ==
    /\ todo' = [todo EXCEPT ![c] = Tail(@)]
    /\ Goto(c, IF Len(todo[c]) > 1 THEN "ready" ELSE "idle")

Ready(c) ==
    /\ pc[c] = "ready"
    /\ dreq
    /\ Goto(c, "clear")
    /\ UNCHANGED <<todo, msg, tx, sender, dreq, volume, damaged, history>>

\* Mutant: the wait after an access has no limit.
TimeOutFirstOnly(c) ==
    /\ pc[c] = "ready"
    /\ ~dreq
    /\ faulty' = TRUE
    /\ Finish(c)
    /\ UNCHANGED <<msg, tx, sender, dreq, volume, damaged, probed, asked, overlapped>>

\* Some hundred polls have all found DREQ low.
TimeOut(c) ==
    /\ pc[c] \in {"ready", "settle"}
    /\ ~dreq
    /\ faulty' = TRUE
    /\ Finish(c)
    /\ UNCHANGED <<msg, tx, sender, dreq, volume, damaged, probed, asked,
                   overlapped>>

-----------------------------------------------------------------------------
(* vs10xx_io_ctrl_xf.                                                      *)

\* memset of the transfers: those linked into the message lose their links.
Clear(c) ==
    /\ pc[c] = "clear"
    /\ msg' = IF msg = "empty" THEN "empty" ELSE "torn"
    /\ damaged' = (sender # Nobody)
    /\ Goto(c, "renew")
    /\ UNCHANGED <<todo, tx, sender, dreq, volume, history>>

\* Mutant: spi_message_init is left out.
RenewNothing(c) ==
    /\ pc[c] = "renew"
    /\ damaged' = (sender # Nobody)
    /\ Goto(c, "build")
    /\ UNCHANGED <<todo, msg, tx, sender, dreq, volume, history>>

\* spi_message_init.
Renew(c) ==
    /\ pc[c] = "renew"
    /\ msg' = "empty"
    /\ damaged' = (sender # Nobody)
    /\ Goto(c, "build")
    /\ UNCHANGED <<todo, tx, sender, dreq, volume, history>>

\* memcpy and spi_message_add_tail.
Build(c) ==
    /\ pc[c] = "build"
    /\ tx' = Head(todo[c])
    /\ msg' = "built"
    /\ damaged' = (msg # "empty" \/ sender # Nobody)
    /\ Goto(c, "submit")
    /\ UNCHANGED <<todo, sender, dreq, volume, history>>

\* spi_sync waits for the bus and refuses an empty message.
Submit(c) ==
    /\ pc[c] = "submit"
    /\ sender = Nobody
    /\ \/ /\ msg = "empty"
          /\ Goto(c, "settle")
          /\ UNCHANGED <<sender, damaged>>
       \/ /\ msg # "empty"
          /\ damaged' = (msg = "torn")
          /\ sender' = c
          /\ Goto(c, "transfer")
    /\ UNCHANGED <<todo, msg, tx, dreq, volume, history>>

\* Mutant: the command goes out over the chip's data interface.
TransferNowhere(c) ==
    /\ pc[c] = "transfer"
    /\ sender' = Nobody
    /\ Goto(c, "settle")
    /\ UNCHANGED <<todo, msg, tx, dreq, volume, damaged, history>>

Transfer(c) ==
    /\ pc[c] = "transfer"
    /\ sender' = Nobody
    /\ \/ /\ volume' = IF tx = Other THEN volume ELSE tx
          /\ dreq' = FALSE
          /\ UNCHANGED faulty
       \/ /\ faulty' = TRUE
          /\ UNCHANGED <<volume, dreq>>
    /\ Goto(c, "settle")
    /\ UNCHANGED <<todo, msg, tx, damaged, probed, asked, overlapped>>

Settle(c) ==
    /\ pc[c] = "settle"
    /\ dreq
    /\ Finish(c)
    /\ UNCHANGED <<msg, tx, sender, dreq, volume, damaged, history>>

\* The chip raises DREQ, or lowers it while it decodes what write() feeds it.
DataRequest ==
    /\ dreq' = ~dreq
    /\ UNCHANGED <<pc, todo, msg, tx, sender, volume, damaged, history>>

-----------------------------------------------------------------------------
Access(c) ==
    \/ Ready(c) \/ TimeOut(c) \/ Clear(c) \/ Renew(c) \/ Build(c)
    \/ Submit(c) \/ Transfer(c) \/ Settle(c)

Begin(c) ==
    \/ DeviceInit(c)
    \/ c # Probe /\ \E arg \in Args[c] : Ioctl(c, arg)

Step(c) == ~damaged /\ Access(c)
Start(c) == ~damaged /\ Begin(c)
Environment == ~damaged /\ DataRequest

Next == Environment \/ \E c \in Callers : Start(c) \/ Step(c)

Spec == Init /\ [][Next]_vars

\* A caller's loops are bounded, the bus driver sends what it is given, and the
\* bus is granted to those that wait for it in turn (a mutex of the kernel).
Fairness ==
    \A c \in Callers : WF_vars(Step(c)) /\ SF_vars(~damaged /\ Submit(c))

FairSpec == Spec /\ Fairness

-----------------------------------------------------------------------------
\* While calls come one at a time and nothing fails, each leaves the chip at
\* the volume it asked for (vs10xx_ioctl looks at no result).
SerialExact == Idle /\ ~overlapped /\ ~faulty => volume = asked

\* The message is changed under the bus driver's hands only by two callers.
DamageNeedsTwo == damaged => overlapped

\* Every call returns, whether or not the chip answers.
CallsReturn == \A c \in Callers : pc[c] = "ready" ~> pc[c] = "idle" \/ damaged

\* The calls implement a register that is set atomically, as long as they come
\* one at a time and none fails.
Register == INSTANCE VolumeRegister WITH
    value <- volume,
    busy <- {c \in Callers : pc[c] # "idle"},
    wanted <- asked,
    trust <- IF overlapped THEN "shared" ELSE IF faulty THEN "failed" ELSE "exact"
AtomicVolume == Register!Spec
=============================================================================
