--------------------------- MODULE Vs10xxLifecycle ---------------------------
(***************************************************************************)
(* The life of the vs10xx driver, for one of its devices: loading it, the  *)
(* two SPI probes, opening the device, writing and setting the volume, and *)
(* unloading call by call, with the buffers that are allocated on the way. *)
(* The device can be opened as soon as cdev_add is through, while the      *)
(* loading goes on; the probes run when the bus finds the chip's two SPI   *)
(* devices, in either order and while the driver of the device is          *)
(* registered, and the control probe again after it has failed.  A pointer *)
(* is unset, good or an error pointer.                                     *)
(***************************************************************************)
EXTENDS Naturals

CONSTANTS
    PoolSize,       \* VS10XX_QUEUE_MAX_ELEMENTS
    MaxOpens,       \* bound: processes that have the device open at once
    MaxLoads        \* bound: loads

BoundsAssumption == PoolSize \in Nat /\ MaxOpens \in Nat /\ MaxLoads \in Nat

VARIABLES
    pc,             \* the next call of the loading or the unloading; "out"
                    \* and "loaded" between them
    held,           \* the resources the driver has
    drivers,        \* the SPI drivers that are registered
    probed,         \* the SPI devices whose probe has succeeded
    ctrl, data,     \* spi_ctrl and spi_data are set
    reset, dreq,    \* gpio_reset and gpio_dreq: "null", "good" or "error"
    queues,         \* "unset", or "set" up by vs10xx_queue_init and INIT_LIST_HEAD
    stock,          \* buffers in tx_pool_q
    queued,         \* buffers in tx_data_q
    memory,         \* buffers allocated and not freed
    unsent,         \* history: buffers queued when the driver was unloaded
    opens,          \* open files
    loads,          \* loads so far (bounds the run)
    fault           \* a kernel fault has ended everything

buffers == <<stock, queued, memory, unsent>>
vars == <<pc, held, drivers, probed, ctrl, data, reset, dreq, queues, buffers,
          opens, loads, fault>>
loading == <<pc, held, drivers, loads>>
chip == <<probed, ctrl, data, reset, dreq>>

Undoings == {"exit_data", "exit_device", "exit_cdev", "exit_queues", "exit_class", "exit_region"}
Places == {"out", "class", "cdev", "device", "queues", "ctrl", "data", "loaded",
           "exit_data", "exit_device", "exit_cdev", "exit_queues", "exit_class", "exit_region"}

TypeOK ==
    /\ pc \in Places
    /\ held \subseteq {"region", "class", "cdev", "device"}
    /\ drivers \subseteq {"ctrl", "data"} /\ probed \subseteq drivers
    /\ ctrl \in BOOLEAN /\ data \in BOOLEAN
    /\ reset \in {"null", "good", "error"} /\ dreq \in {"null", "good", "error"}
    /\ queues \in {"unset", "set"}
    /\ stock \in Nat /\ queued \in Nat /\ memory \in Nat /\ unsent \in Nat
    /\ opens \in 0 .. MaxOpens /\ loads \in 0 .. MaxLoads
    /\ fault \in BOOLEAN

Init ==
    /\ pc = "out" /\ held = {} /\ drivers = {} /\ probed = {}
    /\ ctrl = FALSE /\ data = FALSE /\ reset = "null" /\ dreq = "null"
    /\ queues = "unset" /\ stock = 0 /\ queued = 0 /\ memory = 0 /\ unsent = 0
    /\ opens = 0 /\ loads = 0 /\ fault = FALSE

Lists == <<queues, buffers>>
Others == <<opens, fault>>

-----------------------------------------------------------------------------
(* vs10xx_init.                                                            *)

\* alloc_chrdev_region.
Load ==
    /\ pc = "out"
    /\ loads < MaxLoads
    /\ loads' = loads + 1
    /\ \/ pc' = "class" /\ held' = {"region"}
       \/ UNCHANGED <<pc, held>>
    /\ UNCHANGED <<drivers, chip, Lists, Others>>

CreateClass ==
    /\ pc = "class"
    /\ \/ pc' = "cdev" /\ held' = held \cup {"class"}
       \/ pc' = "out" /\ held' = held \ {"region"}
    /\ UNCHANGED <<drivers, loads, chip, Lists, Others>>

\* A device whose cdev_add fails is passed over, its queues are not set up,
\* and the loading goes on.
AddCdev ==
    /\ pc = "cdev"
    /\ \/ pc' = "device" /\ held' = held \cup {"cdev"}
       \/ pc' = "ctrl" /\ UNCHANGED held
    /\ UNCHANGED <<drivers, loads, chip, Lists, Others>>

\* A failure is logged.
CreateDevice ==
    /\ pc = "device"
    /\ pc' = "queues"
    /\ held' \in {held, held \cup {"device"}}
    /\ UNCHANGED <<drivers, loads, chip, Lists, Others>>

\* vs10xx_queue_init frees all its buffers when one cannot be allocated; its
\* result is ignored.
InitQueues ==
    /\ pc = "queues"
    /\ pc' = "ctrl"
    /\ queues' = "set"
    /\ \/ stock' = PoolSize /\ memory' = memory + PoolSize
       \/ stock' = 0 /\ UNCHANGED memory
    /\ UNCHANGED <<held, drivers, loads, chip, queued, unsent, Others>>

\* spi_register_driver, for either driver; the results are ignored.
Register(d, next) ==
    /\ pc = d
    /\ pc' = next
    /\ drivers' \in {drivers, drivers \cup {d}}
    /\ UNCHANGED <<held, loads, chip, Lists, Others>>

-----------------------------------------------------------------------------
(* The probes.                                                             *)

\* Mutant: the SPI device is noted only when the GPIOs are there.
ProbeCtrlLate ==
    /\ "ctrl" \in drivers \ probed
    /\ \/ /\ reset' = "error" /\ UNCHANGED <<dreq, probed, ctrl>>
       \/ /\ reset' = "good"
          /\ \/ dreq' = "error" /\ UNCHANGED <<probed, ctrl>>
             \/ dreq' = "good" /\ probed' = probed \cup {"ctrl"} /\ ctrl' = TRUE
    /\ UNCHANGED <<loading, data, Lists, Others>>

ProbeCtrl ==
    /\ "ctrl" \in drivers \ probed
    /\ ctrl' = TRUE
    /\ \/ /\ reset' = "error" /\ UNCHANGED <<dreq, probed>>
       \/ /\ reset' = "good"
          /\ \/ dreq' = "error" /\ UNCHANGED probed
             \/ dreq' = "good" /\ probed' = probed \cup {"ctrl"}
    /\ UNCHANGED <<loading, data, Lists, Others>>

\* What vs10xx_io_wtready makes of the pointer: gpiod_get_value returns 0 for
\* an unset one and a negative number for an error.
Answers == IF dreq = "null" THEN {FALSE} ELSE IF dreq = "error" THEN {TRUE}
           ELSE BOOLEAN

\* A register access sends its message over spi_ctrl, set or not, unless DREQ
\* stays low.
Access == \E answer \in Answers : fault' = (answer /\ ~ctrl)

\* The data probe starts the chip, whatever the control probe has done.
ProbeData ==
    /\ "data" \in drivers \ probed
    /\ data' = TRUE
    /\ probed' = probed \cup {"data"}
    /\ Access
    /\ UNCHANGED <<loading, ctrl, reset, dreq, Lists, opens>>

-----------------------------------------------------------------------------
(* The file operations.                                                    *)

\* The module is not lent any more once it is being unloaded.
Open ==
    /\ "cdev" \in held
    /\ pc \notin Undoings
    /\ opens < MaxOpens
    /\ opens' = opens + 1
    /\ UNCHANGED <<loading, chip, Lists, fault>>

Close ==
    /\ opens > 0
    /\ opens' = opens - 1
    /\ UNCHANGED <<loading, chip, Lists, fault>>

Ioctl ==
    /\ opens > 0
    /\ Access
    /\ UNCHANGED <<loading, chip, Lists, opens>>

\* Mutant: the buffer does not go back.
FillLosing(n) ==
    /\ stock' = IF stock > n THEN stock - n - 1 ELSE 0
    /\ queued' = queued + n
    /\ UNCHANGED fault

\* n buffers are filled, and the call ends: at a signal while it waits for
\* another buffer, or at an address it cannot read, whose buffer goes back.
Fill(n) ==
    /\ stock' = stock - n
    /\ queued' = queued + n
    /\ UNCHANGED fault

\* n buffers are filled, and k of all that are queued go out over spi_data,
\* set or not, for as long as DREQ is found high.
FillAndSend(n, k) ==
    /\ k > 0 => TRUE \in Answers
    /\ k < queued + n => FALSE \in Answers
    /\ stock' = stock - n + k
    /\ queued' = queued + n - k
    /\ fault' = (k > 0 /\ ~data)

\* A write faults on queues that are not set up.
Write ==
    /\ opens > 0
    /\ \/ queues = "unset" /\ fault' = TRUE /\ UNCHANGED <<stock, queued>>
       \/ /\ queues = "set"
          /\ \E n \in 0 .. stock :
                \/ Fill(n)
                \/ \E k \in 0 .. queued + n : FillAndSend(n, k)
    /\ UNCHANGED <<loading, chip, queues, memory, unsent, opens>>

-----------------------------------------------------------------------------
(* vs10xx_exit, which nobody calls while the device is open.               *)

\* spi_unregister_driver, for either driver: the devices lose their driver.
Unregister(d, here, next) ==
    /\ pc = here
    /\ pc' = next
    /\ drivers' = drivers \ {d}
    /\ probed' = probed \ {d}
    /\ UNCHANGED <<held, loads, ctrl, data, reset, dreq, Lists, Others>>

Unload == opens = 0 /\ Unregister("ctrl", "loaded", "exit_data")

\* device_destroy, cdev_del, class_destroy.
Undo(r, here, next) ==
    /\ pc = here
    /\ pc' = next
    /\ held' = held \ {r}
    /\ UNCHANGED <<drivers, loads, chip, Lists, Others>>

\* vs10xx_queue_free, of tx_pool_q only, faults on queues that were never set
\* up; vs10xx_io_exit does nothing.
FreeQueues ==
    /\ pc = "exit_queues"
    /\ pc' = "exit_class"
    /\ fault' = (queues = "unset")
    /\ stock' = 0
    /\ memory' = memory - stock
    /\ UNCHANGED <<held, drivers, loads, chip, queues, queued, unsent, opens>>

\* unregister_chrdev_region; the variables go with the module.
GiveBackRegion ==
    /\ pc = "exit_region"
    /\ pc' = "out"
    /\ held' = held \ {"region"}
    /\ unsent' = unsent + queued
    /\ ctrl' = FALSE /\ data' = FALSE /\ reset' = "null" /\ dreq' = "null"
    /\ queues' = "unset" /\ stock' = 0 /\ queued' = 0
    /\ UNCHANGED <<drivers, probed, loads, memory, Others>>

Exit ==
    \/ Unload \/ Unregister("data", "exit_data", "exit_device")
    \/ Undo("device", "exit_device", "exit_cdev") \/ Undo("cdev", "exit_cdev", "exit_queues")
    \/ FreeQueues
    \/ Undo("class", "exit_class", "exit_region") \/ GiveBackRegion

Next ==
    /\ ~fault
    /\ \/ Load \/ CreateClass \/ AddCdev \/ CreateDevice \/ InitQueues
       \/ Register("ctrl", "data") \/ Register("data", "loaded")
       \/ ProbeCtrl \/ ProbeData
       \/ Open \/ Close \/ Ioctl \/ Write
       \/ Exit

Spec == Init /\ [][Next]_vars

-----------------------------------------------------------------------------
\* Once the queues and spi_data are set, nothing faults any more: in whatever
\* order the SPI devices are found, whichever GPIO they miss and however often
\* the device is opened meanwhile, no register is accessed over an spi_ctrl
\* that is not set.  (Before, opening the device is enough for a fault.)
QuietOnceUp == [][queues = "set" /\ data => ~fault']_vars

\* A driver that is out has given everything back, wherever its loading has
\* failed and in whatever state the calls of its users have left it, but for
\* the buffers whose chunks were still queued when it was unloaded: those, and
\* no others, are never freed (vs10xx_exit frees tx_pool_q only).
LeakIsUnsent == pc = "out" => held = {} /\ drivers = {} /\ memory = unsent
=============================================================================
