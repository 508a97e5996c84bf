------------------------------ MODULE RotaryKey ------------------------------
(***************************************************************************)
(* The key of the rotary encoder driver rotary_encoder_vol, and opening,   *)
(* reading and closing its device.                                         *)
(*                                                                         *)
(* A press of the key interrupts; the interrupt (re)starts a 20 ms timer;  *)
(* when the timer expires and the key is still down, a click is noted in   *)
(* key_press_event, which read() fetches and clears.  open() claims the    *)
(* GPIOs, initialises the timer and claims the interrupts one by one;      *)
(* nothing serialises open(), read() and release() of several processes.   *)
(***************************************************************************)
EXTENDS Naturals, FiniteSets

CONSTANTS
    Users,          \* the processes that use the device
    Nobody,         \* owner of an interrupt nobody has registered
    MaxPresses,     \* bound: presses of the key
    MaxOpens        \* bound: calls of open()

ASSUME UsersAssumption == IsFiniteSet(Users) /\ Nobody \notin Users
ASSUME BoundAssumption == MaxPresses \in Nat /\ MaxOpens \in Nat

\* open() claims and release() frees the interrupts in this order.
Irqs == 1 .. 3
KeyIrq == 3

VARIABLES
    pc,             \* where in open(), read() or release() each process is
    irq,            \* the interrupt it deals with next
    result,         \* one of its request_threaded_irq calls has failed
    owner,          \* who registered each interrupt
    timer,          \* the debounce timer: "off" or "armed"
    down,           \* the key is held down
    edge,           \* its falling edge has not been handled yet
    event,          \* key_press_event
    fetched,        \* the value read() has loaded
    clicks,         \* history: clicks noted by the timer
    delivered,      \* history: clicks returned to a reader
    lost,           \* history: clicks that will never be returned
    presses,        \* presses so far (bounds the run)
    opens           \* open() calls so far (bounds the run)

vars == <<pc, irq, result, owner, timer, down, edge, event, fetched, clicks,
          delivered, lost, presses, opens>>
user == <<pc, irq, result, opens>>
key == <<down, edge, presses>>
click == <<event, fetched, clicks, delivered, lost>>

\* The two lines of the knob are read, and kept, one after the other.
Samples == {"read1", "keep1", "read2", "keep2"}

TypeOK ==
    /\ pc \in [Users -> Samples \cup {"closed", "timer", "irqs", "open", "clear",
                                     "copy", "stop", "free"}]
    /\ irq \in [Users -> 1 .. 4]
    /\ result \in [Users -> BOOLEAN]
    /\ owner \in [Irqs -> Users \cup {Nobody}]
    /\ timer \in {"off", "armed"}
    /\ down \in BOOLEAN /\ edge \in BOOLEAN
    /\ event \in {0, 1}
    /\ fetched \in [Users -> {0, 1}]
    /\ clicks \in Nat /\ delivered \in Nat /\ lost \in Nat
    /\ presses \in 0 .. MaxPresses
    /\ opens \in 0 .. MaxOpens

Init ==
    /\ pc = [u \in Users |-> "closed"]
    /\ irq = [u \in Users |-> 1]
    /\ result = [u \in Users |-> FALSE]
    /\ owner = [i \in Irqs |-> Nobody]
    /\ timer = "off"
    /\ down = FALSE /\ edge = FALSE
    /\ event = 0
    /\ fetched = [u \in Users |-> 0]
    /\ clicks = 0 /\ delivered = 0 /\ lost = 0
    /\ presses = 0
    /\ opens = 0

Goto(u, place) == pc' = [pc EXCEPT ![u] = place]

-----------------------------------------------------------------------------
(* my_open.  The GPIO requests before it are not checked.  What it samples  *)
(* and where it keeps it is RotaryKnob's.                                   *)

Open(u) ==
    /\ pc[u] = "closed"
    /\ opens < MaxOpens
    /\ opens' = opens + 1
    /\ irq' = [irq EXCEPT ![u] = 1]
    /\ result' = [result EXCEPT ![u] = FALSE]
    /\ Goto(u, "read1")
    /\ UNCHANGED <<owner, timer, key, click>>

Sample(u) ==
    /\ pc[u] \in Samples
    /\ Goto(u, [read1 |-> "keep1", keep1 |-> "read2", read2 |-> "keep2",
                keep2 |-> "timer"][pc[u]])
    /\ UNCHANGED <<irq, result, opens, owner, timer, key, click>>

\* timer_setup: a timer that is pending is forgotten.
SetupTimer(u) ==
    /\ pc[u] = "timer"
    /\ timer' = "off"
    /\ Goto(u, "irqs")
    /\ UNCHANGED <<irq, result, opens, owner, key, click>>

\* Mutant: "=" for "|=", only the last request decides.
RequestIrqLastWins(u) ==
    /\ pc[u] = "irqs"
    /\ irq[u] \in Irqs
    /\ irq' = [irq EXCEPT ![u] = @ + 1]
    /\ \/ /\ owner[irq[u]] = Nobody
          /\ owner' = [owner EXCEPT ![irq[u]] = u]
          /\ result' = [result EXCEPT ![u] = FALSE]
       \/ /\ result' = [result EXCEPT ![u] = TRUE]
          /\ UNCHANGED owner
    /\ UNCHANGED <<pc, opens, timer, key, click>>

\* The interrupts are not shared: a request fails while somebody has the
\* line; it may also fail for want of memory.  The next one is tried anyway.
RequestIrq(u) ==
    /\ pc[u] = "irqs"
    /\ irq[u] \in Irqs
    /\ irq' = [irq EXCEPT ![u] = @ + 1]
    /\ \/ /\ owner[irq[u]] = Nobody
          /\ owner' = [owner EXCEPT ![irq[u]] = u]
          /\ UNCHANGED result
       \/ /\ result' = [result EXCEPT ![u] = TRUE]
          /\ UNCHANGED owner
    /\ UNCHANGED <<pc, opens, timer, key, click>>

\* Mutant: a failed request is only logged.
OpenedAnyway(u) ==
    /\ pc[u] = "irqs"
    /\ irq[u] \notin Irqs
    /\ Goto(u, "open")
    /\ UNCHANGED <<irq, result, opens, owner, timer, key, click>>

\* A failed open() keeps the interrupts it has got.
Opened(u) ==
    /\ pc[u] = "irqs"
    /\ irq[u] \notin Irqs
    /\ Goto(u, IF result[u] THEN "closed" ELSE "open")
    /\ UNCHANGED <<irq, result, opens, owner, timer, key, click>>

-----------------------------------------------------------------------------
(* my_read.                                                                *)

Fetch(u) ==
    /\ pc[u] = "open"
    /\ fetched' = [fetched EXCEPT ![u] = event]
    /\ Goto(u, "clear")
    /\ UNCHANGED <<irq, result, opens, owner, timer, key, event, clicks,
                   delivered, lost>>

\* Mutant: the event is not cleared.
ClearNothing(u) ==
    /\ pc[u] = "clear"
    /\ Goto(u, "copy")
    /\ UNCHANGED <<irq, result, opens, owner, timer, key, click>>

\* A click noted since the fetch is lost.
Clear(u) ==
    /\ pc[u] = "clear"
    /\ event' = 0
    /\ lost' = IF event = 1 /\ fetched[u] = 0 THEN lost + 1 ELSE lost
    /\ Goto(u, "copy")
    /\ UNCHANGED <<irq, result, opens, owner, timer, key, fetched, clicks,
                   delivered>>

\* copy_to_user succeeds, or read() fails with EFAULT.
Copy(u) ==
    /\ pc[u] = "copy"
    /\ \/ /\ delivered' = delivered + fetched[u]
          /\ UNCHANGED lost
       \/ /\ lost' = lost + fetched[u]
          /\ UNCHANGED delivered
    /\ fetched' = [fetched EXCEPT ![u] = 0]
    /\ Goto(u, "open")
    /\ UNCHANGED <<irq, result, opens, owner, timer, key, event, clicks>>

-----------------------------------------------------------------------------
(* my_release.                                                             *)

Close(u) ==
    /\ pc[u] = "open"
    /\ Goto(u, "stop")
    /\ UNCHANGED <<irq, result, opens, owner, timer, key, click>>

\* del_timer_sync.
StopTimer(u) ==
    /\ pc[u] = "stop"
    /\ timer' = "off"
    /\ irq' = [irq EXCEPT ![u] = 1]
    /\ Goto(u, "free")
    /\ UNCHANGED <<result, opens, owner, key, click>>

\* free_irq waits for the handler and drops an edge it has not seen.
FreeIrq(u) ==
    /\ pc[u] = "free"
    /\ irq[u] \in Irqs
    /\ owner' = [owner EXCEPT ![irq[u]] = Nobody]
    /\ irq' = [irq EXCEPT ![u] = @ + 1]
    /\ edge' = (edge /\ irq[u] # KeyIrq)
    /\ UNCHANGED <<pc, result, opens, timer, down, presses, click>>

Closed(u) ==
    /\ pc[u] = "free"
    /\ irq[u] \notin Irqs
    /\ Goto(u, "closed")
    /\ UNCHANGED <<irq, result, opens, owner, timer, key, click>>

-----------------------------------------------------------------------------
(* The key, its interrupt thread and the timer.                            *)

Press ==
    /\ ~down
    /\ presses < MaxPresses
    /\ presses' = presses + 1
    /\ down' = TRUE
    /\ edge' = (edge \/ owner[KeyIrq] # Nobody)
    /\ UNCHANGED <<user, owner, timer, click>>

LetGo ==
    /\ down
    /\ down' = FALSE
    /\ UNCHANGED <<edge, presses, user, owner, timer, click>>

\* key_handler: mod_timer.
HandleKey ==
    /\ edge
    /\ edge' = FALSE
    /\ timer' = "armed"
    /\ UNCHANGED <<user, owner, down, presses, click>>

\* Mutant: clicks are counted up in key_press_event.
ExpireCounts ==
    /\ timer = "armed"
    /\ timer' = "off"
    /\ \/ /\ down
          /\ event' = event + 1
          /\ clicks' = clicks + 1
          /\ UNCHANGED lost
       \/ /\ ~down
          /\ UNCHANGED <<event, clicks, lost>>
    /\ UNCHANGED <<user, owner, key, fetched, delivered>>

\* debounce_timer_callback.  A click noted before the last one was fetched is
\* not counted separately.
Expire ==
    /\ timer = "armed"
    /\ timer' = "off"
    /\ \/ /\ down
          /\ event' = 1
          /\ clicks' = clicks + 1
          /\ lost' = lost + event
       \/ /\ ~down
          /\ UNCHANGED <<event, clicks, lost>>
    /\ UNCHANGED <<user, owner, key, fetched, delivered>>

-----------------------------------------------------------------------------
Use(u) ==
    \/ Open(u) \/ Sample(u) \/ SetupTimer(u) \/ RequestIrq(u) \/ Opened(u)
    \/ Fetch(u) \/ Clear(u) \/ Copy(u)
    \/ Close(u) \/ StopTimer(u) \/ FreeIrq(u) \/ Closed(u)

Next ==
    \/ \E u \in Users : Use(u)
    \/ Press \/ LetGo \/ HandleKey \/ Expire

Spec == Init /\ [][Next]_vars

-----------------------------------------------------------------------------
Inside == {"open", "clear", "copy", "stop"}

\* At most one process has the device open, however the open() and release()
\* calls interleave: the interrupts, claimed one by one, are the lock.
OneOpener ==
    \A u, v \in Users : pc[u] \in Inside /\ pc[v] \in Inside => u = v

\* A process that has the device open owns all of its interrupts; no other
\* process's release() takes one away.
OpenerOwnsIrqs ==
    \A u \in Users : pc[u] \in Inside => \A i \in Irqs : owner[i] = u

\* A click is reported to at most one read(), and one that is never reported
\* was noted during another click, between the fetch and the clear of a
\* read(), or was fetched by a read() that failed.
ClicksAccounted ==
    LET fetching == {u \in Users : fetched[u] = 1}
        waiting == event = 1 /\ ~\E u \in fetching : pc[u] = "clear"
    IN  clicks = delivered + lost + Cardinality(fetching)
                   + (IF waiting THEN 1 ELSE 0)
=============================================================================
