---------------------------- MODULE VolumeRegister ----------------------------
(***************************************************************************)
(* What ioctl(VS10XX_SET_VOL) promises its callers: the volume is a        *)
(* register that a call sets, once, between its start and its return.  A   *)
(* call that fails returns all the same, and the promise ends with it;     *)
(* with the first two calls at once nothing is promised any more.          *)
(***************************************************************************)
CONSTANTS Callers, Values, Loudest

VARIABLES
    value,          \* the volume of the chip
    busy,           \* the callers that are in a call
    wanted,         \* the volume the last call asks for
    trust           \* "exact", then "failed" or "shared"

register == <<value, busy, wanted, trust>>

Init == value = Loudest /\ busy = {} /\ wanted = Loudest /\ trust = "exact"

\* The call that starts the chip resets it first.
Ask(c, v) ==
    /\ c \notin busy
    /\ busy' = busy \cup {c}
    /\ wanted' = v
    /\ trust' = IF busy = {} THEN trust ELSE "shared"
    /\ value' \in {value, Loudest}

Set ==
    /\ busy # {}
    /\ value' \in IF trust = "shared" THEN Values ELSE {wanted}
    /\ UNCHANGED <<busy, wanted, trust>>

Fail ==
    /\ busy # {}
    /\ trust = "exact"
    /\ trust' = "failed"
    /\ UNCHANGED <<value, busy, wanted>>

Return(c) ==
    /\ c \in busy
    /\ \/ trust = "exact" /\ trust' = "failed"
       \/ (trust = "exact" => value = wanted) /\ UNCHANGED trust
    /\ busy' = busy \ {c}
    /\ UNCHANGED <<value, wanted>>

Next ==
    \/ Set \/ Fail
    \/ \E c \in Callers : Return(c) \/ Ask(c, wanted')

Spec == Init /\ [][Next]_register
=============================================================================
