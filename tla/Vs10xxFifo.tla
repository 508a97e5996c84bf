------------------------------ MODULE Vs10xxFifo ------------------------------
(***************************************************************************)
(* The transmit path as an implementation of TxChannel.  The chunks sent   *)
(* or lost are the accepted ones that wait in no buffer any more.          *)
(***************************************************************************)
EXTENDS Vs10xxTx

\* Processes with a block they are about to send or to put back.
InFlight == {w \in Writers : pc[w] \in {"poll", "send", "requeue"}}

Taken == Len(accepted) - Len(data) - Cardinality(InFlight)

Chan == INSTANCE TxChannel WITH wire <- Fronts(sent), taken <- Taken

\* The driver sends the accepted chunks in order, each at most once
\* (vs10xx.h:48-51).
FifoChannel == Chan!Spec
=============================================================================
