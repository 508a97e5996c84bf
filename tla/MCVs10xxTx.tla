------------------------------ MODULE MCVs10xxTx ------------------------------
(***************************************************************************)
(* Instances of the transmit path for TLC.                                 *)
(***************************************************************************)
EXTENDS Vs10xxFifo, TLC

CONSTANTS w1, w2

OneWriter == {w1}
TwoWriters == {w1, w2}
Symmetry == Permutations(TwoWriters)

NoControl == Surroundings \ {"control"}
NoTransferFault == Surroundings \ {"spi"}
Transfers == {"spi"}
Stalls == {"stall"}
Undisturbed == {}
=============================================================================
