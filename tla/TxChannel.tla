------------------------------ MODULE TxChannel ------------------------------
(***************************************************************************)
(* What the transmit path of the vs10xx driver promises to the programs    *)
(* that write to it (vs10xx.h:48-51): the chunks they hand over are sent   *)
(* to the decoder one by one, in the order in which they were accepted,    *)
(* each at most once.  A transfer the SPI controller refuses loses its     *)
(* chunk (vs10xx_main.c:74-77).                                            *)
(***************************************************************************)
EXTENDS Naturals, Sequences

CONSTANT Chunk      \* what a chunk can be

VARIABLES
    accepted,       \* every chunk the driver has accepted, oldest first
    wire,           \* every chunk the decoder has received, oldest first
    taken           \* how many of the accepted chunks were sent or lost

vars == <<accepted, wire, taken>>

TypeOK ==
    /\ accepted \in Seq(Chunk)
    /\ wire \in Seq(Chunk)
    /\ taken \in 0 .. Len(accepted)

Init ==
    /\ accepted = <<>>
    /\ wire = <<>>
    /\ taken = 0

Accept(c) ==
    /\ accepted' = Append(accepted, c)
    /\ UNCHANGED <<wire, taken>>

Transmit ==
    /\ taken < Len(accepted)
    /\ wire' = Append(wire, accepted[taken + 1])
    /\ taken' = taken + 1
    /\ UNCHANGED accepted

Lose ==
    /\ taken < Len(accepted)
    /\ taken' = taken + 1
    /\ UNCHANGED <<accepted, wire>>

Next == (\E c \in Chunk : Accept(c)) \/ Transmit \/ Lose

Spec == Init /\ [][Next]_vars
=============================================================================
