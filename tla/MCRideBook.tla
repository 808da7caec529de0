------------------------------ MODULE MCRideBook ------------------------------
(***************************************************************************)
(* Small instances of RideBook for TLC.                                    *)
(***************************************************************************)
EXTENDS RideBook, TLC

CONSTANTS x1, x2

MCBatches == [x \in Ride |-> 1]
MCSymmetry == Permutations(Remote)
=============================================================================
