------------------------------ MODULE MCRideSync ------------------------------
(***************************************************************************)
(* Small instances of RideSync for TLC.                                    *)
(***************************************************************************)
EXTENDS RideSync, TLC

CONSTANTS x1, x2

MCBatches == [x \in Ride |-> IF x = x1 THEN 2 ELSE 1]
MCSymmetry == Permutations(Remote)
=============================================================================
