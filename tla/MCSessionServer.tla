---------------------------- MODULE MCSessionServer ----------------------------
(***************************************************************************)
(* A small instance of SessionServer for TLC.                              *)
(***************************************************************************)
EXTENDS SessionServer, TLC

MCSymmetry == Permutations(Request)
===============================================================================
