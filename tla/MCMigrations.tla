----------------------------- MODULE MCMigrations -----------------------------
(***************************************************************************)
(* A small instance of Migrations for TLC.                                 *)
(***************************************************************************)
EXTENDS Migrations, TLC

MCSymmetry == Permutations(ResortId) \cup Permutations(Name) \cup Permutations(ExternalId)
===============================================================================
