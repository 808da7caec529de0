-------------------------- MODULE MCRecordingControl --------------------------
(***************************************************************************)
(* Small instances of RecordingControl for TLC.                            *)
(***************************************************************************)
EXTENDS RecordingControl, TLC

MCSymmetry == Permutations(Ride) \cup Permutations(Stream) \cup Permutations(Checks) \cup Permutations(Restarts)
=============================================================================
