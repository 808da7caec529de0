------------------------------- MODULE RideVault -------------------------------
(***************************************************************************)
(* What the rider is promised, without tasks, requests or drafts: a ride   *)
(* that was closed is owed to the server until the server keeps it, the    *)
(* phone calls it settled only while the server keeps it, and the server   *)
(* never lets go of a ride nobody asked it to delete.                      *)
(***************************************************************************)
CONSTANT Ride

VARIABLES
  claim,   \* claim[x]: what the phone says of ride x
  vault    \* rides the server keeps, completed

Claims == {"none", "open", "owed", "settled"}

Init ==
  /\ claim = [x \in Ride |-> "none"]
  /\ vault = {}

Open(x) ==
  /\ claim[x] = "none"
  /\ claim' = [claim EXCEPT ![x] = "open"]
  /\ UNCHANGED vault

Close(x) ==
  /\ claim[x] = "open"
  /\ claim' = [claim EXCEPT ![x] = "owed"]
  /\ UNCHANGED vault

(* The server takes a closed ride in, whether or not the phone hears of it. *)
Save(x) ==
  /\ claim[x] \in {"owed", "settled"}
  /\ vault' = vault \cup {x}
  /\ UNCHANGED claim

Settle(x) ==
  /\ claim[x] = "owed"
  /\ x \in vault
  /\ claim' = [claim EXCEPT ![x] = "settled"]
  /\ UNCHANGED vault

(* A repeated attempt makes the phone unsure again of a ride that is safe.  *)
Doubt(x) ==
  /\ claim[x] = "settled"
  /\ claim' = [claim EXCEPT ![x] = "owed"]
  /\ UNCHANGED vault

Next == \E x \in Ride : Open(x) \/ Close(x) \/ Save(x) \/ Settle(x) \/ Doubt(x)

vars == <<claim, vault>>
Spec == Init /\ [][Next]_vars
=============================================================================
