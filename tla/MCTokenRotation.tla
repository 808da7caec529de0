---------------------------- MODULE MCTokenRotation ----------------------------
(***************************************************************************)
(* A small instance of TokenRotation for TLC.                              *)
(***************************************************************************)
EXTENDS TokenRotation

MCBuckets == {"login_ip", "register_ip", "refresh_ip"}
MCLimit == [b \in Bucket |-> IF b = "refresh_ip" THEN 2 ELSE 1]
MCWindow == [b \in Bucket |-> IF b = "register_ip" THEN 3 ELSE 1]
===============================================================================
