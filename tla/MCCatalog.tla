------------------------------- MODULE MCCatalog -------------------------------
(***************************************************************************)
(* A small instance of Catalog for TLC: an area (a) that matches a legacy  *)
(* resort until it is renamed, another (b) that matches it too or nothing  *)
(* at all, and a lift of both.                                             *)
(***************************************************************************)
EXTENDS Catalog

MCAreas == <<"a", "b">>
MCResort == {"legacy", "r1", "r2", "r3", "r4"}
MCPayload == {"a1", "a2", "b1", "b2", "old"}
MCLegacyFace == [r \in {"legacy"} |-> "old"]
MCSays == [x \in {"a", "b"} |-> IF x = "a" THEN {"a1", "a2"} ELSE {"b1", "b2"}]
MCAlike == [p \in MCPayload, q \in MCPayload |->
  IF p = q THEN 20
  ELSE IF {p, q} = {"a1", "old"} THEN 19
  ELSE IF {p, q} = {"b1", "old"} THEN 18
  ELSE IF {p, q} \in {{"a2", "old"}, {"a1", "a2"}, {"a1", "b1"}} THEN 12
  ELSE 2]
MCLikeness == [p \in MCPayload |-> [q \in MCPayload |-> MCAlike[p, q]]]
MCNear == {<<p, p>> : p \in MCPayload} \cup {<<"a1", "old">>, <<"b1", "old">>}
MCPlausible == MCPayload \ {"a2"}
MCAreasOf == [l \in Lift |-> IF l = "shared" THEN {"a", "b"} ELSE {"b"}]
Opt(f, r, d, m) == [filtered |-> f, rematch |-> r, dry |-> d, force |-> m]
MCOptions == {Opt(FALSE, FALSE, FALSE, FALSE), Opt(FALSE, TRUE, FALSE, FALSE),
              Opt(FALSE, FALSE, TRUE, FALSE),
              Opt(TRUE, FALSE, FALSE, TRUE)}
===============================================================================
