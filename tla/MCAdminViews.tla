---------------------------- MODULE MCAdminViews ----------------------------
(* Instances of AdminViews for TLC.                                        *)
EXTENDS AdminViews, TLC

CONSTANTS i1, i2, p1, x1

SmallShop == {i1, i2, x1}

Kinds == [e \in Entities |-> CASE e = p1 -> "payouts" [] e = x1 -> "transactions" [] OTHER -> "invoices"]
Owners == [e \in Entities |-> IF e \in {p1, x1} THEN i1 ELSE e]

(* i1 may be written past i2 and back; the others keep their amount.       *)
SomeAmounts == [e \in Entities |-> IF e = i1 THEN {1, 3} ELSE {2}]

(* i1 and what belongs to it are written twice, i2 once.                   *)
SomeVersions == [e \in Entities |-> IF e = i2 THEN 1 ELSE 2]
=============================================================================
