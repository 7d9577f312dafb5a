----------------------------- MODULE MCOutgoing -----------------------------
(***************************************************************************)
(* Instances of Outgoing for TLC.                                          *)
(***************************************************************************)
EXTENDS Outgoing, TLC

CONSTANTS o1, o2, o3, a1, a2, x1, x2, x3, s1, s2

None == {}

(* A payout and a refund of one invoice, and a payout of another one.      *)
TwoOrders == {o1, o2}
ThreeOrders == {o1, o2, o3}
Kinds == [o \in Orders |-> IF o = o2 THEN "refund" ELSE "payout"]
Ages == [o \in Orders |-> CASE o = o1 -> 1 [] o = o2 -> 2 [] OTHER -> 3]
SmallPayout == {o1}
SmallRefund == {o2}
OneAccount == {a1}
TwoAccounts == {a1, a2}
SameAccount == [o \in Orders |-> a1]
OwnAccount == [o \in Orders |-> IF o = o2 THEN a2 ELSE a1]

Transfer == [o \in Orders |-> "transfer"]
Mixed ==
  [o \in Orders |-> CASE o = o1 -> "transfer" [] o = o2 -> "swap"
                     [] OTHER -> "unsupported"]

OneTx == {x1}
ThreeTxs == {x1, x2, x3}
TwoSwaps == {s1, s2}
Second == {s2}

MishapsOf(outages, timeouts, databases, crashes) ==
  [k \in MishapKinds |->
     CASE k = "outage" -> outages [] k = "timeout" -> timeouts
       [] k = "database" -> databases [] k = "crash" -> crashes]

NoDatabaseError == MishapsOf(1, 1, 0, 1)
NoNetworkFault == MishapsOf(0, 0, 1, 1)
=============================================================================
