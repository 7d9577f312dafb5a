----------------------------- MODULE MCPayments -----------------------------
(***************************************************************************)
(* Instances of Payments for TLC.                                          *)
(***************************************************************************)
EXTENDS PaymentsClaims, TLC

CONSTANTS i1, t1, t2

OnlyPolygon == {"Polygon"}

None == {}
OneInvoice == {i1}
TwoTransfers == {t1, t2}

(* All transfers pay i1, each in a transaction of its own.                 *)
ToFirst == [t \in Transfers |-> i1]
OwnHash == [t \in Transfers |-> t]

(* With an underpayment tolerance of 1 and an amount of 3 or 4, a transfer *)
(* of 2 is a part of it or just enough, and 2 and 3 together are too much. *)
TwoThree == (t1 :> 2) @@ (t2 :> 3)
TwoTwo == (t1 :> 2) @@ (t2 :> 2)

(* The bounds on disturbances.                                             *)
BudgetOf(updates, cancels, payoutsByHand, failures, breaks, crashes) ==
  [k \in Disturbances |->
     CASE k = "update" -> updates [] k = "cancel" -> cancels
       [] k = "payout" -> payoutsByHand [] k = "failure" -> failures [] k = "break" -> breaks
       [] k = "crash" -> crashes]

Calm == BudgetOf(0, 0, 0, 0, 0, 0)
NoRequest == BudgetOf(0, 0, 0, 1, 1, 1)
NoBreak == BudgetOf(1, 1, 1, 1, 0, 1)
=============================================================================
