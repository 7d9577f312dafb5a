---------------------------- MODULE PaymentsClaims ----------------------------
(***************************************************************************)
(* What the database schema of the repository says about the payment of    *)
(* invoices, and the code does not keep.                                   *)
(***************************************************************************)
EXTENDS Payments

(* The schema: "All final/expired/canceled statuses -> no further          *)
(* transitions allowed".  The recorder orders a payout only in the step    *)
(* that makes an invoice paid, so it orders at most one (payouts ordered   *)
(* by hand aside).                                                         *)
OnePayoutPerInvoice == \A i \in Invoices : Len(payouts[i]) <= 1
=============================================================================
