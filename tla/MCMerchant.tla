----------------------------- MODULE MCMerchant -----------------------------
(***************************************************************************)
(* Instances of Merchant for TLC.                                          *)
(***************************************************************************)
EXTENDS Merchant

CONSTANTS p1, p2

TwoOrders == {p1, p2}
OneKey == {"secret"}
Second == {p2}
=============================================================================
