----------------------------- MODULE MCSessions -----------------------------
(* Instances of Sessions for TLC.                                          *)
EXTENDS Sessions, TLC

CONSTANTS r1, r2

TwoRequests == {r1, r2}
OldKey == {"k1"}

Connections == Permutations(Requests)
=============================================================================
