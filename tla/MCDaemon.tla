------------------------------ MODULE MCDaemon ------------------------------
(***************************************************************************)
(* Two requests, the executor and one more task on a pool of two           *)
(* connections: two cancellations can hold all of it.                      *)
(***************************************************************************)
EXTENDS Daemon
=============================================================================
