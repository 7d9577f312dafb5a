--------------------------- MODULE PolygonBundler ---------------------------
(***************************************************************************)
(* What the executor of outgoing transfers meets outside the daemon: the   *)
(* bundler that takes user operations, the chain that executes them, and   *)
(* the number of things that may go wrong.  An account's operations are    *)
(* numbered by a nonce, and of the operations with the same nonce at most  *)
(* one is ever executed.  Everything here is external: it is modelled from *)
(* how build_transfer and submit_and_watch_transaction use it.             *)
(***************************************************************************)
EXTENDS TransferOrders

CONSTANTS
  BundleSize,    \* how many operations the bundler puts in a transaction
  Mishaps        \* how often each kind of mishap may happen

MishapKinds == {"outage", "timeout", "database", "crash"}

ASSUME BundlerAssumption ==
  /\ BundleSize \in Nat
  /\ Mishaps \in [MishapKinds -> Nat]

VARIABLES
  ops,           \* per transaction id, its user operation: nonce, state, and
                 \* the id whose BundleHash the transaction got
  nonce,         \* per account, the nonce of the next operation
  mishaps        \* what is left of Mishaps

bundlerVars == <<ops, nonce, mishaps>>

OpState == {"none", "pending", "rejected", "dropped", "executed", "reverted"}

BundlerTypeOK ==
  /\ ops \in [TxIds -> [nonce : Nat, state : OpState, bundle : TxIds]]
  /\ nonce \in [Accounts -> Nat]
  /\ mishaps \in [MishapKinds -> Nat]

BundlerInit ==
  /\ ops = [id \in TxIds |-> [nonce |-> 0, state |-> "none", bundle |-> id]]
  /\ nonce = [a \in Accounts |-> 0]
  /\ mishaps = Mishaps

Mishap(k) ==
  /\ mishaps[k] > 0
  /\ mishaps' = [mishaps EXCEPT ![k] = @ - 1]

AccountOf(id) == Account[txs[id].order]

Stale(id) == ops[id].nonce < nonce[AccountOf(id)]

(* The pending operations an operation competes with.                      *)
Rivals(id) ==
  {r \in TxIds \ {id} : /\ ops[r].state = "pending"
                        /\ AccountOf(r) = AccountOf(id)
                        /\ ops[r].nonce = ops[id].nonce}

(* The bundler takes an operation, in place of a rival if it has one.      *)
TakeOperation(id) ==
  /\ ~Stale(id)
  /\ ops' = [r \in TxIds |->
               IF r = id THEN [ops[r] EXCEPT !.state = "pending"]
               ELSE IF r \in Rivals(id) THEN [ops[r] EXCEPT !.state = "dropped"]
               ELSE ops[r]]

(* A transaction executes the operations of some accounts.  Every rival    *)
(* they had is gone.                                                       *)
Bundle(S, state) ==
  /\ S # {}
  /\ \A id \in S : ops[id].state = "pending" /\ ~Stale(id)
  /\ \A id, r \in S : AccountOf(id) = AccountOf(r) => id = r
  /\ ops' = [r \in TxIds |->
               IF r \in S
                 THEN [ops[r] EXCEPT !.state = state,
                                     !.bundle = CHOOSE id \in S : TRUE]
               ELSE IF \E id \in S : r \in Rivals(id)
                 THEN [ops[r] EXCEPT !.state = "dropped"]
               ELSE ops[r]]
  /\ nonce' = [a \in Accounts |->
                 IF \E id \in S : AccountOf(id) = a THEN nonce[a] + 1
                                                    ELSE nonce[a]]

ExecuteBundle(S) ==
  /\ Cardinality(S) <= BundleSize
  /\ Bundle(S, "executed")
  /\ UNCHANGED mishaps

RevertOperation(id) ==
  /\ Mishap("outage")
  /\ Bundle({id}, "reverted")
=============================================================================
