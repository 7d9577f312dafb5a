--------------------------- MODULE TransferOrders ---------------------------
(***************************************************************************)
(* The part of the database that money leaving an invoice is about: the    *)
(* orders (payouts and refunds), the outgoing transactions built for them  *)
(* and the swaps.  Payouts and refunds live in two tables with the same    *)
(* columns, the same trigger and the same methods; they are told apart by  *)
(* Kind.                                                                   *)
(***************************************************************************)
EXTENDS StatusTransitions, Integers, FiniteSetsExt

CONSTANTS
  Orders,        \* payouts and refunds
  Kind,          \* "payout" or "refund"
  Route,         \* what the destination asks for: a "transfer" of the same
                 \* asset, a "swap" on the same chain, or "unsupported"
  Age,           \* the order of created_at
  Small,         \* orders whose amount the fee of a transfer may use up
  Account,       \* the payment address an order is paid from
  Accounts,
  TxIds,         \* ids of outgoing transactions
  SwapIds,       \* ids of swaps
  Incoming,      \* the swaps customers make on the front end
  NoOrder        \* the origin of those

ASSUME OrdersAssumption ==
  /\ Kind \in [Orders -> {"payout", "refund"}]
  /\ Route \in [Orders -> {"transfer", "swap", "unsupported"}]
  /\ Age \in [Orders -> Nat]
  /\ \A o, p \in Orders : Age[o] = Age[p] => o = p
  /\ Small \subseteq Orders
  /\ Account \in [Orders -> Accounts]
  /\ NoOrder \notin Orders
  /\ Incoming \subseteq SwapIds
  /\ IsFiniteSet(Orders) /\ IsFiniteSet(TxIds)

VARIABLES
  order,         \* per order: status, whether next_retry_at has come, and
                 \* whether the destination is known
  txs,           \* per outgoing transaction: its order, status and tx_hash
  swaps          \* per swap: its order and status

ordersVars == <<order, txs, swaps>>

(* A row that has not been inserted has status Absent.                     *)
Absent == "Absent"

(* The hash of a user operation, and of the transaction that bundles it.   *)
OpHash(id) == <<id, "op">>
BundleHash(id) == <<id, "bundle">>

OrdersTypeOK ==
  /\ order \in [Orders -> [status : TransferStatus \cup {Absent},
                           due : BOOLEAN, dest : BOOLEAN]]
  /\ txs \in [TxIds -> [order : Orders \cup {NoOrder},
                        status : TransactionStatus \cup {Absent},
                        hash : TxIds \X {"op", "bundle"}]]
  /\ swaps \in [SwapIds -> [order : Orders \cup {NoOrder},
                            status : SwapStatus \cup {Absent}]]

OrdersInit ==
  /\ order = [o \in Orders |->
                [status |-> Absent, due |-> FALSE, dest |-> Kind[o] = "payout"]]
  /\ txs = [id \in TxIds |->
              [order |-> NoOrder, status |-> Absent, hash |-> OpHash(id)]]
  /\ swaps = [s \in SwapIds |-> [order |-> NoOrder, status |-> Absent]]

-----------------------------------------------------------------------------

(* get_pending_payouts and get_pending_refunds: the n oldest orders that   *)
(* wait or may be tried again.  They are InProgress from then on.          *)
Pending(kind) ==
  {o \in Orders : /\ Kind[o] = kind
                  /\ \/ order[o].status = "Waiting"
                     \/ order[o].status = "FailedRetriable" /\ order[o].due}

Oldest(S, n) == {o \in S : Cardinality({p \in S : Age[p] < Age[o]}) < n}

MarkInProgress(S) ==
  order' = [o \in Orders |->
              IF o \in S THEN [order[o] EXCEPT !.status = "InProgress"]
                         ELSE order[o]]

(* create_payout and create_refund                                         *)
create_order(o) ==
  /\ order[o].status = Absent
  /\ order' = [order EXCEPT ![o].status = "Waiting"]

(* update_payout_status and update_refund_status                           *)
update_status(o, s) ==
  /\ TransferTransition(order[o].status, s)
  /\ order' = [order EXCEPT ![o].status = s]

(* update_payout_retry and update_refund_retry, after increment_retry: the *)
(* next attempt is some minutes ahead.                                     *)
RetryStatus(retriable) == IF retriable THEN "FailedRetriable" ELSE "Failed"

update_retry(o, retriable) ==
  /\ TransferTransition(order[o].status, RetryStatus(retriable))
  /\ order' = [order EXCEPT ![o].status = RetryStatus(retriable),
                            ![o].due = FALSE]

(* Mutant: an attempt that failed leaves its transaction as it is.         *)
update_transaction_untouched(id) == UNCHANGED txs

(* create_transaction, of an OutgoingTransaction.                          *)
create_transaction(id, o) ==
  /\ txs[id].status = Absent
  /\ txs' = [txs EXCEPT ![id] = [order |-> o, status |-> "InProgress",
                                 hash |-> OpHash(id)]]

(* The unique index on (chain, tx_hash).                                   *)
HashTaken(id, h) == \E other \in TxIds \ {id} :
  txs[other].status # Absent /\ txs[other].hash = h

update_transaction_successful(id, h) ==
  /\ ~HashTaken(id, h)
  /\ TransactionTransition(txs[id].status, "Completed")
  /\ txs' = [txs EXCEPT ![id].status = "Completed", ![id].hash = h]

update_transaction_failed(id) ==
  /\ TransactionTransition(txs[id].status, "Failed")
  /\ txs' = [txs EXCEPT ![id].status = "Failed"]

create_swap(s, o) ==
  /\ swaps[s].status = Absent
  /\ swaps' = [swaps EXCEPT ![s] = [order |-> o, status |-> "Created"]]

(* update_swap_submitted_with_hash, update_swap_completed and              *)
(* update_swap_failed.                                                     *)
update_swap(s, status) ==
  /\ SwapTransition(swaps[s].status, status)
  /\ swaps' = [swaps EXCEPT ![s].status = status]
=============================================================================
