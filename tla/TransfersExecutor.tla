-------------------------- MODULE TransfersExecutor --------------------------
(***************************************************************************)
(* The task that carries out payouts and refunds.  It claims orders from   *)
(* the database, builds and stores a transaction for each of them, and     *)
(* keeps one future per transaction that submits it and waits for its      *)
(* receipt; an order that asks for another asset goes to a swap provider   *)
(* instead.  All of this is in memory: an order that is InProgress when    *)
(* the daemon stops is not claimed again.                                  *)
(***************************************************************************)
EXTENDS PolygonBundler

CONSTANT
  Limit          \* MAX_CONCURRENT_TRANSFERS

ASSUME LimitAssumption == Limit \in Nat

VARIABLES
  pc,            \* where the task is
  room,          \* how many refunds it may still claim in this round
  todo,          \* orders it has claimed and not sent yet
  draft,         \* what it is sending: the order, and the nonce or the swap
  futures,       \* per transaction, how far its future is, or "none"
  provider       \* per swap, what the swap provider has made of it

taskVars == <<pc, room, todo, draft>>

FuturePhase == {"new", "submit", "watch", "ok", "failed", "unknown"}
ProviderState == {"none", "pending", "executed", "failed"}
NoDraft == [order |-> NoOrder, nonce |-> 0, swap |-> NoOrder]

ExecutorTypeOK ==
  /\ pc \in {"idle", "refunds", "send", "store", "swap", "submitted"}
  /\ room \in Int
  /\ todo \in SUBSET Orders
  /\ draft \in [order : Orders \cup {NoOrder}, nonce : Nat,
                swap : SwapIds \cup {NoOrder}]
  /\ futures \in [TxIds -> FuturePhase \cup {"none"}]
  /\ provider \in [SwapIds -> ProviderState]

ExecutorInit ==
  /\ pc = "idle"
  /\ room = 0
  /\ todo = {}
  /\ draft = NoDraft
  /\ futures = [id \in TxIds |-> "none"]
  /\ provider = [s \in SwapIds |-> "none"]

InFlight == {id \in TxIds : futures[id] # "none"}

(* What the biased select! polls before it schedules another round: the    *)
(* futures that have not begun, and the results.                           *)
PolledFirst == {id \in TxIds : futures[id] \in {"new", "ok", "failed", "unknown"}}

-----------------------------------------------------------------------------
(* schedule_transfers: first the payouts, then as many refunds as there is *)
(* room for.                                                               *)
SchedulePayouts ==
  LET free == Limit - Cardinality(InFlight)
      claimed == Oldest(Pending("payout"), free)
  IN
  /\ pc = "idle"
  /\ PolledFirst = {}
  /\ free > 0
  /\ Pending("payout") \cup Pending("refund") # {}
  /\ MarkInProgress(claimed)
  /\ todo' = claimed
  /\ room' = free - Cardinality(claimed)
  /\ pc' = "refunds"
  /\ UNCHANGED <<txs, swaps, bundlerVars, draft, futures, provider>>

(* Mutant: the refunds have room of their own.                             *)
ScheduleRefundsFreely ==
  LET claimed == Oldest(Pending("refund"), Limit) IN
  /\ pc = "refunds"
  /\ MarkInProgress(claimed)
  /\ todo' = todo \cup claimed
  /\ pc' = "send"
  /\ UNCHANGED <<txs, swaps, bundlerVars, room, draft, futures, provider>>

ScheduleRefunds ==
  LET claimed == Oldest(Pending("refund"), room) IN
  /\ pc = "refunds"
  /\ MarkInProgress(claimed)
  /\ todo' = todo \cup claimed
  /\ pc' = "send"
  /\ UNCHANGED <<txs, swaps, bundlerVars, room, draft, futures, provider>>

(* get_pending_refunds fails: the payouts are sent all the same.           *)
ScheduleRefundsFails ==
  /\ pc = "refunds"
  /\ Mishap("database")
  /\ pc' = "send"
  /\ UNCHANGED <<ordersVars, ops, nonce, room, todo, draft, futures, provider>>

ScheduleDone ==
  /\ pc = "send"
  /\ todo = {}
  /\ pc' = "idle"
  /\ UNCHANGED <<ordersVars, bundlerVars, room, todo, draft, futures, provider>>

(* The order cannot be carried out and is marked as failed.  When the      *)
(* database refuses even that, it stays InProgress with nobody to work on  *)
(* it.                                                                     *)
GiveUp(o) ==
  \/ update_retry(o, FALSE) /\ UNCHANGED mishaps
  \/ Mishap("database") /\ UNCHANGED order

(* The order is marked for another attempt, or not even that.              *)
TryAgain(o) ==
  \/ update_retry(o, TRUE) /\ UNCHANGED mishaps
  \/ Mishap("database") /\ UNCHANGED order

(* Something fails on the way and the order is marked for another attempt, *)
(* with the same reservation.                                              *)
Postpone(o) ==
  \/ Mishap("outage") /\ update_retry(o, TRUE)
  \/ Mishap("database") /\ UNCHANGED order

-----------------------------------------------------------------------------
(* get_refunds_with_destination, before anything is sent: a refund that    *)
(* has no destination gets one, or there is none for it, or the database   *)
(* does not tell.                                                          *)
FindDestination(o) ==
  /\ pc = "send"
  /\ o \in todo
  /\ ~order[o].dest
  /\ \/ /\ order' = [order EXCEPT ![o].dest = TRUE]
        /\ UNCHANGED <<mishaps, todo>>
     \/ GiveUp(o) /\ todo' = todo \ {o}
  /\ UNCHANGED <<txs, swaps, ops, nonce, pc, room, draft, futures, provider>>

FindDestinationFails(o) ==
  /\ pc = "send"
  /\ o \in todo
  /\ ~order[o].dest
  /\ Postpone(o)
  /\ todo' = todo \ {o}
  /\ UNCHANGED <<txs, swaps, ops, nonce, pc, room, draft, futures, provider>>

(* send_transfer begins with the order o.                                  *)
Sends(o, route) ==
  /\ pc = "send"
  /\ o \in todo
  /\ \A other \in todo : order[other].dest
  /\ Route[o] = route
  /\ todo' = todo \ {o}

SendUnsupported(o) ==
  /\ Sends(o, "unsupported")
  /\ GiveUp(o)
  /\ UNCHANGED <<txs, swaps, ops, nonce, pc, room, draft, futures, provider>>

(* sign_transaction: the fee quoted for this attempt and the margin leave  *)
(* nothing of the amount.  InsufficientBalance counts as a failure to      *)
(* build, so the order is tried again, and again, whatever its amount is.  *)
FeeTakesAll(o) ==
  /\ o \in Small
  /\ Sends(o, "transfer")
  /\ TryAgain(o)
  /\ UNCHANGED <<txs, swaps, ops, nonce, pc, room, draft, futures, provider>>

(* Nothing could be built, or there was no quote: nothing is stored.       *)
PrepareFails(o) ==
  /\ Sends(o, "transfer") \/ Sends(o, "swap")
  /\ Postpone(o)
  /\ UNCHANGED <<txs, swaps, ops, nonce, pc, room, draft, futures, provider>>

(* build_transfer reads the nonce from the entry point contract.           *)
getNonce(o) == nonce[Account[o]]

(* build_and_sign_transfer                                                 *)
BuildTransfer(o) ==
  /\ Sends(o, "transfer")
  /\ draft' = [order |-> o, nonce |-> getNonce(o), swap |-> NoOrder]
  /\ pc' = "store"
  /\ UNCHANGED <<ordersVars, bundlerVars, room, futures, provider>>

(* store_built_transfer, and the future is created.                        *)
StoreBuiltTransfer ==
  /\ pc = "store"
  /\ \E id \in TxIds :
       /\ create_transaction(id, draft.order)
       /\ ops' = [ops EXCEPT ![id].nonce = draft.nonce]
       /\ futures' = [futures EXCEPT ![id] = "new"]
  /\ pc' = "send"
  /\ draft' = NoDraft
  /\ UNCHANGED <<order, swaps, nonce, mishaps, room, todo, provider>>

(* The transaction cannot be stored, because of an error of the database   *)
(* or because an earlier attempt had the very same hash.                   *)
StoreBuiltTransferFails ==
  /\ pc = "store"
  /\ Postpone(draft.order)
  /\ pc' = "send"
  /\ draft' = NoDraft
  /\ UNCHANGED <<txs, swaps, ops, nonce, room, todo, futures, provider>>

-----------------------------------------------------------------------------
(* schedule_swap: create_swap has a quote and the row.                     *)
CreateSwap(o) ==
  /\ Sends(o, "swap")
  /\ \E s \in SwapIds \ Incoming :
       /\ create_swap(s, o)
       /\ draft' = [order |-> o, nonce |-> 0, swap |-> s]
  /\ pc' = "swap"
  /\ UNCHANGED <<order, txs, bundlerVars, room, futures, provider>>

(* submit_with_signature: the provider accepts the swap ...                *)
SubmitSwap ==
  /\ pc = "swap"
  /\ provider' = [provider EXCEPT ![draft.swap] = "pending"]
  /\ pc' = "submitted"
  /\ UNCHANGED <<ordersVars, bundlerVars, room, todo, draft, futures>>

(* ... and its row says so.  The order stays InProgress until the swaps    *)
(* tracker has seen the end of the swap.                                   *)
SwapSubmitted ==
  /\ pc = "submitted"
  /\ update_swap(draft.swap, "Submitted")
  /\ pc' = "send"
  /\ draft' = NoDraft
  /\ UNCHANGED <<order, txs, bundlerVars, room, todo, futures, provider>>

(* The swap cannot be signed or submitted, or the answer of the provider   *)
(* is lost, or the row cannot be updated: the row stays as it is, and the  *)
(* order is tried again with another swap.                                 *)
SwapFails ==
  /\ pc \in {"swap", "submitted"}
  /\ Postpone(draft.order)
  /\ pc' = "send"
  /\ draft' = NoDraft
  /\ UNCHANGED <<txs, swaps, ops, nonce, room, todo, futures, provider>>

-----------------------------------------------------------------------------
(* send_transfer_request: a future begins once the task waits for results, *)
(* because only then it is polled.  Its requests are answered meanwhile.   *)
Begin(id) ==
  /\ pc = "idle"
  /\ futures[id] = "new"
  /\ futures' = [futures EXCEPT ![id] = "submit"]
  /\ UNCHANGED <<ordersVars, bundlerVars, taskVars, provider>>

(* It submits its transaction.                                             *)
Submit(id) ==
  /\ futures[id] = "submit"
  /\ TakeOperation(id)
  /\ futures' = [futures EXCEPT ![id] = "watch"]
  /\ UNCHANGED <<ordersVars, nonce, mishaps, taskVars, provider>>

(* The bundler does not take it: its nonce is used, or another operation   *)
(* has it, or the bundler cannot be reached.                               *)
SubmitRejected(id) ==
  /\ futures[id] = "submit"
  /\ \/ (Stale(id) \/ Rivals(id) # {}) /\ UNCHANGED mishaps
     \/ Mishap("outage")
  /\ ops' = [ops EXCEPT ![id].state = "rejected"]
  /\ futures' = [futures EXCEPT ![id] = "failed"]
  /\ UNCHANGED <<ordersVars, nonce, taskVars, provider>>

(* The bundler takes it and its answer is lost.                            *)
SubmitAnswerLost(id) ==
  /\ futures[id] = "submit"
  /\ Mishap("timeout")
  /\ TakeOperation(id)
  /\ futures' = [futures EXCEPT ![id] = "failed"]
  /\ UNCHANGED <<ordersVars, nonce, taskVars, provider>>

Receipt(id) ==
  /\ futures[id] = "watch"
  /\ \/ /\ ops[id].state = "executed"
        /\ futures' = [futures EXCEPT ![id] = "ok"]
     \/ /\ ops[id].state = "reverted"
        /\ futures' = [futures EXCEPT ![id] = "failed"]
  /\ UNCHANGED <<ordersVars, bundlerVars, taskVars, provider>>

(* No receipt after 30 attempts: the operation is gone, or it is late.     *)
WatchTimesOut(id) ==
  /\ futures[id] = "watch"
  /\ \/ ops[id].state = "dropped" /\ UNCHANGED mishaps
     \/ ops[id].state # "dropped" /\ Mishap("timeout")
  /\ futures' = [futures EXCEPT ![id] = "unknown"]
  /\ UNCHANGED <<ordersVars, ops, nonce, taskVars, provider>>

-----------------------------------------------------------------------------
(* Mutant: an unknown outcome counts as a success.                         *)
SucceededOrUnknown(id) ==
  /\ futures[id] \in {"ok", "unknown"}
  /\ update_transaction_successful(id, BundleHash(ops[id].bundle))
  /\ update_status(txs[id].order, "Completed")

(* handle_transfer_result: both rows are updated in one transaction.       *)
Succeeded(id) ==
  /\ futures[id] = "ok"
  /\ update_transaction_successful(id, BundleHash(ops[id].bundle))
  /\ update_status(txs[id].order, "Completed")

(* Mutant: the order is left alone.                                        *)
ErredSilently(id) ==
  /\ futures[id] \in {"failed", "unknown"}
  /\ update_transaction_failed(id)
  /\ UNCHANGED order

Erred(id) ==
  /\ futures[id] \in {"failed", "unknown"}
  /\ update_transaction_failed(id)
  /\ update_retry(txs[id].order, TRUE)

HandleResult(id) ==
  /\ pc = "idle"
  /\ Succeeded(id) \/ Erred(id)
  /\ futures' = [futures EXCEPT ![id] = "none"]
  /\ UNCHANGED <<swaps, bundlerVars, taskVars, provider>>

(* The hash of the bundle is taken, or the database fails: the transaction *)
(* is rolled back, and the result is dropped.                              *)
HandleResultFails(id) ==
  /\ pc = "idle"
  /\ futures[id] \in {"ok", "failed", "unknown"}
  /\ \/ /\ futures[id] = "ok"
        /\ HashTaken(id, BundleHash(ops[id].bundle))
        /\ UNCHANGED mishaps
     \/ Mishap("database")
  /\ futures' = [futures EXCEPT ![id] = "none"]
  /\ UNCHANGED <<ordersVars, ops, nonce, taskVars, provider>>

TaskStep ==
  \/ SchedulePayouts
  \/ ScheduleRefunds
  \/ ScheduleRefundsFails
  \/ ScheduleDone
  \/ \E o \in Orders : \/ FindDestination(o)
                       \/ FindDestinationFails(o)
                       \/ SendUnsupported(o)
                       \/ FeeTakesAll(o)
                       \/ PrepareFails(o)
                       \/ BuildTransfer(o)
                       \/ CreateSwap(o)
  \/ StoreBuiltTransfer
  \/ StoreBuiltTransferFails
  \/ SubmitSwap
  \/ SwapSubmitted
  \/ SwapFails
  \/ \E id \in TxIds : HandleResult(id) \/ HandleResultFails(id)

FutureStep(id) ==
  \/ Begin(id)
  \/ Submit(id)
  \/ SubmitRejected(id)
  \/ SubmitAnswerLost(id)
  \/ Receipt(id)
  \/ WatchTimesOut(id)
=============================================================================
