--------------------------- MODULE BalanceChecker ---------------------------
(***************************************************************************)
(* Comparing what has been recorded for an invoice with the chain, and     *)
(* recording what the tracker missed.                                      *)
(***************************************************************************)
EXTENDS TransactionsRecorder

(* Mutant: the database is not asked.                                      *)
SnapshotWithoutFallback(i) == registry[i]

(* The snapshot check_invoice_balance starts from: the registry's, and the *)
(* database's when the invoice is not in the registry.                     *)
Snapshot(i) ==
  IF Tracked(i) THEN registry[i] ELSE get_invoice_with_received_amount_by_id(i)

(* The first step of check_invoice_balance(i).                             *)
StartCheck(p, i) ==
  /\ proc[p] = Idle
  /\ Exists(i)
  /\ proc' = [proc EXCEPT ![p] = [pc |-> "balance", id |-> i,
                                  copy |-> Snapshot(i), list |-> <<>>,
                                  next |-> 1]]
  /\ UNCHANGED <<dbVars, registry, serial, envVars>>

(* fetch_asset_balance: what the token contract says the payment address   *)
(* holds.  Nothing is sent from the address of an active invoice; of a     *)
(* closed one any part may already have been paid out or refunded.         *)
AccountBalances(i) ==
  LET total == TotalAmount(landed[i])
  IN  IF Active(i) THEN {total} ELSE 0 .. total

GetAccountBalance(p) ==
  /\ proc[p].pc = "balance"
  /\ \E balance \in AccountBalances(proc[p].id) :
       proc' = [proc EXCEPT ![p].pc =
                  IF proc[p].copy.total # balance THEN "indexer" ELSE "checked"]
  /\ UNCHANGED <<dbVars, registry, serial, envVars>>

(* get_incoming_transactions: Etherscan lists the transfers of the address *)
(* in the order of the chain and may be some blocks behind; for Asset Hub  *)
(* there is no indexer and the list is empty.                              *)
IndexedTransfers(i) ==
  IF row[i].chain = "Polygon"
    THEN {SubSeq(landed[i], 1, n) : n \in 0 .. Len(landed[i])}
    ELSE {<<>>}

GetIncomingTransactions(p) ==
  /\ proc[p].pc = "indexer"
  /\ \E list \in IndexedTransfers(proc[p].id) :
       proc' = [proc EXCEPT ![p].list = list,
                            ![p].pc = IF \/ list = <<>>
                                         \/ TotalAmount(list) = proc[p].copy.total
                                        THEN "checked" ELSE "store"]
  /\ UNCHANGED <<dbVars, registry, serial, envVars>>

(* The node or the indexer does not answer: the check ends in an error and *)
(* its caller leaves the invoice alone.                                    *)
CheckFails(p) ==
  /\ proc[p].pc \in {"balance", "indexer"}
  /\ Spend("failure")
  /\ proc' = [proc EXCEPT ![p] = Idle]
  /\ UNCHANGED <<dbVars, registry, serial, landed>>

CheckStep(p) ==
  \/ GetAccountBalance(p)
  \/ GetIncomingTransactions(p)
  \/ CheckFails(p)

(* handle_swap_executed once the balance check is over; what it does to    *)
(* the swap is not part of this model.                                     *)
SwapCheckDone ==
  /\ proc["swaps"].pc = "checked"
  /\ proc' = [proc EXCEPT !["swaps"] = Idle]
  /\ UNCHANGED <<dbVars, registry, serial, envVars>>
=============================================================================
