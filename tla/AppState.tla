------------------------------ MODULE AppState ------------------------------
(***************************************************************************)
(* The API operations on an invoice: create, update and cancel, and the    *)
(* payout an administrator orders by hand.                                 *)
(***************************************************************************)
EXTENDS TransactionsRecorder

VARIABLES
  creating,      \* per invoice, what create_invoice has committed and still has
                 \* to add to the registry, or Untracked
  canceling,     \* per invoice, how far a cancel_invoice_admin call is
  paying,        \* per invoice, how many initiate_payout calls have seen that
                 \* it is not active and still have to create their payout
  manual         \* per invoice, how many payouts were created that way

appVars == <<creating, canceling, paying, manual>>

AppTypeOK ==
  /\ creating \in [Invoices -> InvoiceWithReceivedAmount \cup {Untracked}]
  /\ canceling \in [Invoices -> {"no", "removed", "updated"}]
  /\ paying \in [Invoices -> Nat]
  /\ manual \in [Invoices -> Nat]

AppInit ==
  /\ creating = [i \in Invoices |-> Untracked]
  /\ canceling = [i \in Invoices |-> "no"]
  /\ paying = [i \in Invoices |-> 0]
  /\ manual = [i \in Invoices |-> 0]

(* create_invoice up to the commit: the row and its Created event.         *)
CreateInvoice(i, a) ==
  /\ \E chain \in InvoiceChains : create_invoice(i, a, chain)
  /\ create_webhook_event(i, "Created")
  /\ creating' = [creating EXCEPT ![i] =
                    [status |-> "Waiting", amount |-> a, total |-> 0]]
  /\ UNCHANGED <<recorded, received, payouts, refunds, registry, proc, serial,
                 envVars, canceling, paying, manual>>

RegisterInvoice(i) ==
  /\ creating[i] # Untracked
  /\ add_invoice(i, creating[i])
  /\ creating' = [creating EXCEPT ![i] = Untracked]
  /\ UNCHANGED <<dbVars, proc, serial, envVars, canceling, paying, manual>>

(* update_invoice: the row and its Updated event, and nothing else.        *)
UpdateInvoice(i, a) ==
  /\ Spend("update")
  /\ update_invoice_data(i, a)
  /\ create_webhook_event(i, "Updated")
  /\ UNCHANGED <<recorded, received, payouts, refunds, registry, proc, serial,
                 landed, appVars>>

-----------------------------------------------------------------------------
(* cancel_invoice_admin has begun a database transaction and takes the     *)
(* invoice out of the registry.                                            *)
CancelRemoves(i) ==
  /\ canceling[i] = "no"
  /\ Exists(i)
  /\ Spend("cancel")
  /\ remove_invoice(i)
  /\ canceling' = [canceling EXCEPT ![i] = "removed"]
  /\ UNCHANGED <<dbVars, proc, serial, landed, creating, paying, manual>>

(* The status update is a statement of its own, outside that transaction.  *)
CancelUpdates(i) ==
  /\ canceling[i] = "removed"
  /\ update_invoice_status(i, "AdminCanceled")
  /\ canceling' = [canceling EXCEPT ![i] = "updated"]
  /\ UNCHANGED <<recorded, received, payouts, refunds, events, registry, proc,
                 serial, envVars, creating, paying, manual>>

(* The event is added to the transaction, which commits.                   *)
CancelNotifies(i) ==
  /\ canceling[i] = "updated"
  /\ create_webhook_event(i, "AdminCanceled")
  /\ canceling' = [canceling EXCEPT ![i] = "no"]
  /\ UNCHANGED <<row, recorded, received, payouts, refunds, registry, proc,
                 serial, envVars, creating, paying, manual>>

CancelRefused(i) ==
  /\ canceling[i] = "removed"
  /\ ~InvoiceTransition(row[i].status, "AdminCanceled")
  /\ canceling' = [canceling EXCEPT ![i] = "no"]
  /\ UNCHANGED <<recorderVars, envVars, creating, paying, manual>>

CancelFails(i) ==
  /\ canceling[i] # "no"
  /\ Spend("failure")
  /\ canceling' = [canceling EXCEPT ![i] = "no"]
  /\ UNCHANGED <<recorderVars, landed, creating, paying, manual>>

CancelStep(i) ==
  \/ CancelUpdates(i)
  \/ CancelNotifies(i)
  \/ CancelRefused(i)
  \/ CancelFails(i)

-----------------------------------------------------------------------------
(* initiate_payout reads the invoice and refuses one that is active.       *)
MayPayOut(i) == Exists(i) /\ ~Active(i)

(* What follows the check: the destination is put together, and on         *)
(* Polygon the payout is created by a statement of its own.                *)
InitiatePayout(i) ==
  /\ Spend("payout")
  /\ MayPayOut(i)
  /\ row[i].chain = "Polygon"
  /\ paying' = [paying EXCEPT ![i] = @ + 1]
  /\ UNCHANGED <<recorderVars, landed, creating, canceling, manual>>

(* On Asset Hub the conversion of the chain panics, as in the recorder.    *)
InitiatePayoutPanics(i) ==
  /\ Spend("payout")
  /\ MayPayOut(i)
  /\ row[i].chain = "PolkadotAssetHub"

(* A payout of a fixed amount, whatever was received or paid out before.   *)
CreateManualPayout(i) ==
  /\ paying[i] > 0
  /\ paying' = [paying EXCEPT ![i] = @ - 1]
  /\ manual' = [manual EXCEPT ![i] = @ + 1]
  /\ UNCHANGED <<recorderVars, envVars, creating, canceling>>

InitiatePayoutFails(i) ==
  /\ paying[i] > 0
  /\ Spend("failure")
  /\ paying' = [paying EXCEPT ![i] = @ - 1]
  /\ UNCHANGED <<recorderVars, landed, creating, canceling, manual>>

PayoutStep(i) ==
  \/ CreateManualPayout(i)
  \/ InitiatePayoutFails(i)
=============================================================================
