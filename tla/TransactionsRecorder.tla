------------------------ MODULE TransactionsRecorder ------------------------
(***************************************************************************)
(* Recording an incoming transfer.  Three tasks share the recorder: the    *)
(* transfers tracker, and the two users of the balance checker, which are  *)
(* the expiration detector and the swaps tracker.  Each of them owns a     *)
(* snapshot of the invoice that it took earlier; the recorder decides the  *)
(* new status from that snapshot, writes it in one database transaction,   *)
(* and brings the registry up to date afterwards.                          *)
(***************************************************************************)
EXTENDS InvoiceRegistry

CONSTANTS
  UnderTolerance,   \* underpayment tolerance of the asset
  OverTolerance     \* overpayment tolerance of the asset

ASSUME ToleranceAssumption == UnderTolerance \in Nat /\ OverTolerance \in Nat

VARIABLES
  proc,             \* per task, what it is doing
  serial            \* history: per invoice, every settlement so far was made
                    \* on an active row, from a snapshot equal to that row

recorderVars == <<row, recorded, received, payouts, refunds, events,
                  registry, proc, serial>>

Checkers == {"expirer", "swaps"}
Procs == Checkers \cup {"tracker"}

Idle == [pc |-> "idle"]

(* A busy task handles the transfers list[next], list[next + 1], ... of    *)
(* the invoice id, of which it has the snapshot copy.                      *)
BusyPc == {"balance", "indexer", "store", "registry", "checked", "unregister"}
Busy == [pc : BusyPc, id : Invoices, copy : InvoiceWithReceivedAmount,
         list : Seq(Transfers), next : Nat \ {0}]

ProcTypeOK ==
  /\ proc \in [Procs -> Busy \cup {Idle}]
  /\ serial \in [Invoices -> BOOLEAN]

Tx(p) == proc[p].list[proc[p].next]

(* What the task does once a transfer has been dealt with.                 *)
AfterTransaction(p) ==
  IF proc[p].next < Len(proc[p].list)
    THEN [proc[p] EXCEPT !.pc = "store", !.next = @ + 1]
    ELSE IF p = "tracker" THEN Idle ELSE [proc[p] EXCEPT !.pc = "checked"]

UpToDate(i, copy) ==
  Active(i) /\ copy = get_invoice_with_received_amount_by_id(i)

-----------------------------------------------------------------------------
UpdatedReceivedAmount(p) == proc[p].copy.total + AmountOf[Tx(p)]

(* Mutant: <= for <.                                                       *)
StatusForStrict(total, amount) ==
  IF total <= amount - UnderTolerance THEN "PartiallyPaid"
  ELSE IF total > amount + OverTolerance THEN "OverPaid"
  ELSE "Paid"

StatusFor(total, amount) ==
  IF total < amount - UnderTolerance THEN "PartiallyPaid"
  ELSE IF total > amount + OverTolerance THEN "OverPaid"
  ELSE "Paid"

UpdatedStatus(p) == StatusFor(UpdatedReceivedAmount(p), proc[p].copy.amount)

(* Mutant: an invoice is settled and nobody is told.                       *)
SettleSilently(i, status, total) ==
  /\ payouts' = IF status = "PartiallyPaid" THEN payouts
                ELSE [payouts EXCEPT ![i] = Append(@, total)]
  /\ UNCHANGED refunds
  /\ events' = IF status = "OverPaid" THEN events
               ELSE [events EXCEPT ![i] = Append(@, status)]

(* The statements of store_transaction that depend on the new status; the  *)
(* amount of an overpaid invoice is read back from the updated row.        *)
Settle(i, status, total) ==
  \/ /\ status = "Paid"
     /\ create_payout(i, total)
     /\ create_webhook_event(i, "Paid")
     /\ UNCHANGED refunds
  \/ /\ status = "PartiallyPaid"
     /\ create_webhook_event(i, "PartiallyPaid")
     /\ UNCHANGED <<payouts, refunds>>
  \/ /\ status = "OverPaid"
     /\ create_payout(i, row[i].amount)
     /\ create_refund(i, total - row[i].amount)
     /\ create_webhook_event(i, "Paid")

(* The conversion of the chain of a payout into a SwapChainType is not     *)
(* implemented for Asset Hub: the task panics inside the transaction.      *)
PayoutPanics(p) ==
  /\ row[proc[p].id].chain = "PolkadotAssetHub"
  /\ UpdatedStatus(p) \in InvoiceFinal

StoreCommits(p) ==
  LET i == proc[p].id IN
  /\ proc[p].pc = "store"
  /\ ~PayoutPanics(p)
  /\ create_transaction(Tx(p))
  /\ update_invoice_status(i, UpdatedStatus(p))
  /\ Settle(i, UpdatedStatus(p), UpdatedReceivedAmount(p))
  /\ proc' = [proc EXCEPT ![p].pc = "registry",
                          ![p].copy.status = UpdatedStatus(p),
                          ![p].copy.total = UpdatedReceivedAmount(p)]
  /\ serial' = [serial EXCEPT ![i] = @ /\ UpToDate(i, proc[p].copy)]
  /\ UNCHANGED <<registry, budget>>

(* The transfer is already in the database, or the trigger refuses the new *)
(* status: the transaction is rolled back and the snapshot stays as it is. *)
StoreRefused(p) ==
  /\ proc[p].pc = "store"
  /\ \/ DuplicateTransaction(Tx(p))
     \/ ~InvoiceTransition(row[proc[p].id].status, UpdatedStatus(p))
  /\ proc' = [proc EXCEPT ![p] = AfterTransaction(p)]
  /\ UNCHANGED <<dbVars, registry, serial, budget>>

(* Any other database error has the same effect.                           *)
StoreFails(p) ==
  /\ proc[p].pc = "store"
  /\ Spend("failure")
  /\ proc' = [proc EXCEPT ![p] = AfterTransaction(p)]
  /\ UNCHANGED <<dbVars, registry, serial>>

(* The end of process_invoice_transaction.                                 *)
UpdateRegistry(p) ==
  LET i == proc[p].id
      copy == proc[p].copy
  IN
  /\ proc[p].pc = "registry"
  /\ IF copy.status \in InvoiceFinal
       THEN remove_invoice(i)
       ELSE update_filled_amount(i, copy.total, copy.status)
  /\ proc' = [proc EXCEPT ![p] = AfterTransaction(p)]
  /\ UNCHANGED <<dbVars, serial, budget>>

RecorderStep(p) ==
  \/ StoreCommits(p)
  \/ StoreRefused(p)
  \/ StoreFails(p)
  \/ UpdateRegistry(p)
=============================================================================
