-------------------------------- MODULE Dao --------------------------------
(***************************************************************************)
(* The part of the database that the payment of an invoice is about.  A    *)
(* SQL statement is an operator that says what it does to one table; a     *)
(* database transaction is the conjunction of its statements in one step,  *)
(* since SQLite lets one writer in at a time and every transaction of the  *)
(* daemon starts with a write.                                             *)
(***************************************************************************)
EXTENDS StatusTransitions, Environment

CONSTANT
  Amounts        \* amounts an invoice may ask for

ASSUME AmountsAssumption == Amounts \subseteq Nat

VARIABLES
  row,           \* invoices: status, amount, chain, whether valid_till < now
  recorded,      \* transactions of type Incoming, as the transfers they record
  received,      \* per invoice, the sum of the amounts of those
  payouts,       \* per invoice, the amounts of the payouts that the recorder
                 \* ordered, oldest first (those of initiate_payout: manual)
  refunds,       \* per invoice, the amounts of its refunds, oldest first
  events         \* per invoice, the types of its webhook events, oldest first

dbVars == <<row, recorded, received, payouts, refunds, events>>

EventType ==
  {"Created", "Updated", "PartiallyPaid", "Paid", "Expired", "AdminCanceled"}

(* An InvoiceWithReceivedAmount, as the registry and local variables hold  *)
(* it: a snapshot of the row with the total received so far.               *)
InvoiceWithReceivedAmount ==
  [status : InvoiceStatus, amount : Nat, total : Nat]

DbTypeOK ==
  /\ row \in [Invoices -> [status : InvoiceStatus \cup {"Absent"},
                           amount : Nat, chain : ChainType, lapsed : BOOLEAN]]
  /\ recorded \in SUBSET Transfers
  /\ received \in [Invoices -> Nat]
  /\ payouts \in [Invoices -> Seq(Int)]
  /\ refunds \in [Invoices -> Seq(Int)]
  /\ events \in [Invoices -> Seq(EventType)]

DbInit ==
  /\ row = [i \in Invoices |->
              [status |-> "Absent", amount |-> 0, chain |-> "Polygon",
               lapsed |-> FALSE]]
  /\ recorded = {}
  /\ received = [i \in Invoices |-> 0]
  /\ payouts = [i \in Invoices |-> <<>>]
  /\ refunds = [i \in Invoices |-> <<>>]
  /\ events = [i \in Invoices |-> <<>>]

Exists(i) == row[i].status # "Absent"
Active(i) == row[i].status \in InvoiceActive

-----------------------------------------------------------------------------
(* Queries                                                                 *)

get_invoice_with_received_amount_by_id(i) ==
  [status |-> row[i].status, amount |-> row[i].amount, total |-> received[i]]

(* Mutants: only the invoices in status Waiting.                           *)
get_waiting_invoices == {i \in Invoices : row[i].status = "Waiting"}

get_expired_waiting_invoices ==
  {i \in Invoices : row[i].status = "Waiting" /\ row[i].lapsed}

get_active_invoices == {i \in Invoices : Active(i)}

get_expired_invoices == {i \in Invoices : Active(i) /\ row[i].lapsed}

(* Mutant: there is no unique index.                                       *)
NoUniqueIndex(t) == FALSE

(* The unique index on (chain, tx_hash) spans all invoices.                *)
DuplicateTransaction(t) == \E u \in recorded : HashOf[u] = HashOf[t]

-----------------------------------------------------------------------------
(* Statements                                                              *)

create_invoice(i, a, chain) ==
  /\ ~Exists(i)
  /\ row' = [row EXCEPT ![i] = [status |-> "Waiting", amount |-> a,
                               chain |-> chain, lapsed |-> FALSE]]

update_invoice_status(i, s) ==
  /\ Exists(i)
  /\ InvoiceTransition(row[i].status, s)
  /\ row' = [row EXCEPT ![i].status = s]

(* The new valid_till is a whole lifetime ahead.                           *)
update_invoice_data(i, a) ==
  /\ Exists(i)
  /\ InvoiceDataUpdate(row[i].status)
  /\ row' = [row EXCEPT ![i].amount = a, ![i].lapsed = FALSE]

(* Mutant: INSERT OR IGNORE.                                               *)
create_transaction_or_ignore(t) ==
  /\ recorded' = recorded \cup {t}
  /\ received' = IF DuplicateTransaction(t) THEN received
                 ELSE [received EXCEPT ![InvoiceOf[t]] = @ + AmountOf[t]]

create_transaction(t) ==
  /\ ~DuplicateTransaction(t)
  /\ recorded' = recorded \cup {t}
  /\ received' = [received EXCEPT ![InvoiceOf[t]] = @ + AmountOf[t]]

create_payout(i, a) == payouts' = [payouts EXCEPT ![i] = Append(@, a)]

create_refund(i, a) == refunds' = [refunds EXCEPT ![i] = Append(@, a)]

create_webhook_event(i, e) == events' = [events EXCEPT ![i] = Append(@, e)]
=============================================================================
