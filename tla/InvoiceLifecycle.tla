-------------------------- MODULE InvoiceLifecycle --------------------------
(***************************************************************************)
(* What the payment of invoices promises, with everything internal left    *)
(* out: no tasks, no snapshots, no registry.  An invoice has a status, the *)
(* total recorded for it, and a number of transfers ordered from its       *)
(* address (payouts and refunds).  A step concerns one invoice.            *)
(***************************************************************************)
EXTENDS StatusTransitions, Integers

CONSTANTS
  Invoices,
  Deposits       \* amounts a customer may send at once

VARIABLES
  status,        \* per invoice
  got,           \* per invoice, the total recorded
  ordered        \* per invoice, how many outgoing transfers were ordered

lifecycleVars == <<status, got, ordered>>

Init ==
  /\ status = [i \in Invoices |-> "Absent"]
  /\ got = [i \in Invoices |-> 0]
  /\ ordered = [i \in Invoices |-> 0]

Create(i) ==
  /\ status[i] = "Absent"
  /\ status' = [status EXCEPT ![i] = "Waiting"]
  /\ UNCHANGED <<got, ordered>>

(* Money arrives, and the invoice is not paid yet.                         *)
PayInPart(i) ==
  /\ status[i] \in InvoiceActive
  /\ status' = [status EXCEPT ![i] = "PartiallyPaid"]
  /\ \E a \in Deposits : got' = [got EXCEPT ![i] = @ + a]
  /\ UNCHANGED ordered

(* Money arrives, the invoice is paid, and transfers are ordered: a payout *)
(* and, when it is overpaid, a refund.  An invoice that is paid already    *)
(* keeps its status and has transfers ordered again.                       *)
PayInFull(i) ==
  \E s \in InvoiceFinal :
    /\ status[i] \in InvoiceActive \cup {s}
    /\ status' = [status EXCEPT ![i] = s]
    /\ \E a \in Deposits : got' = [got EXCEPT ![i] = @ + a]
    /\ ordered' = [ordered EXCEPT ![i] = @ + (IF s = "Paid" THEN 1 ELSE 2)]

ExpireUnpaid(i) ==
  /\ status[i] = "Waiting"
  /\ status' = [status EXCEPT ![i] = "UnpaidExpired"]
  /\ UNCHANGED <<got, ordered>>

ExpirePaidInPart(i) ==
  /\ status[i] = "PartiallyPaid"
  /\ status' = [status EXCEPT ![i] = "PartiallyPaidExpired"]
  /\ ordered' = [ordered EXCEPT ![i] = @ + 1]
  /\ UNCHANGED got

Cancel(i) ==
  /\ status[i] \in InvoiceActive
  /\ status' = [status EXCEPT ![i] = "AdminCanceled"]
  /\ UNCHANGED <<got, ordered>>

(* An administrator orders a payout of an invoice that is closed.          *)
OrderByHand(i) ==
  /\ status[i] \in InvoiceFinal \cup InvoiceExpired \cup InvoiceCanceled
  /\ ordered' = [ordered EXCEPT ![i] = @ + 1]
  /\ UNCHANGED <<status, got>>

Next ==
  \E i \in Invoices :
    \/ Create(i)
    \/ PayInPart(i)
    \/ PayInFull(i)
    \/ ExpireUnpaid(i)
    \/ ExpirePaidInPart(i)
    \/ Cancel(i)
    \/ OrderByHand(i)

Spec == Init /\ [][Next]_lifecycleVars
=============================================================================
