-------------------------- MODULE StatusTransitions --------------------------
(***************************************************************************)
(* The status columns of the database and the transitions its triggers     *)
(* let through.  Every status update of the daemon is one SQL UPDATE, and  *)
(* the BEFORE UPDATE trigger of the table is the only thing that can       *)
(* refuse it: a trigger that refuses aborts the statement and, with it,    *)
(* the database transaction it belongs to.                                 *)
(*                                                                         *)
(* A trigger only compares OLD.status with NEW.status when they differ, so *)
(* writing the status a row already has is always accepted.                *)
(***************************************************************************)

InvoiceActive == {"Waiting", "PartiallyPaid"}

(* is_final: the two statuses of an invoice that has been paid.            *)
InvoiceFinal == {"Paid", "OverPaid"}

InvoiceExpired == {"UnpaidExpired", "PartiallyPaidExpired"}

InvoiceCanceled == {"CustomerCanceled", "AdminCanceled"}

InvoiceStatus ==
  InvoiceActive \cup InvoiceFinal \cup InvoiceExpired \cup InvoiceCanceled

(* Mutants of the trigger: its last branch is missing; its second branch   *)
(* also lists UnpaidExpired.                                               *)
TransitionFromClosed(old, new) ==
  \/ old \notin InvoiceActive
  \/ old = "Waiting" /\ new # "PartiallyPaidExpired"
  \/ /\ old = "PartiallyPaid"
     /\ new \in {"PartiallyPaid", "Paid", "OverPaid", "PartiallyPaidExpired",
                 "AdminCanceled"}

TransitionToUnpaid(old, new) ==
  \/ old = new
  \/ old = "Waiting" /\ new # "PartiallyPaidExpired"
  \/ /\ old = "PartiallyPaid"
     /\ new \in {"Paid", "OverPaid", "PartiallyPaidExpired", "AdminCanceled",
                 "UnpaidExpired"}

(* enforce_invoice_status_transition                                       *)
InvoiceTransition(old, new) ==
  \/ old = new
  \/ /\ old = "Waiting"
     /\ new \in {"PartiallyPaid", "Paid", "OverPaid", "UnpaidExpired",
                 "AdminCanceled", "CustomerCanceled"}
  \/ /\ old = "PartiallyPaid"
     /\ new \in {"Paid", "OverPaid", "PartiallyPaidExpired", "AdminCanceled"}

(* update_amount_and_cart_only_for_waiting_invoice                         *)
InvoiceDataUpdate(old) == old = "Waiting"

-----------------------------------------------------------------------------
(* Payouts and refunds have the same statuses and the same trigger.        *)
TransferStatus ==
  {"Waiting", "InProgress", "Completed", "FailedRetriable", "Failed"}

TransferTransition(old, new) ==
  \/ old = new
  \/ old = "Waiting" /\ new = "InProgress"
  \/ old = "InProgress" /\ new \in {"Completed", "FailedRetriable", "Failed"}
  \/ old = "FailedRetriable" /\ new = "InProgress"

(* enforce_transaction_status_transition                                   *)
TransactionStatus == {"Waiting", "InProgress", "Completed", "Failed"}

TransactionTransition(old, new) ==
  \/ old = new
  \/ old = "Waiting" /\ new \in {"InProgress", "Completed"}
  \/ old = "InProgress" /\ new \in {"Completed", "Failed"}

-----------------------------------------------------------------------------
SwapStatus ==
  {"Created", "Submitted", "Pending", "Completed", "Failed", "Abandoned"}

(* enforce_swap_status_transition: no branch mentions 'Abandoned' as an    *)
(* old status, so a swap that was abandoned may become anything.           *)
SwapTransition(old, new) ==
  \/ old = new
  \/ old = "Created" /\ new \in {"Submitted", "Failed", "Abandoned"}
  \/ old = "Submitted" /\ new \in {"Pending", "Failed"}
  \/ old = "Pending" /\ new \in {"Completed", "Failed"}
  \/ old = "Abandoned"
=============================================================================
