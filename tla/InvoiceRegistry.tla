-------------------------- MODULE InvoiceRegistry --------------------------
(***************************************************************************)
(* The in-memory map of the invoices that are being monitored.  A lookup   *)
(* returns a clone, so whoever holds one works on a snapshot.              *)
(***************************************************************************)
EXTENDS Dao

VARIABLE
  registry       \* per invoice, its record in the map or Untracked

(* Not in the map; the field keeps it comparable with the records.         *)
Untracked == [status |-> "Untracked"]

Tracked(i) == registry[i] # Untracked

RegistryTypeOK ==
  registry \in [Invoices -> InvoiceWithReceivedAmount \cup {Untracked}]

(* init_invoice_registry: add_invoices of the active rows of the database. *)
LoadedRegistry ==
  [i \in Invoices |-> IF i \in get_active_invoices
                        THEN get_invoice_with_received_amount_by_id(i)
                        ELSE Untracked]

add_invoice(i, record) == registry' = [registry EXCEPT ![i] = record]

remove_invoice(i) == registry' = [registry EXCEPT ![i] = Untracked]

(* The expected amount of the entry is left as it is.                      *)
update_filled_amount(i, total, status) ==
  registry' = IF Tracked(i)
                THEN [registry EXCEPT ![i].total = total, ![i].status = status]
                ELSE registry
=============================================================================
