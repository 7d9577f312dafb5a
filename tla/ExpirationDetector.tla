------------------------ MODULE ExpirationDetector ------------------------
(***************************************************************************)
(* The periodic task that closes the invoices whose time has passed.       *)
(***************************************************************************)
EXTENDS BalanceChecker

VARIABLE
  expired        \* invoices handle_expirations has fetched and not handled

(* Time passes valid_till of an invoice.                                   *)
Lapse(i) ==
  /\ Exists(i)
  /\ ~row[i].lapsed
  /\ row' = [row EXCEPT ![i].lapsed = TRUE]
  /\ UNCHANGED <<recorded, received, payouts, refunds, events,
                 registry, proc, serial, envVars, expired>>

FetchExpired ==
  /\ proc["expirer"] = Idle
  /\ expired = {}
  /\ get_expired_invoices # {}
  /\ expired' = get_expired_invoices
  /\ UNCHANGED <<recorderVars, envVars>>

CheckExpired(i) ==
  /\ i \in expired
  /\ StartCheck("expirer", i)
  /\ expired' = expired \ {i}

-----------------------------------------------------------------------------
Snap == proc["expirer"].copy

(* The status update_invoice_expired gives an invoice, by its snapshot.    *)
ExpiredStatus(status) ==
  IF status = "PartiallyPaid" THEN "PartiallyPaidExpired" ELSE "UnpaidExpired"

(* update_invoice_expired commits; the refund is what the snapshot holds.  *)
ExpireCommits ==
  LET i == proc["expirer"].id IN
  /\ proc["expirer"].pc = "checked"
  /\ Snap.status \in InvoiceActive
  /\ IF Snap.status = "PartiallyPaid"
       THEN create_refund(i, Snap.total)
       ELSE UNCHANGED refunds
  /\ update_invoice_status(i, ExpiredStatus(Snap.status))
  /\ create_webhook_event(i, "Expired")
  /\ proc' = [proc EXCEPT !["expirer"].pc = "unregister"]
  /\ serial' = [serial EXCEPT ![i] = @ /\ UpToDate(i, Snap)]
  /\ UNCHANGED <<recorded, received, payouts, registry, envVars, expired>>

(* The snapshot is final, or has a status that cannot expire, or the       *)
(* trigger refuses the update: nothing is written.                         *)
ExpireRefused ==
  /\ proc["expirer"].pc = "checked"
  /\ \/ Snap.status \notin InvoiceActive
     \/ ~InvoiceTransition(row[proc["expirer"].id].status,
                           ExpiredStatus(Snap.status))
  /\ proc' = [proc EXCEPT !["expirer"] = Idle]
  /\ UNCHANGED <<dbVars, registry, serial, envVars, expired>>

ExpireFails ==
  /\ proc["expirer"].pc = "checked"
  /\ Snap.status \in InvoiceActive
  /\ Spend("failure")
  /\ proc' = [proc EXCEPT !["expirer"] = Idle]
  /\ UNCHANGED <<dbVars, registry, serial, landed, expired>>

Unregister ==
  /\ proc["expirer"].pc = "unregister"
  /\ remove_invoice(proc["expirer"].id)
  /\ proc' = [proc EXCEPT !["expirer"] = Idle]
  /\ UNCHANGED <<dbVars, serial, envVars, expired>>

DetectorStep ==
  \/ FetchExpired
  \/ \E i \in Invoices : CheckExpired(i)
  \/ ExpireCommits
  \/ ExpireRefused
  \/ ExpireFails
  \/ Unregister
=============================================================================
