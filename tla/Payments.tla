------------------------------ MODULE Payments ------------------------------
(***************************************************************************)
(* The payment of invoices: the API, the transfers tracker, the balance    *)
(* checks of the expiration detector and of the swaps tracker, all working *)
(* on the same database and the same registry, with crashes and restarts   *)
(* of the daemon in between.                                               *)
(***************************************************************************)
EXTENDS TransfersTracker, ExpirationDetector, AppState

vars == <<row, recorded, received, payouts, refunds, events, registry, proc,
          serial, landed, budget, subscribed, stream, expired, creating,
          canceling, paying, manual>>

TypeOK ==
  /\ EnvTypeOK
  /\ DbTypeOK
  /\ RegistryTypeOK
  /\ ProcTypeOK
  /\ TrackerTypeOK
  /\ expired \in SUBSET Invoices
  /\ AppTypeOK

Init ==
  /\ EnvInit
  /\ DbInit
  /\ registry = [i \in Invoices |-> Untracked]
  /\ proc = [p \in Procs |-> Idle]
  /\ serial = [i \in Invoices |-> TRUE]
  /\ TrackerInit
  /\ expired = {}
  /\ AppInit

-----------------------------------------------------------------------------
(* The daemon stops and starts again.  Everything in memory is gone, and   *)
(* the registry is filled from the database before any task starts.        *)
Restart ==
  /\ registry' = LoadedRegistry
  /\ proc' = [p \in Procs |-> Idle]
  /\ subscribed' = FALSE
  /\ stream' = <<>>
  /\ expired' = {}
  /\ creating' = [i \in Invoices |-> Untracked]
  /\ canceling' = [i \in Invoices |-> "no"]
  /\ paying' = [i \in Invoices |-> 0]
  /\ UNCHANGED <<dbVars, serial, landed, manual>>

(* The daemon dies, or a request panics.                                   *)
Crash ==
  /\ \/ Spend("crash")
     \/ \E i \in Invoices : InitiatePayoutPanics(i)
  /\ Restart

(* A panicking task takes the daemon down: the panic hook starts the       *)
(* shutdown, and the open database transaction is rolled back.             *)
StorePanics(p) ==
  /\ proc[p].pc = "store"
  /\ ~DuplicateTransaction(Tx(p))
  /\ InvoiceTransition(row[proc[p].id].status, UpdatedStatus(p))
  /\ PayoutPanics(p)
  /\ Restart
  /\ UNCHANGED budget

RecorderNext(p) ==
  \/ /\ RecorderStep(p)
     /\ UNCHANGED <<landed, trackerVars, expired, appVars>>
  \/ StorePanics(p)

TrackerNext == TrackerStep /\ UNCHANGED <<expired, appVars>>

CheckerNext(p) == CheckStep(p) /\ UNCHANGED <<trackerVars, expired, appVars>>

DetectorNext == DetectorStep /\ UNCHANGED <<trackerVars, appVars>>

(* The swaps tracker sees an executed swap into the invoice's address.     *)
SwapExecuted(i) ==
  /\ StartCheck("swaps", i)
  /\ UNCHANGED <<trackerVars, expired, appVars>>

SwapsNext == SwapCheckDone /\ UNCHANGED <<trackerVars, expired, appVars>>

ApiStep(i) ==
  \/ RegisterInvoice(i)
  \/ CancelStep(i)
  \/ PayoutStep(i)

ApiRequest(i) ==
  \/ \E a \in Amounts : CreateInvoice(i, a) \/ UpdateInvoice(i, a)
  \/ CancelRemoves(i)
  \/ InitiatePayout(i)

ApiNext(i) ==
  ApiStep(i) \/ ApiRequest(i)

OutsideNext ==
  \/ \E t \in Transfers : TransferLands(t) /\ UNCHANGED <<expired, appVars>>
  \/ \E i \in Invoices : Lapse(i) /\ UNCHANGED <<trackerVars, appVars>>

Next ==
  \/ \E p \in Procs : RecorderNext(p)
  \/ TrackerNext
  \/ \E p \in Checkers : CheckerNext(p)
  \/ DetectorNext
  \/ \E i \in SwapInvoices : SwapExecuted(i)
  \/ SwapsNext
  \/ \E i \in Invoices : ApiNext(i) /\ UNCHANGED <<trackerVars, expired>>
  \/ OutsideNext
  \/ Crash

Spec == Init /\ [][Next]_vars

(* Every await of a task returns, with an answer or an error; a request    *)
(* that was accepted is worked off; and time passes.                       *)
Fairness ==
  /\ \A p \in Procs : WF_vars(RecorderNext(p))
  /\ WF_vars(TrackerNext)
  /\ \A p \in Checkers : WF_vars(CheckerNext(p))
  /\ WF_vars(DetectorNext)
  /\ WF_vars(SwapsNext)
  /\ \A i \in Invoices :
       /\ WF_vars(ApiStep(i) /\ UNCHANGED <<trackerVars, expired>>)
       /\ WF_vars(Lapse(i) /\ UNCHANGED <<trackerVars, appVars>>)

FairSpec == Spec /\ Fairness

-----------------------------------------------------------------------------
(* The abstract specification: of a row only the status is visible, and of *)
(* payouts and refunds how many there are.                                 *)
statusBar == [i \in Invoices |-> row[i].status]
orderedBar ==
  [i \in Invoices |-> Len(payouts[i]) + Len(refunds[i]) + manual[i]]

depositsBar == {AmountOf[t] : t \in Transfers}

Lifecycle == INSTANCE InvoiceLifecycle WITH
  Deposits <- depositsBar, status <- statusBar, got <- received, ordered <- orderedBar

(* However the tasks interleave, and whatever crashes in between, the      *)
(* database goes through the lifecycle of an invoice: money is recorded    *)
(* only for an invoice that is active or paid; transfers are ordered only  *)
(* by the step that makes it paid or expires it, or one by one by hand     *)
(* once it is closed; and an expired or canceled invoice keeps its status  *)
(* and its total.                                                          *)
ImplementsLifecycle == Lifecycle!Spec

(* A settlement orders nothing from an invoice that is active or canceled, *)
(* and an invoice that expired as unpaid has indeed nothing recorded and   *)
(* nothing settled, even when the expiration raced with a transfer.        *)
SettlementsAreLate ==
  \A i \in Invoices :
    /\ row[i].status \in InvoiceActive \cup InvoiceCanceled \cup {"Absent"} =>
         payouts[i] = <<>> /\ refunds[i] = <<>>
    /\ row[i].status \in {"Absent", "Waiting", "UnpaidExpired"} =>
         received[i] = 0 /\ payouts[i] = <<>> /\ refunds[i] = <<>>

(* Money leaves an invoice only when it is no longer active: settlements   *)
(* are late, and a payout ordered by hand is in the database only next to  *)
(* an invoice that is closed for good, although initiate_payout checks the *)
(* status in one statement and writes in another.  Out of a canceled or an *)
(* unpaid invoice nothing is ordered but by hand.                          *)
NothingLeavesEarly ==
  /\ SettlementsAreLate
  /\ \A i \in Invoices : manual[i] > 0 => Exists(i) /\ ~Active(i)

(* No snapshot, in the registry, in a task or on its way from the API into *)
(* the registry, counts money that is not in the database: a total is      *)
(* never more than what has been recorded.                                 *)
TotalsAreBacked ==
  /\ \A i \in Invoices :
       /\ Tracked(i) => registry[i].total <= received[i]
       /\ creating[i] # Untracked => creating[i].total <= received[i]
  /\ \A p \in Procs : proc[p] # Idle =>
       proc[p].copy.total <= received[proc[p].id]

(* The tracker, the expiration detector and the swaps tracker may all find *)
(* the same transfer; it is counted once, and only if it is on the chain,  *)
(* and orders at most one payout and one refund, however stale the         *)
(* snapshots are that the tasks settle the invoice from.  (The payouts     *)
(* ordered by hand come on top: initiate_payout counts nothing.)           *)
CountedOnce ==
  \A i \in Invoices :
    LET counted == {t \in recorded : InvoiceOf[t] = i}
    IN
    /\ received[i] = MapThenSumSet(LAMBDA t : AmountOf[t], counted)
    /\ received[i] <= TotalAmount(landed[i])
    /\ Len(payouts[i]) <= Cardinality(counted)
    /\ Len(refunds[i]) <= Cardinality(counted)

(* The accounts of an invoice whose settlements were all made from an      *)
(* up-to-date snapshot are exact: one payout, of all that was received or, *)
(* when it was overpaid, of the invoice's amount, with the rest refunded.  *)
(* (Payouts ordered by hand are not part of these accounts.)               *)
ExactAccounts(i) ==
  LET r == received[i]
      a == row[i].amount
      least == a - UnderTolerance
      most == a + OverTolerance
      out == <<payouts[i], refunds[i]>>
  IN
  CASE row[i].status = "Paid" ->
         out = << <<r>>, <<>> >> /\ least <= r /\ r <= most
    [] row[i].status = "OverPaid" ->
         out = << <<a>>, <<r - a>> >> /\ r > most
    [] row[i].status = "PartiallyPaid" ->
         out = << <<>>, <<>> >> /\ r < least
    [] row[i].status = "PartiallyPaidExpired" ->
         out = << <<>>, <<r>> >> /\ r < least
    [] OTHER -> out = << <<>>, <<>> >>

SerialMeansExact == \A i \in Invoices : serial[i] => ExactAccounts(i)

(* The merchant is told what happened: the Paid and Expired events of an   *)
(* invoice are there exactly when it is paid or expired, AdminCanceled     *)
(* only when it was canceled, and no event is followed by one that says    *)
(* the invoice is alive again.                                             *)
EventsTell ==
  \A i \in Invoices :
    LET told(e) == \E k \in DOMAIN events[i] : events[i][k] = e
        before(e, later) ==
          \A j, k \in DOMAIN events[i] :
            events[i][j] = e /\ j < k => events[i][k] \in later
    IN
    /\ told("Created") <=> Exists(i)
    /\ told("Paid") <=> row[i].status \in InvoiceFinal
    /\ told("Expired") <=> row[i].status \in InvoiceExpired
    /\ told("AdminCanceled") => row[i].status = "AdminCanceled"
    /\ told("PartiallyPaid") => \E t \in recorded : InvoiceOf[t] = i
    /\ before("Paid", {"Paid"})
    /\ before("Expired", {})
    /\ before("AdminCanceled", {"AdminCanceled"})
    /\ before("PartiallyPaid", EventType \ {"Created", "Updated"})

(* An active invoice is monitored: as long as no call has failed, it is in *)
(* the registry, after a restart too, except while a create or cancel call *)
(* on it is under way.  (A cancellation that fails leaves it out.)         *)
ActiveIsMonitored ==
  budget["failure"] = Budget["failure"] =>
    \A i \in Invoices :
      Active(i) /\ creating[i] = Untracked /\ canceling[i] = "no" => Tracked(i)

(* create_invoice has its invoice in the registry before the first payment *)
(* is recorded and before valid_till.                                      *)
RegisteredInTime(i) ==
  creating[i] # Untracked => received[i] = 0 /\ ~row[i].lapsed

(* Every invoice that was registered in time is closed in the end: it is   *)
(* paid, expires or is canceled, and stays so.                             *)
EveryInvoiceCloses ==
  \A i \in Invoices :
    []RegisteredInTime(i) => (Exists(i) ~> []~Active(i))
=============================================================================
