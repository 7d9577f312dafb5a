--------------------------- MODULE PaymentsProofs ---------------------------
(***************************************************************************)
(* Proofs about Payments, for any number of invoices and transfers, any    *)
(* amounts and tolerances, and any number of disturbances: first the type  *)
(* invariant, with the facts about tasks it needs, then what the steps do  *)
(* to the books of an invoice, and that they follow InvoiceLifecycle; at   *)
(* the end sums, by induction over finite sets, and what is counted.       *)
(***************************************************************************)
EXTENDS Payments, FiniteSetTheorems, TLAPS

(* A task's state q makes sense: its invoice exists, the transfers it has  *)
(* in hand were sent to that invoice, and it has one to work on.           *)
Sensible(q) ==
  q # Idle =>
    /\ Exists(q.id)
    /\ \A k \in DOMAIN q.list : InvoiceOf[q.list[k]] = q.id
    /\ q.pc \in {"balance", "indexer"} => q.next = 1
    /\ q.pc \in {"store", "registry"} => q.next <= Len(q.list)

(* Every reference to an invoice is to a row of the database, and the      *)
(* transfers of a payment address belong to its invoice.                   *)
WellFormed ==
  /\ \A p \in Procs : Sensible(proc[p])
  /\ \A i \in Invoices :
       /\ \A k \in DOMAIN landed[i] : InvoiceOf[landed[i][k]] = i
       /\ Tracked(i) => Exists(i)
       /\ creating[i] # Untracked => Exists(i)
       /\ canceling[i] # "no" => Exists(i)
       /\ i \in expired => Exists(i)

TypeInv == TypeOK /\ WellFormed

-----------------------------------------------------------------------------
(* Facts about single definitions.                                         *)

(* A task that is not idle holds a record of a busy task.                  *)
LEMMA BusyRecord ==
  ASSUME ProcTypeOK, NEW p \in Procs, proc[p].pc \in BusyPc
  PROVE  /\ proc[p] \in Busy
         /\ proc[p] # Idle
BY DEF ProcTypeOK, BusyPc, Busy, Idle

(* What a task knows of the transfer it works on.                          *)
LEMMA TxFacts ==
  ASSUME TypeOK, WellFormed, NEW p \in Procs,
         proc[p].pc \in {"store", "registry"}
  PROVE  /\ Tx(p) \in Transfers
         /\ InvoiceOf[Tx(p)] = proc[p].id
         /\ AmountOf[Tx(p)] \in Nat
         /\ proc[p].id \in Invoices
         /\ Exists(proc[p].id)
         /\ proc[p].copy \in InvoiceWithReceivedAmount
<1>1. proc[p] \in Busy /\ proc[p] # Idle
  BY BusyRecord DEF TypeOK, BusyPc
<1>2. Sensible(proc[p])
  BY DEF WellFormed
<1>3. proc[p].next \in DOMAIN proc[p].list
  BY <1>1, <1>2 DEF Sensible, Busy
<1> QED
  BY <1>1, <1>2, <1>3, TransfersAssumption DEF Sensible, Busy, Tx

(* The status the recorder decides on is one of the three of a payment.    *)
LEMMA StatusForType ==
  ASSUME NEW total \in Int, NEW amount \in Int
  PROVE  StatusFor(total, amount) \in {"PartiallyPaid", "Paid", "OverPaid"}
BY DEF StatusFor

(* What the recorder is about to write has the right type.                 *)
LEMMA UpdatedFacts ==
  ASSUME TypeOK, WellFormed, NEW p \in Procs, proc[p].pc = "store"
  PROVE  /\ UpdatedReceivedAmount(p) \in Nat
         /\ UpdatedStatus(p) \in {"PartiallyPaid", "Paid", "OverPaid"}
<1>1. proc[p].copy.total \in Nat /\ proc[p].copy.amount \in Nat
  BY TxFacts DEF InvoiceWithReceivedAmount
<1>2. UpdatedReceivedAmount(p) \in Nat
  BY <1>1, TxFacts DEF UpdatedReceivedAmount
<1> QED
  BY <1>1, <1>2, StatusForType DEF UpdatedStatus

(* A task that is done with a transfer is idle or keeps its invoice,       *)
(* its list and its snapshot.                                              *)
LEMMA AfterTransactionFacts ==
  ASSUME TypeOK, WellFormed, NEW p \in Procs,
         proc[p].pc \in {"store", "registry"}
  PROVE  /\ AfterTransaction(p) \in Busy \cup {Idle}
         /\ AfterTransaction(p) # Idle =>
              /\ AfterTransaction(p).id = proc[p].id
              /\ AfterTransaction(p).list = proc[p].list
              /\ AfterTransaction(p).copy = proc[p].copy
              /\ AfterTransaction(p).pc = "store" =>
                   AfterTransaction(p).next <= Len(proc[p].list)
              /\ AfterTransaction(p).pc \in {"store", "checked"}
<1>1. proc[p] \in Busy
  BY BusyRecord DEF TypeOK, BusyPc
<1>2. /\ Len(proc[p].list) \in Nat
      /\ proc[p].next \in Nat \ {0}
      /\ "store" \in BusyPc /\ "checked" \in BusyPc
  BY <1>1 DEF Busy, BusyPc
<1>3. CASE proc[p].next < Len(proc[p].list)
  <2>1. AfterTransaction(p) =
          [proc[p] EXCEPT !.pc = "store", !.next = @ + 1]
    BY <1>3 DEF AfterTransaction
  <2>2. proc[p].next + 1 \in Nat \ {0} /\ proc[p].next + 1 <= Len(proc[p].list)
    BY <1>2, <1>3
  <2>3. AfterTransaction(p) \in Busy
    BY <1>1, <1>2, <2>1, <2>2 DEF Busy
  <2>4. /\ AfterTransaction(p).id = proc[p].id
        /\ AfterTransaction(p).list = proc[p].list
        /\ AfterTransaction(p).copy = proc[p].copy
        /\ AfterTransaction(p).pc = "store"
        /\ AfterTransaction(p).next = proc[p].next + 1
    BY <1>1, <2>1 DEF Busy
  <2> QED
    BY <2>2, <2>3, <2>4
<1>4. CASE ~(proc[p].next < Len(proc[p].list)) /\ p = "tracker"
  BY <1>4 DEF AfterTransaction
<1>5. CASE ~(proc[p].next < Len(proc[p].list)) /\ p # "tracker"
  <2>1. AfterTransaction(p) = [proc[p] EXCEPT !.pc = "checked"]
    BY <1>5 DEF AfterTransaction
  <2> QED
    BY <1>1, <1>2, <2>1 DEF Busy
<1> QED
  BY <1>3, <1>4, <1>5

(* A step that gives one task a sensible new state, and that deletes no    *)
(* row, leaves all tasks in a sensible state.                              *)
LEMMA ProcStep ==
  ASSUME TypeOK, WellFormed, NEW p \in Procs, NEW q \in Busy \cup {Idle},
         proc' = [proc EXCEPT ![p] = q],
         \A i \in Invoices : Exists(i) => Exists(i)',
         Sensible(q)
  PROVE  /\ proc' \in [Procs -> Busy \cup {Idle}]
         /\ \A r \in Procs : Sensible(proc[r])'
<1>1. proc \in [Procs -> Busy \cup {Idle}]
  BY DEF TypeOK, ProcTypeOK
<1>2. \A r \in Procs : proc'[r] = IF r = p THEN q ELSE proc[r]
  BY <1>1
<1>3. \A b \in Busy : b.id \in Invoices
  BY DEF Busy
<1>4. ASSUME NEW r \in Procs
      PROVE  Sensible(proc[r])'
  <2>1. CASE r = p
    BY <1>2, <1>3, <2>1 DEF Sensible
  <2>2. CASE r # p
    BY <1>1, <1>2, <1>3, <2>2 DEF Sensible, WellFormed
  <2> QED
    BY <2>1, <2>2
<1> QED
  BY <1>1, <1>4

-----------------------------------------------------------------------------
(* TypeInv is inductive.                                                   *)

(* What update_invoice_status does to the rows.                            *)
LEMMA StatusUpdate ==
  ASSUME TypeOK, NEW i \in Invoices, NEW s \in InvoiceStatus,
         update_invoice_status(i, s)
  PROVE  /\ row' \in [Invoices -> [status : InvoiceStatus \cup {"Absent"},
                                   amount : Nat, chain : ChainType,
                                   lapsed : BOOLEAN]]
         /\ \A j \in Invoices : Exists(j) => Exists(j)'
         /\ \A j \in Invoices : row'[j].amount = row[j].amount
         /\ \A j \in Invoices : j # i => row'[j] = row[j]
         /\ row'[i].status = s
<1>1. row \in [Invoices -> [status : InvoiceStatus \cup {"Absent"},
                            amount : Nat, chain : ChainType, lapsed : BOOLEAN]]
  BY DEF TypeOK, DbTypeOK
<1>2. row' = [row EXCEPT ![i].status = s]
  BY DEF update_invoice_status
<1>3. "Absent" \notin InvoiceStatus
  BY DEF InvoiceStatus, InvoiceActive, InvoiceFinal, InvoiceExpired,
         InvoiceCanceled
<1> QED
  BY <1>1, <1>2, <1>3 DEF Exists

(* The statements that append to a table of an invoice.                    *)
LEMMA PayoutType ==
  ASSUME TypeOK, NEW i \in Invoices, NEW a \in Int, create_payout(i, a)
  PROVE  payouts' \in [Invoices -> Seq(Int)]
BY DEF create_payout, TypeOK, DbTypeOK

(* The same for refunds.                                                   *)
LEMMA RefundType ==
  ASSUME TypeOK, NEW i \in Invoices, NEW a \in Int, create_refund(i, a)
  PROVE  refunds' \in [Invoices -> Seq(Int)]
BY DEF create_refund, TypeOK, DbTypeOK

(* The same for webhook events.                                            *)
LEMMA EventAdded ==
  ASSUME TypeOK, NEW i \in Invoices, NEW e \in EventType,
         create_webhook_event(i, e)
  PROVE  events' \in [Invoices -> Seq(EventType)]
BY DEF create_webhook_event, TypeOK, DbTypeOK

(* Settle orders amounts that are integers and adds a known event.         *)
LEMMA SettleType ==
  ASSUME TypeOK, NEW i \in Invoices, NEW s, NEW total \in Nat,
         Settle(i, s, total)
  PROVE  /\ payouts' \in [Invoices -> Seq(Int)]
         /\ refunds' \in [Invoices -> Seq(Int)]
         /\ events' \in [Invoices -> Seq(EventType)]
<1>1. row[i].amount \in Int /\ total - row[i].amount \in Int
  BY DEF TypeOK, DbTypeOK
<1>2. "Paid" \in EventType /\ "PartiallyPaid" \in EventType
  BY DEF EventType
<1>3. payouts \in [Invoices -> Seq(Int)] /\ refunds \in [Invoices -> Seq(Int)]
  BY DEF TypeOK, DbTypeOK
<1> QED
  BY <1>1, <1>2, <1>3, PayoutType, RefundType, EventAdded DEF Settle

(* Recording a transfer keeps TypeInv.                                     *)
LEMMA StoreCommitsType ==
  ASSUME TypeInv, NEW p \in Procs, StoreCommits(p),
         UNCHANGED <<landed, trackerVars, expired, appVars>>
  PROVE  TypeInv'
<1> DEFINE i == proc[p].id
           q == [proc[p] EXCEPT !.pc = "registry",
                                !.copy.status = UpdatedStatus(p),
                                !.copy.total = UpdatedReceivedAmount(p)]
<1>1. proc[p].pc = "store"
  BY DEF StoreCommits
<1>2. proc[p] \in Busy /\ proc[p] # Idle
  BY <1>1, BusyRecord DEF TypeInv, TypeOK, BusyPc
<1>3. /\ Tx(p) \in Transfers
      /\ InvoiceOf[Tx(p)] = i
      /\ AmountOf[Tx(p)] \in Nat
      /\ i \in Invoices
      /\ Exists(i)
  BY <1>1, TxFacts DEF TypeInv
<1>4. /\ UpdatedReceivedAmount(p) \in Nat
      /\ UpdatedStatus(p) \in {"PartiallyPaid", "Paid", "OverPaid"}
  BY <1>1, UpdatedFacts DEF TypeInv
<1>5. UpdatedStatus(p) \in InvoiceStatus
  BY <1>4 DEF InvoiceStatus, InvoiceActive, InvoiceFinal
<1>6. /\ row' \in [Invoices -> [status : InvoiceStatus \cup {"Absent"},
                                amount : Nat, chain : ChainType,
                                lapsed : BOOLEAN]]
      /\ \A j \in Invoices : Exists(j) => Exists(j)'
  BY <1>3, <1>5, StatusUpdate DEF StoreCommits, TypeInv
<1>7. recorded' \in SUBSET Transfers /\ received' \in [Invoices -> Nat]
  BY <1>3 DEF StoreCommits, create_transaction, TypeInv, TypeOK, DbTypeOK
<1>8. /\ payouts' \in [Invoices -> Seq(Int)]
      /\ refunds' \in [Invoices -> Seq(Int)]
      /\ events' \in [Invoices -> Seq(EventType)]
  BY <1>3, <1>4, SettleType DEF StoreCommits, TypeInv
<1>9. DbTypeOK'
  BY <1>6, <1>7, <1>8 DEF DbTypeOK
<1>10. q \in Busy /\ q.id = i /\ q.list = proc[p].list /\ q.next = proc[p].next
  <2>1. [proc[p].copy EXCEPT !.status = UpdatedStatus(p),
                             !.total = UpdatedReceivedAmount(p)]
          \in InvoiceWithReceivedAmount
    BY <1>2, <1>4, <1>5 DEF Busy, InvoiceWithReceivedAmount
  <2> QED
    BY <1>2, <2>1 DEF Busy, BusyPc
<1>11. proc' = [proc EXCEPT ![p] = q]
  BY DEF StoreCommits
<1>12. Sensible(proc[p])
  BY DEF TypeInv, WellFormed
<1>13. Sensible(q)
  BY <1>1, <1>2, <1>10, <1>12 DEF Sensible
<1> HIDE DEF q
<1>14. /\ proc' \in [Procs -> Busy \cup {Idle}]
       /\ \A r \in Procs : Sensible(proc[r])'
  BY <1>6, <1>10, <1>11, <1>13, ProcStep DEF TypeInv
<1>15. serial' \in [Invoices -> BOOLEAN]
  BY DEF StoreCommits, TypeInv, TypeOK, ProcTypeOK
<1>16. UNCHANGED <<envVars, registry, trackerVars, expired, appVars>>
  BY DEF StoreCommits, envVars
<1>17. TypeOK'
  BY <1>9, <1>14, <1>15, <1>16
     DEF TypeInv, TypeOK, EnvTypeOK, RegistryTypeOK, ProcTypeOK, TrackerTypeOK,
         AppTypeOK, envVars, trackerVars, appVars
<1>18. WellFormed'
  BY <1>6, <1>14, <1>16
     DEF TypeInv, WellFormed, Tracked, envVars, trackerVars, appVars
<1> QED
  BY <1>17, <1>18 DEF TypeInv

(* One disturbance less is left.                                           *)
LEMMA SpendType ==
  ASSUME TypeOK, NEW k \in Disturbances, Spend(k)
  PROVE  budget' \in [Disturbances -> Nat]
BY DEF TypeOK, EnvTypeOK, Spend

(* Steps that change one task and, maybe, the registry.                    *)
LEMMA TaskStep ==
  ASSUME TypeInv, NEW p \in Procs, NEW q \in Busy \cup {Idle},
         proc' = [proc EXCEPT ![p] = q],
         Sensible(q),
         UNCHANGED <<dbVars, serial, landed, appVars>>,
         RegistryTypeOK',
         \A i \in Invoices : Tracked(i)' => Tracked(i),
         budget' \in [Disturbances -> Nat],
         TrackerTypeOK',
         expired' \subseteq expired
  PROVE  TypeInv'
<1>1. \A i \in Invoices : Exists(i) <=> Exists(i)'
  BY DEF Exists, dbVars
<1>2. /\ proc' \in [Procs -> Busy \cup {Idle}]
      /\ \A r \in Procs : Sensible(proc[r])'
  BY <1>1, ProcStep DEF TypeInv
<1>3. TypeOK'
  BY <1>2 DEF TypeInv, TypeOK, EnvTypeOK, DbTypeOK, ProcTypeOK, AppTypeOK,
              dbVars, appVars
<1>4. WellFormed'
  BY <1>1, <1>2 DEF TypeInv, WellFormed, appVars
<1> QED
  BY <1>3, <1>4 DEF TypeInv

(* The registry and the tracker are not concerned.                         *)
LEMMA TaskOnlyStep ==
  ASSUME TypeInv, NEW p \in Procs, NEW q \in Busy \cup {Idle},
         proc' = [proc EXCEPT ![p] = q],
         Sensible(q),
         UNCHANGED <<dbVars, serial, landed, appVars, registry, trackerVars>>,
         budget' \in [Disturbances -> Nat],
         expired' \subseteq expired
  PROVE  TypeInv'
<1>1. RegistryTypeOK' /\ TrackerTypeOK'
  BY DEF TypeInv, TypeOK, RegistryTypeOK, TrackerTypeOK, trackerVars
<1>2. \A i \in Invoices : Tracked(i)' => Tracked(i)
  BY DEF Tracked
<1> QED
  BY <1>1, <1>2, TaskStep

(* An idle task is in a sensible state.                                    *)
LEMMA IdleSensible == Sensible(Idle)
BY DEF Sensible

(* So does every other step of the recorder.                               *)
LEMMA RecorderType ==
  ASSUME TypeInv, NEW p \in Procs, RecorderStep(p),
         UNCHANGED <<landed, trackerVars, expired, appVars>>
  PROVE  TypeInv'
<1>1. TypeOK /\ WellFormed /\ Sensible(proc[p]) /\ RegistryTypeOK
      /\ TrackerTypeOK /\ ProcTypeOK /\ budget \in [Disturbances -> Nat]
  BY DEF TypeInv, TypeOK, WellFormed, EnvTypeOK
<1>2. ASSUME proc[p].pc \in {"store", "registry"}
      PROVE  /\ AfterTransaction(p) \in Busy \cup {Idle}
             /\ Sensible(AfterTransaction(p))
  <2>1. proc[p] # Idle
    BY <1>2 DEF Idle
  <2> QED
    BY <1>1, <1>2, <2>1, AfterTransactionFacts DEF Sensible
<1>3. CASE StoreCommits(p)
  BY <1>3, StoreCommitsType
<1>4. CASE StoreRefused(p)
  BY <1>1, <1>2, <1>4, TaskOnlyStep DEF StoreRefused
<1>5. CASE StoreFails(p)
  BY <1>1, <1>2, <1>5, TaskOnlyStep, SpendType DEF StoreFails, Disturbances
<1>6. CASE UpdateRegistry(p)
  <2>1. /\ proc[p].pc = "registry"
        /\ proc' = [proc EXCEPT ![p] = AfterTransaction(p)]
        /\ UNCHANGED <<dbVars, serial, budget>>
    BY <1>6 DEF UpdateRegistry
  <2>2. proc[p].id \in Invoices /\ proc[p].copy \in InvoiceWithReceivedAmount
    BY <1>1, <2>1, TxFacts
  <2>3. RegistryTypeOK' /\ \A i \in Invoices : Tracked(i)' => Tracked(i)
    <3>1. CASE remove_invoice(proc[p].id)
      BY <1>1, <2>2, <3>1 DEF remove_invoice, RegistryTypeOK, Tracked
    <3>2. CASE update_filled_amount(proc[p].id, proc[p].copy.total,
                                    proc[p].copy.status)
      <4>1. CASE Tracked(proc[p].id)
        <5>1. registry[proc[p].id] \in InvoiceWithReceivedAmount
          BY <1>1, <2>2, <4>1 DEF RegistryTypeOK, Tracked
        <5> QED
          BY <1>1, <2>2, <3>2, <4>1, <5>1
             DEF update_filled_amount, RegistryTypeOK, Tracked,
                 InvoiceWithReceivedAmount
      <4>2. CASE ~Tracked(proc[p].id)
        BY <1>1, <3>2, <4>2 DEF update_filled_amount, RegistryTypeOK, Tracked
      <4> QED
        BY <4>1, <4>2
    <3> QED
      BY <1>6, <3>1, <3>2 DEF UpdateRegistry
  <2>4. TrackerTypeOK'
    BY <1>1 DEF TrackerTypeOK, trackerVars
  <2> QED
    BY <1>1, <1>2, <2>1, <2>3, <2>4, TaskStep
<1> QED
  BY <1>3, <1>4, <1>5, <1>6 DEF RecorderStep

(* The steps of the transfers tracker keep TypeInv.                        *)
LEMMA TrackerType ==
  ASSUME TypeInv, TrackerNext
  PROVE  TypeInv'
<1>1. /\ TypeOK /\ WellFormed /\ RegistryTypeOK /\ TrackerTypeOK
      /\ landed \in [Invoices -> Seq(Transfers)]
      /\ budget \in [Disturbances -> Nat]
      /\ proc \in [Procs -> Busy \cup {Idle}]
      /\ "tracker" \in Procs
  BY DEF TypeInv, TypeOK, EnvTypeOK, ProcTypeOK, Procs
<1>2. UNCHANGED <<expired, appVars>>
  BY DEF TrackerNext
<1>3. CASE Subscribe \/ StreamBreaks
  <2>1. /\ proc["tracker"] = Idle
        /\ UNCHANGED <<recorderVars, landed>>
        /\ budget' \in [Disturbances -> Nat]
        /\ subscribed' \in BOOLEAN
        /\ stream' \in Seq(Transfers)
    <3>1. CASE Subscribe
      BY <1>1, <3>1 DEF Subscribe, TrackerTypeOK, envVars
    <3>2. CASE StreamBreaks
      <4>1. "break" \in Disturbances /\ Spend("break")
        BY <3>2 DEF StreamBreaks, Disturbances
      <4>2. budget' \in [Disturbances -> Nat]
        BY <1>1, <4>1, SpendType
      <4>3. /\ proc["tracker"] = Idle
            /\ UNCHANGED <<recorderVars, landed>>
            /\ subscribed' = FALSE
            /\ stream' = <<>>
        BY <3>2 DEF StreamBreaks
      <4>4. subscribed' \in BOOLEAN
        BY <4>3
      <4>5. stream' \in Seq(Transfers)
        BY <4>3
      <4> QED
        BY <4>2, <4>3, <4>4, <4>5
    <3> QED
      BY <1>3, <3>1, <3>2
  <2>2. /\ UNCHANGED <<dbVars, serial, landed, appVars, registry>>
        /\ proc' = [proc EXCEPT !["tracker"] = Idle]
    BY <1>1, <1>2, <2>1 DEF recorderVars, dbVars, appVars
  <2> QED
    BY <1>1, <1>2, <2>1, <2>2, IdleSensible, TaskStep
       DEF TrackerTypeOK, RegistryTypeOK, Tracked
<1>4. CASE ReceiveTransfer
  <2> DEFINE t == Head(stream)
             q == [pc |-> "store", id |-> InvoiceOf[t],
                   copy |-> registry[InvoiceOf[t]], list |-> <<t>>, next |-> 1]
  <2>1. t \in Transfers /\ InvoiceOf[t] \in Invoices
        /\ stream' \in Seq(Transfers)
    BY <1>1, <1>4, TransfersAssumption DEF ReceiveTransfer, TrackerTypeOK
  <2>2. /\ UNCHANGED <<dbVars, serial, landed, appVars, registry, subscribed,
                       budget>>
        /\ proc["tracker"] = Idle
    BY <1>2, <1>4 DEF ReceiveTransfer, envVars
  <2>3. TrackerTypeOK' /\ RegistryTypeOK'
    BY <1>1, <2>1, <2>2 DEF TrackerTypeOK, RegistryTypeOK
  <2>4. \A i \in Invoices : Tracked(i)' => Tracked(i)
    BY <2>2 DEF Tracked
  <2>5. CASE Tracked(InvoiceOf[t])
    <3>1. registry[InvoiceOf[t]] \in InvoiceWithReceivedAmount
      BY <1>1, <2>1, <2>5 DEF RegistryTypeOK, Tracked
    <3>2. q \in Busy
      BY <2>1, <3>1 DEF Busy, BusyPc
    <3>3. Exists(q.id)
      BY <1>1, <2>1, <2>5 DEF WellFormed
    <3>4. Sensible(q)
      BY <2>1, <3>3 DEF Sensible
    <3>5. proc' = [proc EXCEPT !["tracker"] = q]
      BY <1>4, <2>5 DEF ReceiveTransfer
    <3> HIDE DEF q
    <3> QED
      BY <1>1, <1>2, <2>2, <2>3, <2>4, <3>2, <3>4, <3>5, TaskStep
  <2>6. CASE ~Tracked(InvoiceOf[t])
    <3>1. proc' = [proc EXCEPT !["tracker"] = Idle]
      BY <1>1, <1>4, <2>2, <2>6 DEF ReceiveTransfer
    <3> QED
      BY <1>1, <1>2, <2>2, <2>3, <2>4, <3>1, IdleSensible, TaskStep
  <2> QED
    BY <2>5, <2>6
<1> QED
  BY <1>3, <1>4 DEF TrackerNext, TrackerStep

(* The snapshot of a balance check is a record of an invoice.              *)
LEMMA SnapshotType ==
  ASSUME TypeInv, NEW i \in Invoices, Exists(i)
  PROVE  Snapshot(i) \in InvoiceWithReceivedAmount
BY DEF TypeInv, TypeOK, DbTypeOK, RegistryTypeOK, Snapshot, Tracked, Exists,
       get_invoice_with_received_amount_by_id, InvoiceWithReceivedAmount

(* Starting a balance check keeps TypeInv: the snapshot is a record in     *)
(* both cases.                                                             *)
LEMMA StartCheckType ==
  ASSUME TypeInv, NEW p \in Procs, NEW i \in Invoices, StartCheck(p, i),
         UNCHANGED <<trackerVars, appVars>>, expired' \subseteq expired
  PROVE  TypeInv'
<1> DEFINE q == [pc |-> "balance", id |-> i, copy |-> Snapshot(i),
                 list |-> <<>>, next |-> 1]
<1>1. /\ Exists(i)
      /\ proc' = [proc EXCEPT ![p] = q]
      /\ UNCHANGED <<dbVars, registry, serial, landed, budget>>
  BY DEF StartCheck, envVars
<1>2. q \in Busy
  BY <1>1, SnapshotType DEF Busy, BusyPc
<1>3. Sensible(q)
  BY <1>1 DEF Sensible
<1>4. budget' \in [Disturbances -> Nat]
  BY <1>1 DEF TypeInv, TypeOK, EnvTypeOK
<1> HIDE DEF q
<1> QED
  BY <1>1, <1>2, <1>3, <1>4, TaskOnlyStep

(* A step of a task that only moves its program counter, or ends.          *)
LEMMA MoveStep ==
  ASSUME TypeInv, NEW p \in Procs, proc[p] \in Busy,
         NEW pc \in BusyPc \ {"store", "registry"},
         pc = "indexer" => proc[p].pc = "balance", pc # "balance",
         \/ proc' = [proc EXCEPT ![p] = [proc[p] EXCEPT !.pc = pc]]
         \/ proc' = [proc EXCEPT ![p] = Idle],
         UNCHANGED <<dbVars, serial, landed, appVars, registry, trackerVars>>,
         budget' \in [Disturbances -> Nat],
         expired' \subseteq expired
  PROVE  TypeInv'
<1> DEFINE q == [proc[p] EXCEPT !.pc = pc]
<1>1. /\ q \in Busy /\ q.id = proc[p].id /\ q.list = proc[p].list
      /\ q.pc = pc /\ q.next = proc[p].next
  BY DEF Busy
<1>2. Sensible(proc[p]) /\ (proc[p].pc \in BusyPc)
  BY DEF TypeInv, WellFormed, Busy
<1>3. proc[p] # Idle
  BY <1>2 DEF BusyPc, Idle
<1>4. CASE proc' = [proc EXCEPT ![p] = q]
  <2>1. Sensible(q)
    BY <1>1, <1>2, <1>3 DEF Sensible
  <2> HIDE DEF q
  <2> QED
    BY <1>1, <1>4, <2>1, TaskOnlyStep
<1>5. CASE proc' = [proc EXCEPT ![p] = Idle]
  BY <1>5, IdleSensible, TaskOnlyStep
<1> QED
  BY <1>4, <1>5

(* The indexer lists transfers of the payment address.                     *)
LEMMA IndexedFacts ==
  ASSUME TypeInv, NEW i \in Invoices, NEW list \in IndexedTransfers(i)
  PROVE  /\ list \in Seq(Transfers)
         /\ \A k \in DOMAIN list : InvoiceOf[list[k]] = i
<1>1. landed[i] \in Seq(Transfers)
  BY DEF TypeInv, TypeOK, EnvTypeOK
<1>2. \A k \in DOMAIN landed[i] : InvoiceOf[landed[i][k]] = i
  BY DEF TypeInv, WellFormed
<1>3. CASE list = <<>>
  BY <1>3
<1>4. CASE \E n \in 0 .. Len(landed[i]) : list = SubSeq(landed[i], 1, n)
  <2>1. PICK n \in 0 .. Len(landed[i]) : list = SubSeq(landed[i], 1, n)
    BY <1>4
  <2>2. /\ list \in Seq(Transfers)
        /\ Len(list) = n
        /\ \A k \in 1 .. n : list[k] = landed[i][k]
    BY <1>1, <2>1
  <2> QED
    BY <1>1, <1>2, <2>1, <2>2
<1> QED
  BY <1>3, <1>4 DEF IndexedTransfers

(* The steps of the balance checker keep TypeInv.                          *)
LEMMA CheckerType ==
  ASSUME TypeInv, NEW p \in Checkers, CheckerNext(p)
  PROVE  TypeInv'
<1>1. /\ p \in Procs /\ TypeOK /\ ProcTypeOK
      /\ budget \in [Disturbances -> Nat]
      /\ UNCHANGED <<trackerVars, expired, appVars>>
  BY DEF TypeInv, TypeOK, EnvTypeOK, Procs, CheckerNext
<1>2. proc[p].pc \in {"balance", "indexer"} => proc[p] \in Busy
  BY <1>1, BusyRecord DEF BusyPc
<1>3. CASE GetAccountBalance(p)
  <2>1. PICK pc \in {"checked", "indexer"} :
          proc' = [proc EXCEPT ![p] = [proc[p] EXCEPT !.pc = pc]]
    BY <1>3 DEF GetAccountBalance
  <2>2. /\ proc[p].pc = "balance"
        /\ UNCHANGED <<dbVars, registry, serial, landed, budget>>
        /\ pc \in BusyPc \ {"store", "registry", "balance"}
    BY <1>3, <2>1 DEF GetAccountBalance, envVars, BusyPc
  <2> QED
    BY <1>1, <1>2, <2>1, <2>2, MoveStep
<1>4. CASE GetIncomingTransactions(p)
  <2>1. /\ proc[p].pc = "indexer"
        /\ UNCHANGED <<dbVars, registry, serial, landed, budget>>
    BY <1>4 DEF GetIncomingTransactions, envVars
  <2>2. proc[p] \in Busy /\ proc[p].id \in Invoices /\ proc[p] # Idle
    BY <1>2, <2>1 DEF Busy, Idle
  <2>3. PICK list \in IndexedTransfers(proc[p].id) :
          proc' = [proc EXCEPT ![p] = [proc[p] EXCEPT !.list = list, !.pc =
                     IF \/ list = <<>>
                        \/ TotalAmount(list) = proc[p].copy.total
                       THEN "checked" ELSE "store"]]
    BY <1>4 DEF GetIncomingTransactions
  <2>4. PICK pc \in {"checked", "store"} :
          /\ proc' = [proc EXCEPT ![p] = [proc[p] EXCEPT !.list = list,
                                                         !.pc = pc]]
          /\ pc = "store" => list # <<>>
    BY <2>3
  <2> DEFINE q == [proc[p] EXCEPT !.list = list, !.pc = pc]
  <2>5. /\ list \in Seq(Transfers)
        /\ \A k \in DOMAIN list : InvoiceOf[list[k]] = proc[p].id
    BY <2>2, <2>3, IndexedFacts
  <2>6. Sensible(proc[p]) /\ proc[p].next = 1
    BY <1>1, <2>1, <2>2 DEF TypeInv, WellFormed, Sensible
  <2>7. /\ q \in Busy /\ q.id = proc[p].id /\ q.list = list /\ q.pc = pc
        /\ q.next = 1
    BY <2>2, <2>5, <2>6 DEF Busy, BusyPc
  <2>8. pc = "store" => 1 <= Len(list)
    BY <2>4, <2>5
  <2>9. Sensible(q)
    BY <2>2, <2>5, <2>6, <2>7, <2>8 DEF Sensible
  <2>10. proc' = [proc EXCEPT ![p] = q]
    BY <2>4
  <2> HIDE DEF q
  <2> QED
    BY <1>1, <2>1, <2>7, <2>9, <2>10, TaskOnlyStep
<1>5. CASE CheckFails(p)
  <2>1. /\ proc[p].pc \in {"balance", "indexer"}
        /\ UNCHANGED <<dbVars, registry, serial, landed>>
        /\ proc' = [proc EXCEPT ![p] = Idle]
        /\ budget' \in [Disturbances -> Nat]
    BY <1>1, <1>5, SpendType DEF CheckFails, Disturbances
  <2> QED
    BY <1>1, <2>1, IdleSensible, TaskOnlyStep
<1> QED
  BY <1>3, <1>4, <1>5 DEF CheckerNext, CheckStep

(* The steps of the expiration detector keep TypeInv.                      *)
LEMMA DetectorType ==
  ASSUME TypeInv, DetectorNext
  PROVE  TypeInv'
<1> DEFINE x == proc["expirer"]
<1>1. /\ TypeOK /\ WellFormed /\ ProcTypeOK /\ RegistryTypeOK
      /\ budget \in [Disturbances -> Nat]
      /\ "expirer" \in Procs
      /\ UNCHANGED <<trackerVars, appVars>>
  BY DEF TypeInv, TypeOK, EnvTypeOK, Procs, Checkers, DetectorNext
<1>2. x.pc \in {"checked", "unregister"} =>
        /\ x \in Busy /\ x # Idle /\ x.id \in Invoices /\ Exists(x.id)
        /\ x.copy \in InvoiceWithReceivedAmount
  <2>1. x.pc \in {"checked", "unregister"} => x \in Busy /\ x # Idle
    BY <1>1, BusyRecord DEF BusyPc
  <2>2. Sensible(x)
    BY <1>1 DEF WellFormed
  <2> QED
    BY <2>1, <2>2 DEF Busy, Sensible
<1>3. CASE FetchExpired
  <2>1. /\ UNCHANGED <<recorderVars, envVars, trackerVars, appVars>>
        /\ expired' = get_expired_invoices
    BY <1>1, <1>3 DEF FetchExpired
  <2>2. \A i \in expired' : i \in Invoices /\ Exists(i)
    BY <2>1 DEF get_expired_invoices, Active, Exists, InvoiceActive
  <2>3. TypeOK'
    BY <1>1, <2>1, <2>2
       DEF TypeOK, EnvTypeOK, DbTypeOK, RegistryTypeOK, ProcTypeOK,
           TrackerTypeOK, AppTypeOK, recorderVars, envVars, trackerVars, appVars
  <2>4. WellFormed'
    BY <1>1, <2>1, <2>2
       DEF WellFormed, Sensible, Exists, Tracked, recorderVars, envVars, appVars
  <2> QED
    BY <2>3, <2>4 DEF TypeInv
<1>4. CASE \E i \in Invoices : CheckExpired(i)
  <2>1. PICK i \in Invoices : CheckExpired(i)
    BY <1>4
  <2> QED
    BY <1>1, <2>1, StartCheckType DEF CheckExpired
<1>5. CASE ExpireCommits
  <2> DEFINE q == [x EXCEPT !.pc = "unregister"]
             s == ExpiredStatus(x.copy.status)
  <2>1. /\ x.pc = "checked"
        /\ x.copy.status \in InvoiceActive
        /\ update_invoice_status(x.id, s)
        /\ create_webhook_event(x.id, "Expired")
        /\ create_refund(x.id, x.copy.total) \/ UNCHANGED refunds
        /\ UNCHANGED <<recorded, received, payouts, registry, envVars, expired>>
    BY <1>5 DEF ExpireCommits, Snap
  <2>2. s \in InvoiceStatus
    BY DEF ExpiredStatus, InvoiceStatus, InvoiceExpired
  <2>3. /\ row' \in [Invoices -> [status : InvoiceStatus \cup {"Absent"},
                                  amount : Nat, chain : ChainType,
                                  lapsed : BOOLEAN]]
        /\ \A j \in Invoices : Exists(j) => Exists(j)'
    BY <1>1, <1>2, <2>1, <2>2, StatusUpdate
  <2>4. refunds' \in [Invoices -> Seq(Int)]
    <3>1. refunds \in [Invoices -> Seq(Int)]
      BY <1>1 DEF TypeOK, DbTypeOK
    <3>2. x.copy.total \in Int
      BY <1>2, <2>1 DEF InvoiceWithReceivedAmount
    <3>3. x.id \in Invoices
      BY <1>2, <2>1
    <3> QED
      BY <1>1, <2>1, <3>1, <3>2, <3>3, RefundType
  <2>5. events' \in [Invoices -> Seq(EventType)]
    BY <1>1, <1>2, <2>1
       DEF create_webhook_event, TypeOK, DbTypeOK, EventType
  <2>6. serial' \in [Invoices -> BOOLEAN]
    BY <1>1, <1>5 DEF ExpireCommits, ProcTypeOK
  <2>7. q \in Busy /\ q.id = x.id /\ q.list = x.list /\ q.pc = "unregister"
    BY <1>2, <2>1 DEF Busy, BusyPc
  <2>8. Sensible(x) /\ x # Idle
    BY <1>1, <1>2, <2>1 DEF WellFormed
  <2>9. Sensible(q)
    BY <2>7, <2>8 DEF Sensible
  <2>10. /\ proc' \in [Procs -> Busy \cup {Idle}]
         /\ \A r \in Procs : Sensible(proc[r])'
    <3>1. proc' = [proc EXCEPT !["expirer"] = q]
      BY <1>5 DEF ExpireCommits
    <3> HIDE DEF q
    <3> QED
      BY <1>1, <2>3, <2>7, <2>9, <3>1, ProcStep
  <2>11. TypeOK'
    BY <1>1, <2>1, <2>3, <2>4, <2>5, <2>6, <2>10
       DEF TypeOK, EnvTypeOK, DbTypeOK, RegistryTypeOK, ProcTypeOK,
           TrackerTypeOK, AppTypeOK, envVars, trackerVars, appVars
  <2>12. WellFormed'
    BY <1>1, <2>1, <2>3, <2>10
       DEF WellFormed, Tracked, envVars, trackerVars, appVars
  <2> QED
    BY <2>11, <2>12 DEF TypeInv
<1>6. CASE ExpireRefused
  BY <1>1, <1>6, IdleSensible, TaskOnlyStep DEF ExpireRefused, envVars
<1>7. CASE ExpireFails
  BY <1>1, <1>7, IdleSensible, SpendType, TaskOnlyStep
     DEF ExpireFails, Disturbances
<1>8. CASE Unregister
  <2>1. /\ x.pc = "unregister"
        /\ remove_invoice(x.id)
        /\ proc' = [proc EXCEPT !["expirer"] = Idle]
        /\ UNCHANGED <<dbVars, serial, landed, budget, expired>>
    BY <1>8 DEF Unregister, envVars
  <2>2. RegistryTypeOK' /\ \A i \in Invoices : Tracked(i)' => Tracked(i)
    BY <1>1, <1>2, <2>1 DEF remove_invoice, RegistryTypeOK, Tracked
  <2>3. TrackerTypeOK'
    BY <1>1 DEF TypeOK, TrackerTypeOK, trackerVars
  <2> QED
    BY <1>1, <2>1, <2>2, <2>3, IdleSensible, TaskStep
<1> QED
  BY <1>3, <1>4, <1>5, <1>6, <1>7, <1>8 DEF DetectorNext, DetectorStep

(* The balance checks of the swaps tracker keep TypeInv.                   *)
LEMMA SwapsType ==
  ASSUME TypeInv, SwapsNext \/ \E i \in SwapInvoices : SwapExecuted(i)
  PROVE  TypeInv'
<1>1. "swaps" \in Procs
  BY DEF Procs, Checkers
<1>2. CASE SwapsNext
  <2>1. budget \in [Disturbances -> Nat]
    BY DEF TypeInv, TypeOK, EnvTypeOK
  <2> QED
    BY <1>1, <1>2, <2>1, IdleSensible, TaskOnlyStep
       DEF SwapsNext, SwapCheckDone, envVars
<1>3. CASE \E i \in SwapInvoices : SwapExecuted(i)
  <2>1. PICK i \in Invoices : SwapExecuted(i)
    BY <1>3, SwapsAssumption
  <2> QED
    BY <1>1, <2>1, StartCheckType DEF SwapExecuted
<1> QED
  BY <1>2, <1>3

(* A step of the API: it leaves the tasks alone and deletes no row.        *)
LEMMA ApiShape ==
  ASSUME TypeInv, DbTypeOK', RegistryTypeOK', AppTypeOK',
         budget' \in [Disturbances -> Nat],
         UNCHANGED <<proc, serial, landed, trackerVars, expired>>,
         \A i \in Invoices :
           /\ Exists(i) => Exists(i)'
           /\ Tracked(i)' => Exists(i)'
           /\ creating'[i] # Untracked => Exists(i)'
           /\ canceling'[i] # "no" => Exists(i)'
  PROVE  TypeInv'
<1>1. \A q \in Busy : q.id \in Invoices
  BY DEF Busy
<1>2. \A p \in Procs : Sensible(proc[p])'
  BY <1>1 DEF TypeInv, TypeOK, ProcTypeOK, WellFormed, Sensible
<1>3. WellFormed'
  BY <1>2 DEF TypeInv, WellFormed
<1>4. TypeOK'
  BY DEF TypeInv, TypeOK, EnvTypeOK, ProcTypeOK, TrackerTypeOK, trackerVars
<1> QED
  BY <1>3, <1>4 DEF TypeInv

(* A payout by hand leaves everything else alone.                          *)
LEMMA ByHandOnly ==
  ASSUME NEW i, InitiatePayout(i) \/ PayoutStep(i)
  PROVE  UNCHANGED <<recorderVars, landed, creating, canceling>>
BY DEF InitiatePayout, PayoutStep, CreateManualPayout, InitiatePayoutFails,
envVars

(* The steps of the API keep TypeInv.                                      *)
LEMMA ApiType ==
  ASSUME TypeInv, NEW i \in Invoices, ApiNext(i),
         UNCHANGED <<trackerVars, expired>>
  PROVE  TypeInv'
<1>1. /\ TypeOK /\ WellFormed /\ DbTypeOK /\ RegistryTypeOK /\ AppTypeOK
      /\ budget \in [Disturbances -> Nat]
  BY DEF TypeInv, TypeOK, EnvTypeOK
<1>2. \A j \in Invoices :
        /\ Tracked(j) => Exists(j)
        /\ creating[j] # Untracked => Exists(j)
        /\ canceling[j] # "no" => Exists(j)
  BY <1>1 DEF WellFormed
<1>3. \A k \in Disturbances : Spend(k) => budget' \in [Disturbances -> Nat]
  BY <1>1, SpendType
<1>4. CASE \E a \in Amounts : CreateInvoice(i, a)
  <2>1. PICK a \in Amounts : CreateInvoice(i, a)
    BY <1>4
  <2>2. a \in Nat
    BY AmountsAssumption
  <2>a. PICK chain \in ChainType : create_invoice(i, a, chain)
    BY <2>1, ChainAssumption DEF CreateInvoice
  <2>3. /\ row' \in [Invoices -> [status : InvoiceStatus \cup {"Absent"},
                                  amount : Nat, chain : ChainType,
                                  lapsed : BOOLEAN]]
        /\ \A j \in Invoices : Exists(j) => Exists(j)'
        /\ Exists(i)'
    BY <1>1, <2>2, <2>a
       DEF create_invoice, DbTypeOK, Exists, InvoiceStatus, InvoiceActive
  <2>4. events' \in [Invoices -> Seq(EventType)]
    BY <1>1, <2>1, EventAdded DEF CreateInvoice, EventType
  <2>5. UNCHANGED <<recorded, received, payouts, refunds, registry, proc, serial,
                    landed, budget, canceling, paying, manual>>
    BY <2>1 DEF CreateInvoice, envVars
  <2>6. DbTypeOK' /\ RegistryTypeOK'
    BY <1>1, <2>3, <2>4, <2>5 DEF DbTypeOK, RegistryTypeOK
  <2>7. /\ AppTypeOK'
        /\ \A j \in Invoices : j # i => creating'[j] = creating[j]
    BY <1>1, <2>1, <2>2, <2>5
       DEF CreateInvoice, AppTypeOK, InvoiceWithReceivedAmount, InvoiceStatus,
           InvoiceActive
  <2>8. \A j \in Invoices :
          /\ Tracked(j)' => Exists(j)'
          /\ creating'[j] # Untracked => Exists(j)'
          /\ canceling'[j] # "no" => Exists(j)'
    BY <1>2, <2>3, <2>5, <2>7 DEF Tracked
  <2> QED
    BY <1>1, <2>3, <2>5, <2>6, <2>7, <2>8, ApiShape
<1>5. CASE \E a \in Amounts : UpdateInvoice(i, a)
  <2>1. PICK a \in Amounts : UpdateInvoice(i, a)
    BY <1>5
  <2>2. a \in Nat
    BY AmountsAssumption
  <2>3. /\ row' \in [Invoices -> [status : InvoiceStatus \cup {"Absent"},
                                  amount : Nat, chain : ChainType,
                                  lapsed : BOOLEAN]]
        /\ \A j \in Invoices : Exists(j) => Exists(j)'
    BY <1>1, <2>1, <2>2
       DEF UpdateInvoice, update_invoice_data, DbTypeOK, Exists
  <2>4. events' \in [Invoices -> Seq(EventType)]
    BY <1>1, <2>1, EventAdded DEF UpdateInvoice, EventType
  <2>5. /\ UNCHANGED <<recorded, received, payouts, refunds, registry, proc,
                       serial, landed, creating, canceling, paying, manual>>
        /\ budget' \in [Disturbances -> Nat]
    BY <1>3, <2>1 DEF UpdateInvoice, appVars, Disturbances
  <2>6. DbTypeOK' /\ RegistryTypeOK' /\ AppTypeOK'
    BY <1>1, <2>3, <2>4, <2>5 DEF DbTypeOK, RegistryTypeOK, AppTypeOK
  <2>7. \A j \in Invoices :
          /\ Tracked(j)' => Exists(j)'
          /\ creating'[j] # Untracked => Exists(j)'
          /\ canceling'[j] # "no" => Exists(j)'
    BY <1>2, <2>3, <2>5 DEF Tracked
  <2> QED
    BY <1>1, <2>3, <2>5, <2>6, <2>7, ApiShape
<1>6. CASE RegisterInvoice(i)
  <2>1. /\ creating[i] # Untracked
        /\ registry' = [registry EXCEPT ![i] = creating[i]]
        /\ creating' = [creating EXCEPT ![i] = Untracked]
        /\ UNCHANGED <<dbVars, proc, serial, landed, budget, canceling, paying,
                       manual>>
    BY <1>6 DEF RegisterInvoice, add_invoice, envVars
  <2>2. DbTypeOK' /\ RegistryTypeOK' /\ AppTypeOK'
    BY <1>1, <2>1 DEF DbTypeOK, RegistryTypeOK, AppTypeOK, dbVars
  <2>3. \A j \in Invoices :
          /\ Exists(j) => Exists(j)'
          /\ Tracked(j)' => Exists(j)'
          /\ creating'[j] # Untracked => Exists(j)'
          /\ canceling'[j] # "no" => Exists(j)'
    BY <1>1, <1>2, <2>1 DEF Tracked, Exists, dbVars, RegistryTypeOK, AppTypeOK
  <2> QED
    BY <1>1, <2>1, <2>2, <2>3, ApiShape
<1>7. CASE CancelUpdates(i)
  <2>1. "AdminCanceled" \in InvoiceStatus
    BY DEF InvoiceStatus, InvoiceCanceled
  <2>2. /\ row' \in [Invoices -> [status : InvoiceStatus \cup {"Absent"},
                                  amount : Nat, chain : ChainType,
                                  lapsed : BOOLEAN]]
        /\ \A j \in Invoices : Exists(j) => Exists(j)'
    BY <1>1, <1>7, <2>1, StatusUpdate DEF CancelUpdates
  <2>3. /\ canceling[i] = "removed"
        /\ canceling' = [canceling EXCEPT ![i] = "updated"]
        /\ UNCHANGED <<recorded, received, payouts, refunds, events, registry,
                       proc, serial, landed, budget, creating, paying, manual>>
    BY <1>7 DEF CancelUpdates, envVars
  <2>4. DbTypeOK' /\ RegistryTypeOK' /\ AppTypeOK'
    BY <1>1, <2>2, <2>3 DEF DbTypeOK, RegistryTypeOK, AppTypeOK
  <2>5. \A j \in Invoices :
          /\ Tracked(j)' => Exists(j)'
          /\ creating'[j] # Untracked => Exists(j)'
          /\ canceling'[j] # "no" => Exists(j)'
    BY <1>1, <1>2, <2>2, <2>3 DEF Tracked, AppTypeOK
  <2> QED
    BY <1>1, <2>2, <2>3, <2>4, <2>5, ApiShape
<1>8. CASE CancelNotifies(i)
  <2>1. /\ canceling' = [canceling EXCEPT ![i] = "no"]
        /\ UNCHANGED <<row, recorded, received, payouts, refunds, registry,
                       proc, serial, landed, budget, creating, paying, manual>>
    BY <1>8 DEF CancelNotifies, envVars
  <2>2. events' \in [Invoices -> Seq(EventType)]
    BY <1>1, <1>8, EventAdded DEF CancelNotifies, EventType
  <2>3. DbTypeOK' /\ RegistryTypeOK' /\ AppTypeOK'
    BY <1>1, <2>1, <2>2 DEF DbTypeOK, RegistryTypeOK, AppTypeOK
  <2>4. \A j \in Invoices :
          /\ Exists(j) => Exists(j)'
          /\ Tracked(j)' => Exists(j)'
          /\ creating'[j] # Untracked => Exists(j)'
          /\ canceling'[j] # "no" => Exists(j)'
    BY <1>1, <1>2, <2>1 DEF Tracked, Exists, AppTypeOK
  <2> QED
    BY <1>1, <2>1, <2>3, <2>4, ApiShape
<1>9. CASE CancelRefused(i) \/ CancelFails(i)
  <2>1. /\ canceling' = [canceling EXCEPT ![i] = "no"]
        /\ UNCHANGED <<recorderVars, landed, creating, paying, manual>>
    BY <1>9 DEF CancelRefused, CancelFails, envVars
  <2>2. budget' \in [Disturbances -> Nat]
    BY <1>1, <1>3, <1>9 DEF CancelRefused, CancelFails, envVars, Disturbances
  <2>3. DbTypeOK' /\ RegistryTypeOK' /\ AppTypeOK'
    BY <1>1, <2>1 DEF DbTypeOK, RegistryTypeOK, AppTypeOK, recorderVars
  <2>4. \A j \in Invoices :
          /\ Exists(j) => Exists(j)'
          /\ Tracked(j)' => Exists(j)'
          /\ creating'[j] # Untracked => Exists(j)'
          /\ canceling'[j] # "no" => Exists(j)'
    BY <1>1, <1>2, <2>1 DEF Tracked, Exists, AppTypeOK, recorderVars
  <2>5. UNCHANGED <<proc, serial, landed>>
    BY <2>1 DEF recorderVars
  <2> QED
    BY <1>1, <2>2, <2>3, <2>4, <2>5, ApiShape
<1>10. CASE CancelRemoves(i)
  <2>1. /\ Exists(i)
        /\ registry' = [registry EXCEPT ![i] = Untracked]
        /\ canceling' = [canceling EXCEPT ![i] = "removed"]
        /\ UNCHANGED <<dbVars, proc, serial, landed, creating, paying, manual>>
        /\ budget' \in [Disturbances -> Nat]
    BY <1>3, <1>10 DEF CancelRemoves, remove_invoice, Disturbances
  <2>2. DbTypeOK' /\ RegistryTypeOK' /\ AppTypeOK'
    BY <1>1, <2>1 DEF DbTypeOK, RegistryTypeOK, AppTypeOK, dbVars
  <2>3. \A j \in Invoices :
          /\ Exists(j) => Exists(j)'
          /\ Tracked(j)' => Exists(j)'
          /\ creating'[j] # Untracked => Exists(j)'
          /\ canceling'[j] # "no" => Exists(j)'
    BY <1>1, <1>2, <2>1 DEF Tracked, Exists, dbVars, RegistryTypeOK, AppTypeOK
  <2> QED
    BY <1>1, <2>1, <2>2, <2>3, ApiShape
<1>11. CASE InitiatePayout(i) \/ PayoutStep(i)
  <2>1. /\ UNCHANGED <<recorderVars, landed, creating, canceling>>
        /\ budget' \in [Disturbances -> Nat]
    BY <1>1, <1>3, <1>11
       DEF InitiatePayout, PayoutStep, CreateManualPayout, InitiatePayoutFails,
           envVars, Disturbances
  <2>2. paying' \in [Invoices -> Nat] /\ manual' \in [Invoices -> Nat]
    BY <1>1, <1>11
       DEF InitiatePayout, PayoutStep, CreateManualPayout, InitiatePayoutFails,
           AppTypeOK
  <2>3. DbTypeOK' /\ RegistryTypeOK' /\ AppTypeOK'
    BY <1>1, <2>1, <2>2 DEF DbTypeOK, RegistryTypeOK, AppTypeOK, recorderVars
  <2>4. \A j \in Invoices :
          /\ Exists(j) => Exists(j)'
          /\ Tracked(j)' => Exists(j)'
          /\ creating'[j] # Untracked => Exists(j)'
          /\ canceling'[j] # "no" => Exists(j)'
    BY <1>2, <2>1 DEF Tracked, Exists, recorderVars
  <2>5. UNCHANGED <<proc, serial, landed>>
    BY <2>1 DEF recorderVars
  <2> QED
    BY <1>1, <2>1, <2>3, <2>4, <2>5, ApiShape
<1> QED
  BY <1>4, <1>5, <1>6, <1>7, <1>8, <1>9, <1>10, <1>11
     DEF ApiNext, ApiStep, ApiRequest, CancelStep

(* What happens outside the daemon keeps TypeInv.                          *)
LEMMA OutsideType ==
  ASSUME TypeInv, OutsideNext
  PROVE  TypeInv'
<1>1. CASE \E t \in Transfers : TransferLands(t) /\ UNCHANGED <<expired, appVars>>
  <2>1. PICK t \in Transfers : TransferLands(t) /\ UNCHANGED <<expired, appVars>>
    BY <1>1
  <2>2. /\ landed \in [Invoices -> Seq(Transfers)]
        /\ stream \in Seq(Transfers)
        /\ InvoiceOf[t] \in Invoices
        /\ UNCHANGED <<recorderVars, budget, subscribed>>
    BY <2>1, TransfersAssumption
       DEF TypeInv, TypeOK, EnvTypeOK, TrackerTypeOK, TransferLands
  <2>3. landed' \in [Invoices -> Seq(Transfers)] /\ stream' \in Seq(Transfers)
    BY <2>1, <2>2 DEF TransferLands
  <2>4. \A i \in Invoices : \A k \in DOMAIN landed'[i] :
          InvoiceOf[landed'[i][k]] = i
    BY <2>1, <2>2 DEF TransferLands, TypeInv, WellFormed
  <2>5. TypeOK'
    BY <2>1, <2>2, <2>3
       DEF TypeInv, TypeOK, EnvTypeOK, DbTypeOK, RegistryTypeOK, ProcTypeOK,
           TrackerTypeOK, AppTypeOK, recorderVars, appVars
  <2>6. WellFormed'
    BY <2>1, <2>2, <2>4
       DEF TypeInv, WellFormed, Sensible, Exists, Tracked, recorderVars, appVars
  <2> QED
    BY <2>5, <2>6 DEF TypeInv
<1>2. CASE \E i \in Invoices : Lapse(i) /\ UNCHANGED <<trackerVars, appVars>>
  <2>1. PICK i \in Invoices : Lapse(i) /\ UNCHANGED <<trackerVars, appVars>>
    BY <1>2
  <2>2. /\ row' \in [Invoices -> [status : InvoiceStatus \cup {"Absent"},
                                  amount : Nat, chain : ChainType,
                                  lapsed : BOOLEAN]]
        /\ \A j \in Invoices : Exists(j) => Exists(j)'
    BY <2>1 DEF Lapse, TypeInv, TypeOK, DbTypeOK, Exists
  <2>3. UNCHANGED <<recorded, received, payouts, refunds, events, registry, proc,
                    serial, landed, budget, expired, creating, canceling,
                    paying, manual>>
    BY <2>1 DEF Lapse, envVars, appVars
  <2>4. DbTypeOK' /\ RegistryTypeOK' /\ AppTypeOK'
        /\ budget' \in [Disturbances -> Nat]
    BY <2>2, <2>3
       DEF TypeInv, TypeOK, EnvTypeOK, DbTypeOK, RegistryTypeOK, AppTypeOK
  <2>5. \A j \in Invoices :
          /\ Tracked(j)' => Exists(j)'
          /\ creating'[j] # Untracked => Exists(j)'
          /\ canceling'[j] # "no" => Exists(j)'
    BY <2>2, <2>3 DEF TypeInv, WellFormed, Tracked
  <2> QED
    BY <2>1, <2>2, <2>3, <2>4, <2>5, ApiShape
<1> QED
  BY <1>1, <1>2 DEF OutsideNext

(* A restart keeps TypeInv: the registry is loaded from the database.      *)
LEMMA RestartType ==
  ASSUME TypeInv, Restart, budget' \in [Disturbances -> Nat]
  PROVE  TypeInv'
<1>1. /\ registry' = LoadedRegistry
      /\ proc' = [p \in Procs |-> Idle]
      /\ subscribed' = FALSE
      /\ stream' = <<>>
      /\ expired' = {}
      /\ creating' = [i \in Invoices |-> Untracked]
      /\ canceling' = [i \in Invoices |-> "no"]
      /\ paying' = [i \in Invoices |-> 0]
      /\ UNCHANGED <<row, recorded, received, payouts, refunds, events, serial,
                     landed, manual>>
  BY DEF Restart, dbVars
<1>2. LoadedRegistry \in [Invoices -> InvoiceWithReceivedAmount \cup {Untracked}]
  BY DEF TypeInv, TypeOK, DbTypeOK, LoadedRegistry, get_active_invoices, Active,
         get_invoice_with_received_amount_by_id, InvoiceWithReceivedAmount,
         InvoiceStatus
<1>3. \A i \in Invoices : LoadedRegistry[i] # Untracked => Exists(i)
  BY DEF LoadedRegistry, get_active_invoices, Active, Exists, InvoiceActive
<1>4. subscribed' \in BOOLEAN
  BY <1>1
<1>5. TrackerTypeOK'
  BY <1>1, <1>4 DEF TrackerTypeOK
<1>6. TypeOK'
  BY <1>1, <1>2, <1>5
     DEF TypeInv, TypeOK, EnvTypeOK, DbTypeOK, RegistryTypeOK, ProcTypeOK,
         AppTypeOK
<1>7. WellFormed'
  BY <1>1, <1>3 DEF TypeInv, WellFormed, Sensible, Exists, Tracked
<1> QED
  BY <1>6, <1>7 DEF TypeInv

(* TypeInv holds initially.                                                *)
LEMMA InitType == Init => TypeInv
<1> SUFFICES ASSUME Init
             PROVE  TypeInv
  OBVIOUS
<1>1. EnvTypeOK
  BY BudgetAssumption DEF Init, EnvInit, EnvTypeOK
<1>2. DbTypeOK
  BY DEF Init, DbInit, DbTypeOK, ChainType
<1>3. RegistryTypeOK /\ AppTypeOK /\ expired \in SUBSET Invoices
  BY DEF Init, RegistryTypeOK, AppInit, AppTypeOK
<1>4. proc \in [Procs -> Busy \cup {Idle}]
  BY DEF Init
<1>5. serial \in [Invoices -> BOOLEAN]
  BY DEF Init
<1>6. subscribed \in BOOLEAN
  BY DEF Init, TrackerInit
<1>7. stream \in Seq(Transfers)
  BY DEF Init, TrackerInit
<1>8. WellFormed
  BY DEF Init, EnvInit, AppInit, WellFormed, Sensible, Tracked
<1> QED
  BY <1>1, <1>2, <1>3, <1>4, <1>5, <1>6, <1>7, <1>8
     DEF TypeInv, TypeOK, ProcTypeOK, TrackerTypeOK

(* Every step keeps TypeInv.                                               *)
LEMMA NextType == TypeInv /\ [Next]_vars => TypeInv'
<1> SUFFICES ASSUME TypeInv, [Next]_vars
             PROVE  TypeInv'
  OBVIOUS
<1>1. CASE UNCHANGED vars
  BY <1>1 DEF vars, TypeInv, TypeOK, WellFormed, Sensible, Exists, Tracked,
       EnvTypeOK, DbTypeOK, RegistryTypeOK, ProcTypeOK, TrackerTypeOK, AppTypeOK
<1>2. ASSUME NEW p \in Procs, RecorderNext(p)
      PROVE  TypeInv'
  <2>1. CASE StorePanics(p)
    BY <2>1, RestartType DEF StorePanics, TypeInv, TypeOK, EnvTypeOK
  <2> QED
    BY <1>2, <2>1, RecorderType DEF RecorderNext
<1>3. CASE Crash
  <2>1. budget' \in [Disturbances -> Nat]
    BY <1>3, SpendType
       DEF Crash, InitiatePayoutPanics, TypeInv, Disturbances
  <2> QED
    BY <1>3, <2>1, RestartType DEF Crash
<1> QED
  BY <1>1, <1>2, <1>3, TrackerType, CheckerType, DetectorType, SwapsType,
     ApiType, OutsideType
     DEF Next

(* TypeInv is an invariant.                                                *)
LEMMA TypeInvariant == Spec => []TypeInv
BY InitType, NextType, PTL DEF Spec

(* Every variable keeps its type; in particular no balance check ever      *)
(* works on something that is not a snapshot of an invoice.                *)
THEOREM TypeCorrect == Spec => []TypeOK
<1>1. TypeInv => TypeOK
  BY DEF TypeInv
<1> QED
  BY <1>1, TypeInvariant, PTL

-----------------------------------------------------------------------------
(* The books.                                                              *)

(* The books of an invoice: its row without the clock, what was recorded   *)
(* for it and what was ordered from it.                                    *)
BooksUnchanged ==
  /\ \A i \in Invoices : /\ row'[i].status = row[i].status
                         /\ row'[i].amount = row[i].amount
  /\ UNCHANGED <<recorded, received, payouts, refunds, serial>>

(* The six ways a step can write to the books.                             *)
LEMMA BooksStep ==
  ASSUME TypeInv, [Next]_vars
  PROVE  \/ BooksUnchanged
         \/ \E i \in Invoices, a \in Amounts : CreateInvoice(i, a)
         \/ \E i \in Invoices, a \in Amounts : UpdateInvoice(i, a)
         \/ \E i \in Invoices : CancelUpdates(i)
         \/ \E p \in Procs : StoreCommits(p)
         \/ ExpireCommits
<1>1. CASE UNCHANGED vars
  BY <1>1 DEF vars, BooksUnchanged
<1>2. ASSUME NEW p \in Procs, RecorderNext(p), ~StoreCommits(p)
      PROVE  BooksUnchanged
  BY <1>2 DEF RecorderNext, RecorderStep, StoreRefused, StoreFails,
       UpdateRegistry, StorePanics, Restart, dbVars, BooksUnchanged
<1>3. CASE TrackerNext
  BY <1>3 DEF TrackerNext, TrackerStep, Subscribe, StreamBreaks,
       ReceiveTransfer, recorderVars, dbVars, BooksUnchanged
<1>4. ASSUME NEW p \in Checkers, CheckerNext(p)
      PROVE  BooksUnchanged
  BY <1>4 DEF CheckerNext, CheckStep, GetAccountBalance,
       GetIncomingTransactions, CheckFails, dbVars, BooksUnchanged
<1>5. CASE DetectorNext /\ ~ExpireCommits
  BY <1>5 DEF DetectorNext, DetectorStep, FetchExpired, CheckExpired, StartCheck,
       ExpireRefused, ExpireFails, Unregister, recorderVars, dbVars,
       BooksUnchanged
<1>6. CASE SwapsNext \/ \E i \in SwapInvoices : SwapExecuted(i)
  BY <1>6 DEF SwapsNext, SwapCheckDone, SwapExecuted, StartCheck, dbVars,
       BooksUnchanged
<1>7. ASSUME NEW i \in Invoices, ApiNext(i)
      PROVE  \/ BooksUnchanged
             \/ \E a \in Amounts : CreateInvoice(i, a) \/ UpdateInvoice(i, a)
             \/ CancelUpdates(i)
  BY <1>7 DEF ApiNext, ApiStep, ApiRequest, CancelStep, RegisterInvoice,
       CancelNotifies, CancelRefused, CancelFails, CancelRemoves,
       InitiatePayout, PayoutStep, CreateManualPayout, InitiatePayoutFails,
       recorderVars,
       dbVars, BooksUnchanged
<1>8. CASE OutsideNext
  <2>1. ASSUME NEW t \in Transfers, TransferLands(t)
        PROVE  BooksUnchanged
    BY <2>1 DEF TransferLands, recorderVars, BooksUnchanged
  <2>2. ASSUME NEW i \in Invoices, Lapse(i)
        PROVE  BooksUnchanged
    BY <2>2 DEF Lapse, BooksUnchanged, TypeInv, TypeOK, DbTypeOK
  <2> QED
    BY <1>8, <2>1, <2>2 DEF OutsideNext
<1>9. CASE Crash
  BY <1>9 DEF Crash, Restart, dbVars, BooksUnchanged
<1> QED
  BY <1>1, <1>2, <1>3, <1>4, <1>5, <1>6, <1>7, <1>8, <1>9 DEF Next

-----------------------------------------------------------------------------
(* What the six ways mean, in terms of one invoice i that is concerned     *)
(* while the others stay as they are.                                      *)

Others(i) ==
  \A j \in Invoices \ {i} :
    /\ row'[j].status = row[j].status
    /\ row'[j].amount = row[j].amount
    /\ received'[j] = received[j]
    /\ payouts'[j] = payouts[j]
    /\ refunds'[j] = refunds[j]
    /\ serial'[j] = serial[j]

(* An invoice is created.                                                  *)
LEMMA CreateBooks ==
  ASSUME TypeInv, NEW i \in Invoices, NEW a \in Amounts, CreateInvoice(i, a)
  PROVE  /\ Others(i)
         /\ row[i].status = "Absent" /\ row'[i].status = "Waiting"
         /\ UNCHANGED <<received, payouts, refunds, serial>>
BY DEF CreateInvoice, create_invoice, Exists, Others, TypeInv, TypeOK, DbTypeOK

(* An invoice is updated.                                                  *)
LEMMA UpdateBooks ==
  ASSUME TypeInv, NEW i \in Invoices, NEW a \in Amounts, UpdateInvoice(i, a)
  PROVE  /\ Others(i)
         /\ row[i].status = "Waiting" /\ row'[i].status = "Waiting"
         /\ UNCHANGED <<received, payouts, refunds, serial>>
BY DEF UpdateInvoice, update_invoice_data, InvoiceDataUpdate, Others, TypeInv,
       TypeOK, DbTypeOK

(* An invoice is canceled.                                                 *)
LEMMA CancelBooks ==
  ASSUME TypeInv, NEW i \in Invoices, CancelUpdates(i)
  PROVE  /\ Others(i)
         /\ row[i].status \in InvoiceActive \cup {"AdminCanceled"}
         /\ row'[i].status = "AdminCanceled"
         /\ UNCHANGED <<received, payouts, refunds, serial>>
<1>1. "AdminCanceled" \in InvoiceStatus
  BY DEF InvoiceStatus, InvoiceCanceled
<1>2. InvoiceTransition(row[i].status, "AdminCanceled")
  BY DEF CancelUpdates, update_invoice_status
<1> QED
  BY <1>1, <1>2, StatusUpdate
     DEF CancelUpdates, Others, InvoiceTransition, InvoiceActive, TypeInv

(* A transfer is recorded.                                                 *)
LEMMA StoreBooks ==
  ASSUME TypeInv, NEW p \in Procs, StoreCommits(p)
  PROVE  LET i == proc[p].id
             s == UpdatedStatus(p)
             total == UpdatedReceivedAmount(p)
             amount == row[i].amount
         IN
         /\ i \in Invoices
         /\ Others(i)
         /\ s \in {"PartiallyPaid", "Paid", "OverPaid"}
         /\ row[i].status \in InvoiceActive \cup {s}
         /\ s = "PartiallyPaid" => row[i].status \in InvoiceActive
         /\ row'[i].status = s
         /\ row'[i].amount = amount
         /\ \E t \in Transfers : received'[i] = received[i] + AmountOf[t]
         /\ total = proc[p].copy.total + AmountOf[Tx(p)]
         /\ received'[i] = received[i] + AmountOf[Tx(p)]
         /\ s = "PartiallyPaid" =>
              payouts'[i] = payouts[i] /\ refunds'[i] = refunds[i]
         /\ s = "Paid" =>
              payouts'[i] = Append(payouts[i], total) /\ refunds'[i] = refunds[i]
         /\ s = "OverPaid" =>
              /\ payouts'[i] = Append(payouts[i], amount)
              /\ refunds'[i] = Append(refunds[i], total - amount)
         /\ serial'[i] <=> serial[i] /\ UpToDate(i, proc[p].copy)
<1> DEFINE i == proc[p].id
           s == UpdatedStatus(p)
           total == UpdatedReceivedAmount(p)
<1>1. proc[p].pc = "store" /\ TypeOK /\ WellFormed
  BY DEF StoreCommits, TypeInv
<1>2. /\ Tx(p) \in Transfers /\ InvoiceOf[Tx(p)] = i
      /\ AmountOf[Tx(p)] \in Nat
      /\ i \in Invoices
  BY <1>1, TxFacts
<1>3. total \in Nat /\ s \in {"PartiallyPaid", "Paid", "OverPaid"}
  BY <1>1, UpdatedFacts
<1>4. s \in InvoiceStatus
  BY <1>3 DEF InvoiceStatus, InvoiceActive, InvoiceFinal
<1>5. /\ \A j \in Invoices : row'[j].amount = row[j].amount
      /\ \A j \in Invoices : j # i => row'[j] = row[j]
      /\ row'[i].status = s
  BY <1>1, <1>2, <1>4, StatusUpdate DEF StoreCommits
<1>6. /\ row[i].status \in InvoiceActive \cup {s}
      /\ s = "PartiallyPaid" => row[i].status \in InvoiceActive
  BY <1>3 DEF StoreCommits, update_invoice_status, InvoiceTransition,
              InvoiceActive
<1>7. /\ received'[i] = received[i] + AmountOf[Tx(p)]
      /\ \A j \in Invoices : j # i => received'[j] = received[j]
  BY <1>1, <1>2 DEF StoreCommits, create_transaction, TypeOK, DbTypeOK
<1>8. /\ payouts \in [Invoices -> Seq(Int)] /\ refunds \in [Invoices -> Seq(Int)]
      /\ serial \in [Invoices -> BOOLEAN]
  BY <1>1 DEF TypeOK, DbTypeOK, ProcTypeOK
<1>9. Settle(i, s, total)
  BY DEF StoreCommits
<1>10. /\ s = "PartiallyPaid" => UNCHANGED <<payouts, refunds>>
       /\ s = "Paid" => create_payout(i, total) /\ UNCHANGED refunds
       /\ s = "OverPaid" => /\ create_payout(i, row[i].amount)
                            /\ create_refund(i, total - row[i].amount)
  BY <1>3, <1>9 DEF Settle
<1>11. /\ s = "PartiallyPaid" =>
            payouts'[i] = payouts[i] /\ refunds'[i] = refunds[i]
       /\ s = "Paid" =>
            payouts'[i] = Append(payouts[i], total) /\ refunds'[i] = refunds[i]
       /\ s = "OverPaid" =>
            /\ payouts'[i] = Append(payouts[i], row[i].amount)
            /\ refunds'[i] = Append(refunds[i], total - row[i].amount)
       /\ \A j \in Invoices : j # i =>
            payouts'[j] = payouts[j] /\ refunds'[j] = refunds[j]
  BY <1>2, <1>3, <1>8, <1>10 DEF create_payout, create_refund
<1>12. serial' = [serial EXCEPT ![i] = @ /\ UpToDate(i, proc[p].copy)]
  BY DEF StoreCommits
<1>13. /\ serial'[i] <=> serial[i] /\ UpToDate(i, proc[p].copy)
       /\ \A j \in Invoices : j # i => serial'[j] = serial[j]
  BY <1>2, <1>8, <1>12
<1>14. total = proc[p].copy.total + AmountOf[Tx(p)]
  BY DEF UpdatedReceivedAmount
<1>15. Others(i)
  BY <1>5, <1>7, <1>11, <1>13 DEF Others
<1>16. \E t \in Transfers : received'[i] = received[i] + AmountOf[t]
  BY <1>2, <1>7
<1> QED
  BY <1>2, <1>3, <1>5, <1>6, <1>7, <1>11, <1>13, <1>14, <1>15, <1>16

(* An invoice expires.                                                     *)
LEMMA ExpireBooks ==
  ASSUME TypeInv, ExpireCommits
  PROVE  LET i == proc["expirer"].id
             copy == proc["expirer"].copy
         IN
         /\ i \in Invoices
         /\ Others(i)
         /\ UNCHANGED <<received, payouts>>
         /\ row'[i].amount = row[i].amount
         /\ \/ /\ copy.status = "Waiting"
               /\ row[i].status \in {"Waiting", "UnpaidExpired"}
               /\ row'[i].status = "UnpaidExpired"
               /\ refunds'[i] = refunds[i]
            \/ /\ copy.status = "PartiallyPaid"
               /\ row[i].status \in {"PartiallyPaid", "PartiallyPaidExpired"}
               /\ row'[i].status = "PartiallyPaidExpired"
               /\ refunds'[i] = Append(refunds[i], copy.total)
         /\ serial'[i] <=> serial[i] /\ UpToDate(i, copy)
<1> DEFINE x == proc["expirer"]
           i == x.id
           copy == x.copy
           s == ExpiredStatus(copy.status)
<1>1. x.pc = "checked" /\ TypeOK /\ WellFormed /\ "expirer" \in Procs
  BY DEF ExpireCommits, TypeInv, Procs, Checkers
<1>2. x \in Busy
  BY <1>1, BusyRecord DEF TypeOK, BusyPc
<1>3. i \in Invoices
  BY <1>2 DEF Busy
<1>4. /\ copy.status \in InvoiceActive
      /\ update_invoice_status(i, s)
      /\ IF copy.status = "PartiallyPaid" THEN create_refund(i, copy.total)
         ELSE UNCHANGED refunds
      /\ UNCHANGED <<received, payouts>>
      /\ serial' = [serial EXCEPT ![i] = @ /\ UpToDate(i, copy)]
  BY DEF ExpireCommits, Snap
<1>5. s \in InvoiceStatus
  BY DEF ExpiredStatus, InvoiceStatus, InvoiceExpired
<1>6. /\ \A j \in Invoices : row'[j].amount = row[j].amount
      /\ \A j \in Invoices : j # i => row'[j] = row[j]
      /\ row'[i].status = s
  BY <1>1, <1>3, <1>4, <1>5, StatusUpdate
<1>7. InvoiceTransition(row[i].status, s)
  BY <1>4 DEF update_invoice_status
<1>8. /\ refunds \in [Invoices -> Seq(Int)]
      /\ serial \in [Invoices -> BOOLEAN]
  BY <1>1 DEF TypeOK, DbTypeOK, ProcTypeOK
<1>9. \A j \in Invoices : j # i => refunds'[j] = refunds[j]
  BY <1>3, <1>4, <1>8 DEF create_refund
<1>10. /\ serial'[i] <=> serial[i] /\ UpToDate(i, copy)
       /\ \A j \in Invoices : j # i => serial'[j] = serial[j]
  BY <1>3, <1>4, <1>8
<1>11. \/ /\ copy.status = "Waiting"
          /\ row[i].status \in {"Waiting", "UnpaidExpired"}
          /\ s = "UnpaidExpired"
          /\ refunds'[i] = refunds[i]
       \/ /\ copy.status = "PartiallyPaid"
          /\ row[i].status \in {"PartiallyPaid", "PartiallyPaidExpired"}
          /\ s = "PartiallyPaidExpired"
          /\ refunds'[i] = Append(refunds[i], copy.total)
  BY <1>3, <1>4, <1>7, <1>8
     DEF ExpiredStatus, InvoiceTransition, InvoiceActive, create_refund
<1>12. Others(i)
  BY <1>4, <1>6, <1>9, <1>10 DEF Others
<1> QED
  BY <1>3, <1>4, <1>6, <1>10, <1>11, <1>12

-----------------------------------------------------------------------------
(* SettlementsAreLate, for one invoice.                                    *)
Early(i) ==
  /\ row[i].status \in InvoiceActive \cup InvoiceCanceled \cup {"Absent"} =>
       payouts[i] = <<>> /\ refunds[i] = <<>>
  /\ row[i].status \in {"Absent", "Waiting", "UnpaidExpired"} =>
       received[i] = 0 /\ payouts[i] = <<>> /\ refunds[i] = <<>>

(* Every step keeps SettlementsAreLate.                                    *)
LEMMA EarlyStep ==
  ASSUME TypeInv, [Next]_vars, SettlementsAreLate
  PROVE  SettlementsAreLate'
<1>0. \A j \in Invoices : Early(j)
  BY DEF SettlementsAreLate, Early
<1> USE DEF InvoiceActive, InvoiceFinal, InvoiceExpired, InvoiceCanceled
<1>1. SUFFICES ASSUME NEW j \in Invoices
               PROVE  Early(j)'
  BY <1>1 DEF SettlementsAreLate, Early
<1>2. ASSUME NEW i \in Invoices, Others(i), i # j
      PROVE  Early(j)'
  BY <1>0, <1>2 DEF Others, Early
<1>3. CASE BooksUnchanged
  BY <1>0, <1>3 DEF BooksUnchanged, Early
<1>4. ASSUME NEW i \in Invoices, NEW a \in Amounts, CreateInvoice(i, a)
      PROVE  Early(j)'
  BY <1>0, <1>2, <1>4, CreateBooks DEF Early
<1>5. ASSUME NEW i \in Invoices, NEW a \in Amounts, UpdateInvoice(i, a)
      PROVE  Early(j)'
  BY <1>0, <1>2, <1>5, UpdateBooks DEF Early
<1>6. ASSUME NEW i \in Invoices, CancelUpdates(i)
      PROVE  Early(j)'
  BY <1>0, <1>2, <1>6, CancelBooks DEF Early
<1>7. ASSUME NEW p \in Procs, StoreCommits(p)
      PROVE  Early(j)'
  <2> DEFINE i == proc[p].id
  <2>1. CASE i = j
    BY <1>0, <1>7, <2>1, StoreBooks DEF Early
  <2> QED
    BY <1>2, <1>7, <2>1, StoreBooks
<1>8. CASE ExpireCommits
  <2> DEFINE i == proc["expirer"].id
  <2>1. CASE i = j
    BY <1>0, <1>8, <2>1, ExpireBooks DEF Early
  <2> QED
    BY <1>2, <1>8, <2>1, ExpireBooks
<1> QED
  BY <1>3, <1>4, <1>5, <1>6, <1>7, <1>8, BooksStep

(* SettlementsAreLate is an invariant.                                     *)
LEMMA SettlementsAlways == Spec => []SettlementsAreLate
<1>1. Init => SettlementsAreLate
  BY DEF Init, DbInit, SettlementsAreLate
<1>2. TypeInv /\ SettlementsAreLate /\ [Next]_vars => SettlementsAreLate'
  BY EarlyStep
<1> QED
  BY <1>1, <1>2, TypeInvariant, PTL DEF Spec

-----------------------------------------------------------------------------
(* Payouts ordered by hand.                                                *)

(* Whoever has seen that an invoice is closed is right for good, and so    *)
(* are the payouts that follow.                                            *)
HandInv ==
  \A i \in Invoices : paying[i] > 0 \/ manual[i] > 0 => MayPayOut(i)

(* The ways a step can touch the requests for a payout and their payouts.  *)
LEMMA HandSteps ==
  ASSUME TypeInv, [Next]_vars
  PROVE  \/ UNCHANGED <<paying, manual>>
         \/ manual' = manual /\ paying' = [i \in Invoices |-> 0]
         \/ \E i \in Invoices :
              InitiatePayout(i) \/ CreateManualPayout(i) \/ InitiatePayoutFails(i)
<1>1. CASE UNCHANGED vars
  BY <1>1 DEF vars
<1>2. ASSUME NEW p \in Procs, RecorderNext(p)
      PROVE  \/ UNCHANGED <<paying, manual>>
             \/ manual' = manual /\ paying' = [i \in Invoices |-> 0]
  BY <1>2 DEF RecorderNext, StorePanics, Restart, appVars
<1>3. CASE TrackerNext \/ DetectorNext \/ SwapsNext
  BY <1>3 DEF TrackerNext, DetectorNext, SwapsNext, appVars
<1>4. ASSUME NEW p \in Checkers, CheckerNext(p)
      PROVE  UNCHANGED <<paying, manual>>
  BY <1>4 DEF CheckerNext, appVars
<1>5. CASE \E i \in SwapInvoices : SwapExecuted(i)
  BY <1>5 DEF SwapExecuted, appVars
<1>6. ASSUME NEW i \in Invoices, ApiNext(i)
      PROVE  \/ UNCHANGED <<paying, manual>>
             \/ InitiatePayout(i)
             \/ CreateManualPayout(i) \/ InitiatePayoutFails(i)
  <2>1. CASE RegisterInvoice(i) \/ CancelStep(i) \/ CancelRemoves(i)
    BY <2>1 DEF RegisterInvoice, CancelStep, CancelUpdates, CancelNotifies,
         CancelRefused, CancelFails, CancelRemoves
  <2>2. CASE \E a \in Amounts : CreateInvoice(i, a) \/ UpdateInvoice(i, a)
    BY <2>2 DEF CreateInvoice, UpdateInvoice, appVars
  <2> QED
    BY <1>6, <2>1, <2>2 DEF ApiNext, ApiStep, ApiRequest, PayoutStep
<1>7. CASE OutsideNext
  BY <1>7 DEF OutsideNext, appVars
<1>8. CASE Crash
  BY <1>8 DEF Crash, Restart
<1> QED
  BY <1>1, <1>2, <1>3, <1>4, <1>5, <1>6, <1>7, <1>8 DEF Next

(* A closed invoice stays closed.                                          *)
LEMMA ClosedStays ==
  ASSUME TypeInv, [Next]_vars, NEW j \in Invoices, MayPayOut(j)
  PROVE  MayPayOut(j)'
<1> USE DEF InvoiceActive, InvoiceFinal, InvoiceExpired, InvoiceCanceled
<1>0. row[j].status \notin InvoiceActive /\ row[j].status # "Absent"
  BY DEF MayPayOut, Exists, Active
<1>1. SUFFICES row'[j].status \notin InvoiceActive /\ row'[j].status # "Absent"
  BY DEF MayPayOut, Exists, Active
<1>2. ASSUME NEW i \in Invoices, Others(i), i # j
      PROVE  row'[j].status \notin InvoiceActive /\ row'[j].status # "Absent"
  BY <1>0, <1>2 DEF Others
<1>3. CASE BooksUnchanged
  BY <1>0, <1>3 DEF BooksUnchanged
<1>4. ASSUME NEW i \in Invoices, NEW a \in Amounts, CreateInvoice(i, a)
      PROVE  row'[j].status \notin InvoiceActive /\ row'[j].status # "Absent"
  BY <1>0, <1>2, <1>4, CreateBooks
<1>5. ASSUME NEW i \in Invoices, NEW a \in Amounts, UpdateInvoice(i, a)
      PROVE  row'[j].status \notin InvoiceActive /\ row'[j].status # "Absent"
  BY <1>0, <1>2, <1>5, UpdateBooks
<1>6. ASSUME NEW i \in Invoices, CancelUpdates(i)
      PROVE  row'[j].status \notin InvoiceActive /\ row'[j].status # "Absent"
  BY <1>0, <1>2, <1>6, CancelBooks
<1>7. ASSUME NEW p \in Procs, StoreCommits(p)
      PROVE  row'[j].status \notin InvoiceActive /\ row'[j].status # "Absent"
  <2> DEFINE i == proc[p].id
  <2>1. CASE i = j
    BY <1>0, <1>7, <2>1, StoreBooks
  <2> QED
    BY <1>2, <1>7, <2>1, StoreBooks
<1>8. CASE ExpireCommits
  <2> DEFINE i == proc["expirer"].id
  <2>1. CASE i = j
    BY <1>0, <1>8, <2>1, ExpireBooks
  <2> QED
    BY <1>2, <1>8, <2>1, ExpireBooks
<1> QED
  BY <1>3, <1>4, <1>5, <1>6, <1>7, <1>8, BooksStep

(* Every step keeps HandInv.                                               *)
LEMMA HandStep ==
  ASSUME TypeInv, HandInv, [Next]_vars
  PROVE  HandInv'
<1>1. paying \in [Invoices -> Nat] /\ manual \in [Invoices -> Nat]
  BY DEF TypeInv, TypeOK, AppTypeOK
<1>2. SUFFICES ASSUME NEW j \in Invoices, paying'[j] > 0 \/ manual'[j] > 0
               PROVE  MayPayOut(j)
  BY ClosedStays DEF HandInv
<1>3. CASE UNCHANGED <<paying, manual>>
  BY <1>2, <1>3 DEF HandInv
<1>4. CASE manual' = manual /\ paying' = [i \in Invoices |-> 0]
  BY <1>2, <1>4 DEF HandInv
<1>5. ASSUME NEW i \in Invoices, InitiatePayout(i)
      PROVE  MayPayOut(j)
  BY <1>1, <1>2, <1>5 DEF InitiatePayout, HandInv
<1>6. ASSUME NEW i \in Invoices, CreateManualPayout(i) \/ InitiatePayoutFails(i)
      PROVE  MayPayOut(j)
  BY <1>1, <1>2, <1>6 DEF CreateManualPayout, InitiatePayoutFails, HandInv
<1> QED
  BY <1>3, <1>4, <1>5, <1>6, HandSteps

(* HandInv is an invariant.                                                *)
LEMMA HandAlways == Spec => []HandInv
<1>1. Init => HandInv
  BY DEF Init, AppInit, HandInv
<1> QED
  BY <1>1, HandStep, TypeInvariant, PTL DEF Spec

(* NothingLeavesEarly holds for every number of invoices, transfers and    *)
(* disturbances: the trigger on the status column is enough to keep it,    *)
(* however stale the snapshots are, and however long a request for a       *)
(* payout waits between its check and its write.                           *)
THEOREM NothingLeavesEarlyAlways == Spec => []NothingLeavesEarly
<1>1. SettlementsAreLate /\ HandInv => NothingLeavesEarly
  BY DEF HandInv, MayPayOut, NothingLeavesEarly
<1> QED
  BY <1>1, SettlementsAlways, HandAlways, PTL

-----------------------------------------------------------------------------
(* An invoice expires at most once, because only the expiration detector   *)
(* expires invoices: what it has fetched and not finished is not expired,  *)
(* and it does not look at an invoice twice.                               *)
Unfinished == proc["expirer"].pc \notin {"idle", "unregister"}

OneExpiry ==
  /\ \A i \in expired : row[i].status \notin InvoiceExpired
  /\ Unfinished => /\ row[proc["expirer"].id].status \notin InvoiceExpired
                   /\ proc["expirer"].id \notin expired

(* How a step changes what the expiration detector has in hand.            *)
LEMMA ExpirerStep ==
  ASSUME TypeInv, [Next]_vars
  PROVE  \/ /\ expired' \subseteq expired
            /\ Unfinished' => /\ Unfinished
                              /\ proc'["expirer"].id = proc["expirer"].id
         \/ FetchExpired
         \/ \E i \in Invoices : CheckExpired(i)
<1> DEFINE Same == /\ expired' \subseteq expired
                   /\ Unfinished' => /\ Unfinished
                                     /\ proc'["expirer"].id = proc["expirer"].id
<1>0. /\ "expirer" \in Procs /\ "swaps" # "expirer" /\ "tracker" # "expirer"
      /\ proc \in [Procs -> Busy \cup {Idle}]
      /\ TypeOK /\ WellFormed
  BY DEF Procs, Checkers, TypeInv, TypeOK, ProcTypeOK
<1>a. ASSUME proc'["expirer"] = Idle, expired' \subseteq expired
      PROVE  Same
  BY <1>a DEF Idle, Unfinished
<1>b. ASSUME proc'["expirer"] = proc["expirer"], expired' \subseteq expired
      PROVE  Same
  BY <1>b DEF Unfinished
<1>1. CASE UNCHANGED vars
  BY <1>1, <1>b DEF vars
<1>2. ASSUME Restart
      PROVE  Same
  BY <1>0, <1>2, <1>a DEF Restart
<1>3. ASSUME NEW p \in Procs, RecorderNext(p)
      PROVE  Same
  <2>1. CASE StorePanics(p)
    BY <1>2, <2>1 DEF StorePanics
  <2>2. CASE RecorderStep(p) /\ expired' = expired
    <3>1. CASE StoreCommits(p)
      <4>1. proc[p].pc = "store" /\ proc[p] \in Busy
        BY <1>0, <3>1, BusyRecord DEF StoreCommits, TypeOK, BusyPc
      <4>2. proc'["expirer"].id = proc["expirer"].id
        BY <1>0, <3>1, <4>1 DEF StoreCommits, Busy
      <4>3. Unfinished' => Unfinished
        BY <1>0, <3>1, <4>1 DEF StoreCommits, Unfinished
      <4> QED
        BY <2>2, <4>2, <4>3
    <3>2. CASE /\ proc[p].pc \in {"store", "registry"}
               /\ proc' = [proc EXCEPT ![p] = AfterTransaction(p)]
      <4>1. CASE p = "expirer"
        <5>1. proc'["expirer"] = AfterTransaction(p)
          BY <1>0, <3>2, <4>1
        <5>2. AfterTransaction(p) # Idle => AfterTransaction(p).id = proc[p].id
          BY <1>0, <3>2, AfterTransactionFacts
        <5> QED
          BY <1>a, <2>2, <3>2, <4>1, <5>1, <5>2 DEF Unfinished
      <4>2. CASE p # "expirer"
        BY <1>0, <1>b, <2>2, <3>2, <4>2
      <4> QED
        BY <4>1, <4>2
    <3> QED
      BY <2>2, <3>1, <3>2
         DEF RecorderStep, StoreRefused, StoreFails, UpdateRegistry
  <2> QED
    BY <1>3, <2>1, <2>2 DEF RecorderNext
<1>4. CASE TrackerNext
  BY <1>0, <1>4, <1>b DEF TrackerNext, TrackerStep, Subscribe, StreamBreaks,
       ReceiveTransfer, recorderVars
<1>5. ASSUME NEW p \in Checkers, CheckerNext(p)
      PROVE  Same
  <2>1. p \in Procs /\ expired' = expired
    BY <1>5 DEF Procs, CheckerNext
  <2>2. CASE CheckFails(p)
    BY <1>0, <1>a, <1>b, <2>1, <2>2 DEF CheckFails
  <2>3. CASE GetAccountBalance(p) \/ GetIncomingTransactions(p)
    <3>1. /\ proc[p].pc \in {"balance", "indexer"}
          /\ proc[p] \in Busy
      BY <1>0, <2>1, <2>3, BusyRecord
         DEF GetAccountBalance, GetIncomingTransactions, TypeOK, BusyPc
    <3>2. PICK list, pc :
            proc' = [proc EXCEPT ![p] = [proc[p] EXCEPT !.list = list, !.pc = pc]]
      <4>1. CASE GetIncomingTransactions(p)
        BY <4>1 DEF GetIncomingTransactions
      <4>2. CASE GetAccountBalance(p)
        <5>1. PICK pc : proc' = [proc EXCEPT ![p] = [proc[p] EXCEPT !.pc = pc]]
          BY <4>2 DEF GetAccountBalance
        <5>2. [proc[p] EXCEPT !.pc = pc] =
                [proc[p] EXCEPT !.list = proc[p].list, !.pc = pc]
          BY <3>1 DEF Busy
        <5> QED
          BY <5>1, <5>2
      <4> QED
        BY <2>3, <4>1, <4>2
    <3>4. proc'["expirer"].id = proc["expirer"].id
      BY <1>0, <2>1, <3>1, <3>2 DEF Busy
    <3>3. Unfinished' => Unfinished
      BY <1>0, <2>1, <2>3, <3>1
         DEF GetAccountBalance, GetIncomingTransactions, Unfinished
    <3> QED
      BY <2>1, <3>3, <3>4
  <2> QED
    BY <1>5, <2>2, <2>3 DEF CheckerNext, CheckStep
<1>6. CASE DetectorNext /\ ~FetchExpired /\ ~\E i \in Invoices : CheckExpired(i)
  <2>1. CASE ExpireCommits
    BY <1>0, <2>1 DEF ExpireCommits, Unfinished
  <2>2. CASE ExpireRefused \/ ExpireFails \/ Unregister
    BY <1>0, <1>a, <2>2 DEF ExpireRefused, ExpireFails, Unregister
  <2> QED
    BY <1>6, <2>1, <2>2 DEF DetectorNext, DetectorStep
<1>7. CASE SwapsNext \/ \E i \in SwapInvoices : SwapExecuted(i)
  BY <1>0, <1>7, <1>b DEF SwapsNext, SwapCheckDone, SwapExecuted, StartCheck
<1>8. ASSUME NEW i \in Invoices, ApiNext(i), UNCHANGED <<trackerVars, expired>>
      PROVE  Same
  BY <1>8, <1>b DEF ApiNext, ApiStep, ApiRequest, CancelStep, RegisterInvoice,
       CancelUpdates, CancelNotifies, CancelRefused, CancelFails,
       CancelRemoves, InitiatePayout, PayoutStep, CreateManualPayout,
       InitiatePayoutFails,
       CreateInvoice, UpdateInvoice, recorderVars
<1>9. CASE OutsideNext
  BY <1>9, <1>b DEF OutsideNext, TransferLands, Lapse, recorderVars
<1> QED
  BY <1>1, <1>2, <1>3, <1>4, <1>5, <1>6, <1>7, <1>8, <1>9 DEF Next, Crash

(* Which rows a step expires.                                              *)
LEMMA WhoExpires ==
  ASSUME TypeInv, [Next]_vars, NEW j \in Invoices,
         row'[j].status \in InvoiceExpired, row[j].status \notin InvoiceExpired
  PROVE  ExpireCommits /\ j = proc["expirer"].id
<1> USE DEF InvoiceExpired
<1>1. ASSUME NEW i \in Invoices, Others(i)
      PROVE  j = i
  BY <1>1 DEF Others
<1>2. ~BooksUnchanged
  BY DEF BooksUnchanged
<1>3. ASSUME NEW i \in Invoices, NEW a \in Amounts,
             CreateInvoice(i, a) \/ UpdateInvoice(i, a)
      PROVE  FALSE
  BY <1>1, <1>3, CreateBooks, UpdateBooks
<1>4. ASSUME NEW i \in Invoices, CancelUpdates(i)
      PROVE  FALSE
  BY <1>1, <1>4, CancelBooks
<1>5. ASSUME NEW p \in Procs, StoreCommits(p)
      PROVE  FALSE
  BY <1>1, <1>5, StoreBooks
<1>6. CASE ExpireCommits
  BY <1>1, <1>6, ExpireBooks
<1> QED
  BY <1>2, <1>3, <1>4, <1>5, <1>6, BooksStep

(* OneExpiry is kept by every step.                                        *)
LEMMA OneExpiryStep ==
  ASSUME TypeInv, OneExpiry, [Next]_vars
  PROVE  OneExpiry'
<1>0. expired \in SUBSET Invoices /\ \A b \in Busy : b.id \in Invoices
  BY DEF TypeInv, TypeOK, Busy
<1>1. Unfinished => proc["expirer"].id \in Invoices
  <2>1. proc["expirer"] \in Busy \cup {Idle}
    BY DEF TypeInv, TypeOK, ProcTypeOK, Procs, Checkers
  <2> QED
    BY <1>0, <2>1 DEF Unfinished, Idle
<1>2. CASE ExpireCommits
  <2>1. /\ Unfinished
        /\ proc'["expirer"].pc = "unregister"
        /\ expired' = expired
    BY <1>2 DEF ExpireCommits, Unfinished, TypeInv, TypeOK, ProcTypeOK, Procs,
                Checkers
  <2>2. \A i \in expired : row'[i].status \notin InvoiceExpired
    BY <1>0, <2>1, WhoExpires DEF OneExpiry
  <2> QED
    BY <2>1, <2>2 DEF OneExpiry, Unfinished
<1>3. CASE FetchExpired
  BY <1>3 DEF FetchExpired, OneExpiry, Unfinished, Idle, recorderVars,
       get_expired_invoices, Active, InvoiceActive, InvoiceExpired
<1>4. ASSUME NEW i \in Invoices, CheckExpired(i)
      PROVE  OneExpiry'
  <2>1. /\ i \in expired /\ expired' = expired \ {i} /\ row' = row
        /\ proc'["expirer"].id = i
    BY <1>4 DEF CheckExpired, StartCheck, dbVars, TypeInv, TypeOK, ProcTypeOK,
                Procs, Checkers
  <2> QED
    BY <2>1 DEF OneExpiry
<1>5. CASE /\ ~ExpireCommits
           /\ expired' \subseteq expired
           /\ Unfinished' => /\ Unfinished
                             /\ proc'["expirer"].id = proc["expirer"].id
  BY <1>0, <1>1, <1>5, WhoExpires DEF OneExpiry
<1> QED
  BY <1>2, <1>3, <1>4, <1>5, ExpirerStep

(* OneExpiry is an invariant.                                              *)
LEMMA OneExpiryAlways == Spec => []OneExpiry
<1>1. Init => OneExpiry
  BY DEF Init, OneExpiry, Unfinished, Procs, Checkers, Idle
<1>2. TypeInv /\ OneExpiry /\ [Next]_vars => OneExpiry'
  BY OneExpiryStep
<1> QED
  BY <1>1, <1>2, TypeInvariant, PTL DEF Spec

-----------------------------------------------------------------------------
(* The initial states map to the initial state of InvoiceLifecycle.        *)
LEMMA LifecycleInit == Init => Lifecycle!Init
BY DEF Init, DbInit, AppInit, Lifecycle!Init, statusBar, orderedBar

(* How the number of ordered transfers grows.                              *)
LEMMA CountOrdered ==
  ASSUME NEW a \in Nat, NEW b \in Nat
  PROVE  /\ (a + 1) + b = (a + b) + 1
         /\ a + (b + 1) = (a + b) + 1
         /\ (a + 1) + (b + 1) = (a + b) + 2
OBVIOUS

(* The number of ordered transfers is a number.                            *)
LEMMA CountIsNat ==
  ASSUME NEW a \in Nat, NEW b \in Nat
  PROVE  a + b \in Nat
OBVIOUS

(* Every step maps to a step of InvoiceLifecycle or to a stutter.          *)
LEMMA LifecycleStep ==
  ASSUME TypeInv, OneExpiry, HandInv, [Next]_vars
  PROVE  [Lifecycle!Next]_(Lifecycle!lifecycleVars)
<1> USE DEF InvoiceActive, InvoiceFinal, InvoiceExpired,
        InvoiceCanceled, Lifecycle!InvoiceActive, Lifecycle!InvoiceFinal,
        Lifecycle!InvoiceExpired, Lifecycle!InvoiceCanceled
<1>0. /\ received \in [Invoices -> Nat] /\ received' \in [Invoices -> Nat]
      /\ payouts \in [Invoices -> Seq(Int)] /\ refunds \in [Invoices -> Seq(Int)]
      /\ manual \in [Invoices -> Nat]
  BY NextType DEF TypeInv, TypeOK, DbTypeOK, AppTypeOK
<1>h. CASE \E i \in Invoices : CreateManualPayout(i)
  <2>1. PICK i \in Invoices : CreateManualPayout(i)
    BY <1>h
  <2>2. /\ UNCHANGED <<row, received, payouts, refunds>>
        /\ manual' = [manual EXCEPT ![i] = @ + 1]
    BY <2>1 DEF CreateManualPayout, recorderVars
  <2>3. row[i].status \in InvoiceFinal \cup InvoiceExpired \cup InvoiceCanceled
    <3>1. row[i].status \in InvoiceStatus \cup {"Absent"}
      BY DEF TypeInv, TypeOK, DbTypeOK
    <3>2. MayPayOut(i)
      BY <2>1 DEF CreateManualPayout, HandInv
    <3> QED
      BY <3>1, <3>2 DEF InvoiceStatus, MayPayOut, Exists, Active
  <2>4. ASSUME NEW j \in Invoices
        PROVE  orderedBar'[j] =
                 IF j = i THEN orderedBar[j] + 1 ELSE orderedBar[j]
    <3> DEFINE n == Len(payouts[j]) + Len(refunds[j])
    <3>1. payouts[j] \in Seq(Int) /\ refunds[j] \in Seq(Int)
      BY <1>0
    <3>2. Len(payouts[j]) \in Nat /\ Len(refunds[j]) \in Nat
      BY <3>1
    <3>3. n \in Nat
      BY <3>2, CountIsNat, Zenon
    <3>4. orderedBar[j] = n + manual[j] /\ orderedBar'[j] = n + manual'[j]
      BY <2>2 DEF orderedBar
    <3>5. manual[j] \in Nat
          /\ manual'[j] = IF j = i THEN manual[j] + 1 ELSE manual[j]
      BY <1>0, <2>2
    <3> HIDE DEF n
    <3> QED
      BY <3>3, <3>4, <3>5
  <2>5. orderedBar' = [orderedBar EXCEPT ![i] = @ + 1]
    <3>1. /\ orderedBar = [j \in Invoices |-> orderedBar[j]]
          /\ orderedBar' = [j \in Invoices |-> orderedBar'[j]]
      BY DEF orderedBar
    <3> HIDE DEF orderedBar
    <3> QED
      BY <2>4, <3>1
  <2>6. Lifecycle!OrderByHand(i)
    BY <2>2, <2>3, <2>5 DEF Lifecycle!OrderByHand, statusBar
  <2> QED
    BY <2>6 DEF Lifecycle!Next
<1>m. CASE manual' # manual
  BY <1>h, <1>m, HandSteps DEF InitiatePayout, InitiatePayoutFails
<1>a. SUFFICES ASSUME manual' = manual
               PROVE  [Lifecycle!Next]_(Lifecycle!lifecycleVars)
  BY <1>m
<1>1. ASSUME NEW i \in Invoices, Others(i)
      PROVE  /\ statusBar' = [statusBar EXCEPT ![i] = row'[i].status]
             /\ received' = [received EXCEPT ![i] = received'[i]]
             /\ orderedBar' = [orderedBar EXCEPT ![i] =
                     (Len(payouts'[i]) + Len(refunds'[i])) + manual[i]]
             /\ statusBar[i] = row[i].status
             /\ orderedBar[i] = (Len(payouts[i]) + Len(refunds[i])) + manual[i]
  <2>1. statusBar' = [statusBar EXCEPT ![i] = row'[i].status]
    BY <1>1 DEF Others, statusBar
  <2>2. received' = [received EXCEPT ![i] = received'[i]]
    BY <1>0, <1>1 DEF Others
  <2>3. orderedBar' = [orderedBar EXCEPT ![i] =
                         (Len(payouts'[i]) + Len(refunds'[i])) + manual[i]]
    BY <1>1, <1>a DEF Others, orderedBar
  <2> QED
    BY <2>1, <2>2, <2>3 DEF statusBar, orderedBar
<1>2. ASSUME NEW i \in Invoices, Others(i), received'[i] = received[i],
             Len(payouts'[i]) + Len(refunds'[i]) = Len(payouts[i]) + Len(refunds[i])
      PROVE  UNCHANGED <<received, orderedBar>>
  <2>1. \A j \in Invoices : received'[j] = received[j]
    BY <1>2 DEF Others
  <2>2. \A j \in Invoices : Len(payouts'[j]) + Len(refunds'[j]) =
                             Len(payouts[j]) + Len(refunds[j])
    BY <1>2 DEF Others
  <2>3. received' = received
    BY <1>0, <2>1
  <2>4. orderedBar' = orderedBar
    BY <1>a, <2>2 DEF orderedBar
  <2> QED
    BY <2>3, <2>4
<1>s. ASSUME NEW i \in Invoices, Others(i), row'[i].status = row[i].status
      PROVE  statusBar' = statusBar
  BY <1>s DEF Others, statusBar
<1>3. CASE BooksUnchanged
  BY <1>3, <1>a DEF BooksUnchanged, statusBar, orderedBar, Lifecycle!lifecycleVars
<1>4. ASSUME NEW i \in Invoices, NEW a \in Amounts, CreateInvoice(i, a)
      PROVE  Lifecycle!Create(i)
  BY <1>1, <1>2, <1>4, CreateBooks DEF Lifecycle!Create
<1>5. ASSUME NEW i \in Invoices, NEW a \in Amounts, UpdateInvoice(i, a)
      PROVE  UNCHANGED Lifecycle!lifecycleVars
  BY <1>2, <1>s, <1>5, UpdateBooks DEF Lifecycle!lifecycleVars
<1>6. ASSUME NEW i \in Invoices, CancelUpdates(i)
      PROVE  Lifecycle!Cancel(i) \/ UNCHANGED Lifecycle!lifecycleVars
  <2>1. UNCHANGED <<received, orderedBar>>
    BY <1>2, <1>6, CancelBooks
  <2>2. CASE row[i].status = "AdminCanceled"
    BY <1>s, <1>6, <2>1, <2>2, CancelBooks DEF Lifecycle!lifecycleVars
  <2>3. CASE row[i].status \in InvoiceActive
    BY <1>1, <1>6, <2>1, <2>3, CancelBooks DEF Lifecycle!Cancel
  <2> QED
    BY <1>6, <2>2, <2>3, CancelBooks
<1>7. ASSUME NEW p \in Procs, StoreCommits(p)
      PROVE  \E i \in Invoices : Lifecycle!PayInPart(i) \/ Lifecycle!PayInFull(i)
  <2> DEFINE i == proc[p].id
             s == UpdatedStatus(p)
  <2>1. /\ i \in Invoices /\ Others(i)
        /\ s \in {"PartiallyPaid", "Paid", "OverPaid"}
        /\ row[i].status \in InvoiceActive \cup {s}
        /\ s = "PartiallyPaid" => row[i].status \in InvoiceActive
        /\ row'[i].status = s
        /\ \E t \in Transfers : received'[i] = received[i] + AmountOf[t]
        /\ s = "PartiallyPaid" =>
             payouts'[i] = payouts[i] /\ refunds'[i] = refunds[i]
        /\ s = "Paid" => \E x \in Int : /\ payouts'[i] = Append(payouts[i], x)
                                        /\ refunds'[i] = refunds[i]
        /\ s = "OverPaid" => \E x, y \in Int : /\ payouts'[i] = Append(payouts[i], x)
                                               /\ refunds'[i] = Append(refunds[i], y)
    <3>1. UpdatedReceivedAmount(p) \in Int /\ row[i].amount \in Int
          /\ UpdatedReceivedAmount(p) - row[i].amount \in Int
      BY <1>7, UpdatedFacts, TxFacts
         DEF StoreCommits, TypeInv, TypeOK, DbTypeOK
    <3> QED
      BY <1>7, <3>1, StoreBooks
  <2>2. /\ s = "PartiallyPaid" =>
             Len(payouts'[i]) + Len(refunds'[i]) =
               Len(payouts[i]) + Len(refunds[i])
        /\ s = "Paid" =>
             Len(payouts'[i]) + Len(refunds'[i]) =
               (Len(payouts[i]) + Len(refunds[i])) + 1
        /\ s = "OverPaid" =>
             Len(payouts'[i]) + Len(refunds'[i]) =
               (Len(payouts[i]) + Len(refunds[i])) + 2
    <3>1. /\ payouts[i] \in Seq(Int) /\ refunds[i] \in Seq(Int)
      BY <1>0, <2>1
    <3>2. Len(payouts[i]) \in Nat /\ Len(refunds[i]) \in Nat
      BY <3>1
    <3>3. \A x \in Int : /\ Len(Append(payouts[i], x)) = Len(payouts[i]) + 1
                         /\ Len(Append(refunds[i], x)) = Len(refunds[i]) + 1
      BY <3>1
    <3>4. CASE s = "PartiallyPaid"
      BY <2>1, <3>4
    <3>5. CASE s = "Paid"
      <4>1. PICK x \in Int : payouts'[i] = Append(payouts[i], x)
                            /\ refunds'[i] = refunds[i]
        BY <2>1, <3>5
      <4>2. Len(payouts'[i]) = Len(payouts[i]) + 1
        BY <3>3, <4>1
      <4> QED
        BY <3>2, <3>5, <4>1, <4>2, CountOrdered, Zenon
    <3>6. CASE s = "OverPaid"
      <4>1. PICK x, y \in Int : payouts'[i] = Append(payouts[i], x)
                               /\ refunds'[i] = Append(refunds[i], y)
        BY <2>1, <3>6
      <4>2. /\ Len(payouts'[i]) = Len(payouts[i]) + 1
            /\ Len(refunds'[i]) = Len(refunds[i]) + 1
        BY <3>3, <4>1
      <4> QED
        BY <3>2, <3>6, <4>2, CountOrdered, Zenon
    <3> QED
      BY <2>1, <3>4, <3>5, <3>6
  <2>3. \E a \in depositsBar : received' = [received EXCEPT ![i] = @ + a]
    <3>1. PICK t \in Transfers : received'[i] = received[i] + AmountOf[t]
      BY <2>1
    <3>2. received' = [received EXCEPT ![i] = received'[i]]
      BY <1>1, <2>1
    <3>3. AmountOf[t] \in depositsBar
      BY DEF depositsBar
    <3> QED
      BY <3>1, <3>2, <3>3
  <2>4. CASE s = "PartiallyPaid"
    <3>1. orderedBar' = orderedBar
      BY <1>1, <1>2, <2>1, <2>2, <2>4, <1>a DEF orderedBar
    <3>2. Lifecycle!PayInPart(i)
      BY <1>1, <2>1, <2>3, <2>4, <3>1 DEF Lifecycle!PayInPart
    <3> QED
      BY <2>1, <3>2
  <2>5. CASE s \in {"Paid", "OverPaid"}
    <3>1. orderedBar' = [orderedBar EXCEPT ![i] =
                           @ + (IF s = "Paid" THEN 1 ELSE 2)]
      <4>1. Len(payouts[i]) \in Nat /\ Len(refunds[i]) \in Nat
        BY <1>0, <2>1
      <4>2. manual[i] \in Nat
        BY <1>0, <2>1
      <4>3. (Len(payouts'[i]) + Len(refunds'[i])) + manual[i] =
              ((Len(payouts[i]) + Len(refunds[i])) + manual[i])
                + (IF s = "Paid" THEN 1 ELSE 2)
        <5> DEFINE n == Len(payouts[i]) + Len(refunds[i])
                   after == Len(payouts'[i]) + Len(refunds'[i])
                   m == manual[i]
        <5>1. n \in Nat
          BY <4>1, CountIsNat, Zenon
        <5>2. m \in Nat
          BY <4>2
        <5>3. after = n + (IF s = "Paid" THEN 1 ELSE 2)
          BY <2>2, <2>5
        <5>4. SUFFICES after + m = (n + m) + (IF s = "Paid" THEN 1 ELSE 2)
          OBVIOUS
        <5> HIDE DEF n, after, m, s
        <5> QED
          BY <5>1, <5>2, <5>3
      <4>4. /\ orderedBar[i] = (Len(payouts[i]) + Len(refunds[i])) + manual[i]
            /\ orderedBar' = [orderedBar EXCEPT ![i] =
                                (Len(payouts'[i]) + Len(refunds'[i])) + manual[i]]
        BY <1>1, <2>1
      <4> QED
        BY <4>3, <4>4, Zenon
    <3>2. Lifecycle!PayInFull(i)
      BY <1>1, <2>1, <2>3, <2>5, <3>1 DEF Lifecycle!PayInFull
    <3> QED
      BY <2>1, <3>2
  <2> QED
    BY <2>1, <2>4, <2>5
<1>8. CASE ExpireCommits
  <2> DEFINE i == proc["expirer"].id
  <2>1. row[i].status \notin InvoiceExpired
    BY <1>8 DEF ExpireCommits, OneExpiry, Unfinished
  <2>2. /\ i \in Invoices /\ Others(i)
        /\ UNCHANGED <<received, payouts>>
        /\ \/ /\ row[i].status = "Waiting"
              /\ row'[i].status = "UnpaidExpired"
              /\ refunds'[i] = refunds[i]
           \/ /\ row[i].status = "PartiallyPaid"
              /\ row'[i].status = "PartiallyPaidExpired"
              /\ \E x \in Int : refunds'[i] = Append(refunds[i], x)
    <3>1. proc["expirer"].copy.total \in Int
      <4>1. proc["expirer"].pc = "checked" /\ "expirer" \in Procs
        BY <1>8 DEF ExpireCommits, Procs, Checkers
      <4>2. proc["expirer"] \in Busy
        BY <4>1, BusyRecord DEF TypeInv, TypeOK, BusyPc
      <4> QED
        BY <4>2 DEF Busy, InvoiceWithReceivedAmount
    <3> QED
      BY <1>8, <2>1, <3>1, ExpireBooks
  <2>3. CASE row[i].status = "Waiting"
    <3>1. Lifecycle!ExpireUnpaid(i)
      BY <1>1, <1>2, <2>2, <2>3 DEF Lifecycle!ExpireUnpaid
    <3> QED
      BY <2>2, <3>1 DEF Lifecycle!Next
  <2>4. CASE row[i].status = "PartiallyPaid"
    <3>1. Len(payouts'[i]) + Len(refunds'[i]) =
            (Len(payouts[i]) + Len(refunds[i])) + 1
      <4>1. payouts[i] \in Seq(Int) /\ refunds[i] \in Seq(Int)
        BY <1>0, <2>2
      <4>2. \A x \in Int : Len(Append(refunds[i], x)) = Len(refunds[i]) + 1
        BY <4>1
      <4>3. Len(payouts[i]) \in Nat /\ Len(refunds[i]) \in Nat
        BY <4>1
      <4>4. PICK x \in Int : refunds'[i] = Append(refunds[i], x)
        BY <2>2, <2>4
      <4>5. Len(refunds'[i]) = Len(refunds[i]) + 1 /\ payouts'[i] = payouts[i]
        BY <2>2, <4>2, <4>4
      <4> QED
        BY <4>3, <4>5, CountOrdered, Zenon
    <3>2. Lifecycle!ExpirePaidInPart(i)
      <4>1. Len(payouts[i]) \in Nat /\ Len(refunds[i]) \in Nat
        BY <1>0, <2>2
      <4>2. manual[i] \in Nat
        BY <1>0, <2>2
      <4>3. orderedBar' = [orderedBar EXCEPT ![i] = @ + 1]
        <5>1. (Len(payouts'[i]) + Len(refunds'[i])) + manual[i] =
                ((Len(payouts[i]) + Len(refunds[i])) + manual[i]) + 1
          <6> DEFINE n == Len(payouts[i]) + Len(refunds[i])
                     after == Len(payouts'[i]) + Len(refunds'[i])
                     m == manual[i]
          <6>1. n \in Nat
            BY <4>1, CountIsNat, Zenon
          <6>2. m \in Nat /\ after = n + 1
            BY <3>1, <4>2
          <6>3. SUFFICES after + m = (n + m) + 1
            OBVIOUS
          <6> HIDE DEF n, after, m
          <6> QED
            BY <6>1, <6>2
        <5>2. /\ orderedBar[i] = (Len(payouts[i]) + Len(refunds[i])) + manual[i]
              /\ orderedBar' = [orderedBar EXCEPT ![i] =
                                  (Len(payouts'[i]) + Len(refunds'[i])) + manual[i]]
          BY <1>1, <2>2
        <5> QED
          BY <5>1, <5>2, Zenon
      <4> QED
        BY <1>1, <2>2, <2>4, <4>3 DEF Lifecycle!ExpirePaidInPart
    <3> QED
      BY <2>2, <3>2 DEF Lifecycle!Next
  <2> QED
    BY <2>2, <2>3, <2>4
<1> QED
  BY <1>3, <1>4, <1>5, <1>6, <1>7, <1>8, BooksStep DEF Lifecycle!Next

(* Payments implements InvoiceLifecycle: for any number of invoices and    *)
(* transfers, and with any number of crashes and failures, what the        *)
(* recorder, the expiration detector and the API write to the database is  *)
(* a history of the abstract lifecycle.                                    *)
THEOREM ImplementsLifecycleAlways == Spec => ImplementsLifecycle
<1>1. Init => Lifecycle!Init
  BY LifecycleInit
<1>2. TypeInv /\ OneExpiry /\ HandInv /\ [Next]_vars
        => [Lifecycle!Next]_(Lifecycle!lifecycleVars)
  BY LifecycleStep
<1> QED
  BY <1>1, <1>2, TypeInvariant, OneExpiryAlways, HandAlways, PTL
     DEF Spec, ImplementsLifecycle, Lifecycle!Spec

-----------------------------------------------------------------------------
(* A payment recorded from an up-to-date snapshot settles the invoice      *)
(* exactly.                                                                *)
LEMMA StoreExact ==
  ASSUME TypeInv, SettlementsAreLate, SerialMeansExact,
         NEW p \in Procs, StoreCommits(p),
         NEW i \in Invoices, i = proc[p].id, serial'[i]
  PROVE  ExactAccounts(i)'
<1> DEFINE s == UpdatedStatus(p)
           total == UpdatedReceivedAmount(p)
           amount == row[i].amount
<1>1. /\ i \in Invoices
      /\ s \in {"PartiallyPaid", "Paid", "OverPaid"}
      /\ row'[i].status = s /\ row'[i].amount = amount
      /\ received'[i] = received[i] + AmountOf[Tx(p)]
      /\ total = proc[p].copy.total + AmountOf[Tx(p)]
      /\ s = "PartiallyPaid" =>
           payouts'[i] = payouts[i] /\ refunds'[i] = refunds[i]
      /\ s = "Paid" =>
           payouts'[i] = Append(payouts[i], total) /\ refunds'[i] = refunds[i]
      /\ s = "OverPaid" =>
           /\ payouts'[i] = Append(payouts[i], amount)
           /\ refunds'[i] = Append(refunds[i], total - amount)
      /\ serial[i] /\ UpToDate(i, proc[p].copy)
  BY StoreBooks
<1>2. /\ Active(i) /\ proc[p].copy.total = received[i]
      /\ proc[p].copy.amount = amount
  BY <1>1 DEF UpToDate, get_invoice_with_received_amount_by_id
<1>3. payouts[i] = <<>> /\ refunds[i] = <<>>
  BY <1>1, <1>2 DEF SettlementsAreLate, Active
<1>4. received'[i] = total
  BY <1>1, <1>2
<1>5. total \in Nat /\ amount \in Nat
  BY <1>1, UpdatedFacts DEF StoreCommits, TypeInv, TypeOK, DbTypeOK
<1>6. /\ s = "PartiallyPaid" => total < amount - UnderTolerance
      /\ s = "OverPaid" => total > amount + OverTolerance
      /\ s = "Paid" => /\ amount - UnderTolerance <= total
                       /\ total <= amount + OverTolerance
  BY <1>2, <1>5, ToleranceAssumption DEF UpdatedStatus, StatusFor
<1>7. \A x : Append(<<>>, x) = <<x>>
  OBVIOUS
<1> HIDE DEF s, total, amount
<1>8. CASE s = "PartiallyPaid"
  BY <1>1, <1>3, <1>4, <1>6, <1>8 DEF ExactAccounts
<1>9. CASE s = "Paid"
  BY <1>1, <1>3, <1>4, <1>6, <1>7, <1>9 DEF ExactAccounts
<1>10. CASE s = "OverPaid"
  BY <1>1, <1>3, <1>4, <1>6, <1>7, <1>10 DEF ExactAccounts
<1> QED
  BY <1>1, <1>8, <1>9, <1>10

(* So does an expiration from an up-to-date snapshot.                      *)
LEMMA ExpireExact ==
  ASSUME TypeInv, SettlementsAreLate, SerialMeansExact,
         ExpireCommits,
         NEW i \in Invoices, i = proc["expirer"].id, serial'[i]
  PROVE  ExactAccounts(i)'
<1> DEFINE copy == proc["expirer"].copy
<1>1. /\ i \in Invoices
      /\ received'[i] = received[i] /\ payouts'[i] = payouts[i]
      /\ row'[i].amount = row[i].amount
      /\ \/ /\ copy.status = "Waiting"
            /\ row'[i].status = "UnpaidExpired"
            /\ refunds'[i] = refunds[i]
         \/ /\ copy.status = "PartiallyPaid"
            /\ row'[i].status = "PartiallyPaidExpired"
            /\ refunds'[i] = Append(refunds[i], copy.total)
      /\ serial[i] /\ UpToDate(i, copy)
  BY ExpireBooks
<1>2. /\ Active(i) /\ copy.total = received[i] /\ copy.status = row[i].status
  BY <1>1 DEF UpToDate, get_invoice_with_received_amount_by_id
<1>3. payouts[i] = <<>> /\ refunds[i] = <<>>
  BY <1>1, <1>2 DEF SettlementsAreLate, Active
<1>4. ExactAccounts(i)
  BY <1>1 DEF SerialMeansExact
<1>5. \A x : Append(<<>>, x) = <<x>>
  OBVIOUS
<1> HIDE DEF copy
<1>6. CASE copy.status = "Waiting"
  BY <1>1, <1>3, <1>6 DEF ExactAccounts
<1>7. CASE copy.status = "PartiallyPaid"
  <2>1. received[i] < row[i].amount - UnderTolerance
    BY <1>2, <1>4, <1>7 DEF ExactAccounts
  <2> QED
    BY <1>1, <1>2, <1>3, <1>5, <1>7, <2>1 DEF ExactAccounts
<1> QED
  BY <1>1, <1>6, <1>7

(* Every other step leaves the accounts of an invoice exact.               *)
LEMMA ExactStep ==
  ASSUME TypeInv, SettlementsAreLate, SerialMeansExact, [Next]_vars
  PROVE  SerialMeansExact'
<1>1. SUFFICES ASSUME NEW j \in Invoices, serial'[j]
               PROVE  ExactAccounts(j)'
  BY <1>1 DEF SerialMeansExact
<1>2. serial[j] => ExactAccounts(j)
  BY DEF SerialMeansExact
<1>3. ASSUME row'[j].status = row[j].status, row'[j].amount = row[j].amount,
             received'[j] = received[j], payouts'[j] = payouts[j],
             refunds'[j] = refunds[j], serial'[j] = serial[j]
      PROVE  ExactAccounts(j)'
  BY <1>1, <1>2, <1>3 DEF ExactAccounts
<1>4. ASSUME NEW i \in Invoices, Others(i), i # j
      PROVE  ExactAccounts(j)'
  BY <1>3, <1>4 DEF Others
<1>5. CASE BooksUnchanged
  BY <1>3, <1>5 DEF BooksUnchanged
<1>6. ASSUME payouts'[j] = <<>>, refunds'[j] = <<>>,
             row'[j].status \in {"Waiting", "AdminCanceled"}
      PROVE  ExactAccounts(j)'
  BY <1>6 DEF ExactAccounts
<1>7. ASSUME NEW i \in Invoices, NEW a \in Amounts,
             CreateInvoice(i, a) \/ UpdateInvoice(i, a)
      PROVE  ExactAccounts(j)'
  <2>1. /\ Others(i) /\ UNCHANGED <<payouts, refunds>>
        /\ row[i].status \in {"Absent", "Waiting"} /\ row'[i].status = "Waiting"
    BY <1>7, CreateBooks, UpdateBooks
  <2>2. CASE i = j
    BY <1>6, <2>1, <2>2 DEF SettlementsAreLate
  <2> QED
    BY <1>4, <2>1, <2>2
<1>8. ASSUME NEW i \in Invoices, CancelUpdates(i)
      PROVE  ExactAccounts(j)'
  <2>1. /\ Others(i) /\ UNCHANGED <<payouts, refunds>>
        /\ row[i].status \in InvoiceActive \cup {"AdminCanceled"}
        /\ row'[i].status = "AdminCanceled"
    BY <1>8, CancelBooks
  <2>2. CASE i = j
    BY <1>6, <2>1, <2>2 DEF SettlementsAreLate, InvoiceCanceled
  <2> QED
    BY <1>4, <2>1, <2>2
<1>9. ASSUME NEW p \in Procs, StoreCommits(p)
      PROVE  ExactAccounts(j)'
  <2>1. proc[p].id \in Invoices /\ Others(proc[p].id)
    BY <1>9, StoreBooks
  <2>2. CASE proc[p].id = j
    BY <1>1, <1>9, <2>2, StoreExact
  <2> QED
    BY <1>4, <2>1, <2>2
<1>10. CASE ExpireCommits
  <2>1. proc["expirer"].id \in Invoices /\ Others(proc["expirer"].id)
    BY <1>10, ExpireBooks
  <2>2. CASE proc["expirer"].id = j
    BY <1>1, <1>10, <2>2, ExpireExact
  <2> QED
    BY <1>4, <2>1, <2>2
<1> QED
  BY <1>5, <1>7, <1>8, <1>9, <1>10, BooksStep

(* As long as every settlement of an invoice was made from an up-to-date   *)
(* snapshot, what the recorder and the expiration detector ordered for it  *)
(* is exact, for every amount and every pair of tolerances.                *)
THEOREM SerialMeansExactAlways == Spec => []SerialMeansExact
<1>1. Init => SerialMeansExact
  BY DEF Init, DbInit, SerialMeansExact, ExactAccounts
<1>2. TypeInv /\ SettlementsAreLate /\ SerialMeansExact /\ [Next]_vars
        => SerialMeansExact'
  BY ExactStep
<1> QED
  BY <1>1, <1>2, TypeInvariant, SettlementsAlways, PTL DEF Spec

-----------------------------------------------------------------------------
(* What is recorded for an invoice never gets less.                        *)
LEMMA ReceivedGrows ==
  ASSUME TypeInv, [Next]_vars, NEW j \in Invoices
  PROVE  /\ received[j] \in Nat /\ received'[j] \in Nat
         /\ received[j] <= received'[j]
<1>1. received[j] \in Nat /\ received'[j] \in Nat
  BY NextType DEF TypeInv, TypeOK, DbTypeOK
<1>2. CASE received'[j] = received[j]
  BY <1>1, <1>2
<1>3. ASSUME NEW p \in Procs, StoreCommits(p)
      PROVE  received[j] <= received'[j]
  <2>1. CASE proc[p].id = j
    <3>1. received'[j] = received[j] + AmountOf[Tx(p)]
      BY <1>3, <2>1, StoreBooks
    <3>2. AmountOf[Tx(p)] \in Nat
      BY <1>3, TxFacts DEF StoreCommits, TypeInv
    <3> QED
      BY <1>1, <3>1, <3>2
  <2>2. CASE proc[p].id # j
    BY <1>2, <1>3, <2>2, StoreBooks DEF Others
  <2> QED
    BY <2>1, <2>2
<1>4. CASE BooksUnchanged \/ ExpireCommits
  BY <1>2, <1>4, ExpireBooks DEF BooksUnchanged
<1>5. ASSUME NEW i \in Invoices, NEW a \in Amounts,
             CreateInvoice(i, a) \/ UpdateInvoice(i, a)
      PROVE  received[j] <= received'[j]
  BY <1>2, <1>5, CreateBooks, UpdateBooks
<1>6. ASSUME NEW i \in Invoices, CancelUpdates(i)
      PROVE  received[j] <= received'[j]
  BY <1>2, <1>6, CancelBooks
<1> QED
  BY <1>1, <1>3, <1>4, <1>5, <1>6, BooksStep

(* Where an entry of the registry, or one about to be added, comes from.   *)
RegistryFrom(i) ==
  \/ registry'[i] = registry[i]
  \/ registry'[i] = Untracked
  \/ creating[i] # Untracked /\ registry'[i] = creating[i]
  \/ registry'[i].total = received[i]
  \/ \E p \in Procs : /\ proc[p] # Idle /\ proc[p].id = i
                       /\ registry'[i].total = proc[p].copy.total

CreatingFrom(i) ==
  \/ creating'[i] = creating[i]
  \/ creating'[i] = Untracked
  \/ creating'[i].total = 0

(* Where the snapshot of a task comes from.                                *)
SnapshotFrom(p) ==
  \/ proc'[p] = Idle
  \/ /\ proc[p] # Idle
     /\ proc'[p].id = proc[p].id
     /\ proc'[p].copy.total = proc[p].copy.total
  \/ /\ Tracked(proc'[p].id)
     /\ proc'[p].copy = registry[proc'[p].id]
  \/ proc'[p].copy.total = received[proc'[p].id]
  \/ StoreCommits(p)

(* A step of a task other than the commit of the recorder.                 *)
LEMMA TaskSources ==
  ASSUME TypeInv, [Next]_vars, NEW p \in Procs
  PROVE  SnapshotFrom(p)
<1>0. /\ "expirer" \in Procs /\ "swaps" \in Procs /\ "tracker" \in Procs
      /\ proc \in [Procs -> Busy \cup {Idle}]
      /\ TypeOK /\ WellFormed /\ ProcTypeOK
  BY DEF Procs, Checkers, TypeInv, TypeOK, ProcTypeOK
<1>1. ASSUME proc'[p] = proc[p]
      PROVE  SnapshotFrom(p)
  BY <1>1 DEF SnapshotFrom
<1>2. ASSUME proc'[p] = Idle
      PROVE  SnapshotFrom(p)
  BY <1>2 DEF SnapshotFrom
<1>3. CASE UNCHANGED vars
  BY <1>1, <1>3 DEF vars
<1>4. ASSUME Restart
      PROVE  SnapshotFrom(p)
  BY <1>2, <1>4 DEF Restart
<1>5. ASSUME NEW q \in Procs, RecorderNext(q)
      PROVE  SnapshotFrom(p)
  <2>1. CASE StorePanics(q)
    BY <1>4, <2>1 DEF StorePanics
  <2>2. CASE StoreCommits(q)
    <3>1. CASE p = q
      BY <2>2, <3>1 DEF SnapshotFrom
    <3>2. CASE p # q
      BY <1>0, <1>1, <2>2, <3>2 DEF StoreCommits
    <3> QED
      BY <3>1, <3>2
  <2>3. CASE /\ proc[q].pc \in {"store", "registry"}
             /\ proc' = [proc EXCEPT ![q] = AfterTransaction(q)]
    <3>1. CASE p = q
      <4>1. proc'[p] = AfterTransaction(p) /\ proc[p] # Idle
        BY <1>0, <2>3, <3>1 DEF Idle
      <4>2. AfterTransaction(p) # Idle =>
              /\ AfterTransaction(p).id = proc[p].id
              /\ AfterTransaction(p).copy = proc[p].copy
        BY <1>0, <2>3, <3>1, AfterTransactionFacts
      <4> QED
        BY <1>2, <4>1, <4>2 DEF SnapshotFrom
    <3>2. CASE p # q
      BY <1>0, <1>1, <2>3, <3>2
    <3> QED
      BY <3>1, <3>2
  <2> QED
    BY <1>5, <2>1, <2>2, <2>3
       DEF RecorderNext, RecorderStep, StoreRefused, StoreFails, UpdateRegistry
<1>6. CASE TrackerNext
  <2>1. CASE ReceiveTransfer
    <3> DEFINE i == InvoiceOf[Head(stream)]
    <3>1. CASE Tracked(i) /\ p = "tracker"
      <4>1. proc'[p].id = i /\ proc'[p].copy = registry[i]
        BY <1>0, <2>1, <3>1 DEF ReceiveTransfer
      <4> QED
        BY <3>1, <4>1 DEF SnapshotFrom
    <3>2. CASE ~(Tracked(i) /\ p = "tracker")
      BY <1>0, <1>1, <2>1, <3>2 DEF ReceiveTransfer
    <3> QED
      BY <3>1, <3>2
  <2>2. CASE Subscribe \/ StreamBreaks
    BY <1>1, <2>2 DEF Subscribe, StreamBreaks, recorderVars
  <2> QED
    BY <1>6, <2>1, <2>2 DEF TrackerNext, TrackerStep
<1>7. ASSUME NEW q \in Checkers, CheckerNext(q)
      PROVE  SnapshotFrom(p)
  <2>0. q \in Procs
    BY DEF Procs
  <2>1. CASE p # q
    BY <1>0, <1>1, <1>7, <2>0, <2>1
       DEF CheckerNext, CheckStep, CheckFails, GetAccountBalance,
           GetIncomingTransactions
  <2>2. CASE p = q /\ CheckFails(q)
    BY <1>0, <1>2, <2>2 DEF CheckFails
  <2>3. CASE p = q /\ (GetAccountBalance(q) \/ GetIncomingTransactions(q))
    <3>1. proc[p].pc \in {"balance", "indexer"}
      BY <2>3 DEF GetAccountBalance, GetIncomingTransactions
    <3>2. proc[p] \in Busy /\ proc[p] # Idle
      BY <1>0, <3>1, BusyRecord DEF BusyPc
    <3>3. PICK list, pc :
            \/ proc' = [proc EXCEPT ![p] = [proc[p] EXCEPT !.pc = pc]]
            \/ proc' = [proc EXCEPT ![p] =
                          [proc[p] EXCEPT !.list = list, !.pc = pc]]
      <4>1. CASE GetAccountBalance(p)
        BY <4>1 DEF GetAccountBalance
      <4>2. CASE GetIncomingTransactions(p)
        <5>1. PICK list \in IndexedTransfers(proc[p].id) :
                proc' = [proc EXCEPT ![p] = [proc[p] EXCEPT !.list = list, !.pc =
                           IF \/ list = <<>>
                              \/ TotalAmount(list) = proc[p].copy.total
                             THEN "checked" ELSE "store"]]
          BY <4>2 DEF GetIncomingTransactions
        <5> DEFINE pc == IF \/ list = <<>>
                            \/ TotalAmount(list) = proc[p].copy.total
                           THEN "checked" ELSE "store"
        <5>2. proc' = [proc EXCEPT ![p] = [proc[p] EXCEPT !.list = list, !.pc = pc]]
          BY <5>1
        <5> HIDE DEF pc
        <5> QED
          BY <5>2, Zenon
      <4> QED
        BY <2>3, <4>1, <4>2
    <3>4. proc'[p].id = proc[p].id /\ proc'[p].copy = proc[p].copy
      BY <1>0, <3>2, <3>3 DEF Busy
    <3> QED
      BY <3>2, <3>4 DEF SnapshotFrom
  <2> QED
    BY <1>7, <2>1, <2>2, <2>3 DEF CheckerNext, CheckStep
<1>8. ASSUME NEW q \in Procs, NEW i \in Invoices, StartCheck(q, i)
      PROVE  SnapshotFrom(p)
  <2>1. CASE p # q
    BY <1>0, <1>1, <1>8, <2>1 DEF StartCheck
  <2>2. CASE p = q
    <3>1. proc'[p].id = i /\ proc'[p].copy = Snapshot(i)
      BY <1>0, <1>8, <2>2 DEF StartCheck
    <3> QED
      BY <3>1 DEF Snapshot, SnapshotFrom, get_invoice_with_received_amount_by_id
  <2> QED
    BY <2>1, <2>2
<1>9. CASE DetectorNext
  <2>1. CASE FetchExpired
    BY <1>1, <2>1 DEF FetchExpired, recorderVars
  <2>2. CASE \E i \in Invoices : CheckExpired(i)
    BY <1>0, <1>8, <2>2 DEF CheckExpired
  <2>3. CASE ExpireRefused \/ ExpireFails \/ Unregister
    BY <1>0, <1>1, <1>2, <2>3 DEF ExpireRefused, ExpireFails, Unregister
  <2>4. CASE ExpireCommits
    <3>1. CASE p # "expirer"
      BY <1>0, <1>1, <2>4, <3>1 DEF ExpireCommits
    <3>2. CASE p = "expirer"
      <4>1. proc[p].pc = "checked" /\ proc[p] \in Busy /\ proc[p] # Idle
        BY <1>0, <2>4, <3>2, BusyRecord DEF ExpireCommits, BusyPc
      <4>2. proc' = [proc EXCEPT ![p] = [proc[p] EXCEPT !.pc = "unregister"]]
        BY <2>4, <3>2 DEF ExpireCommits
      <4>3. proc'[p].id = proc[p].id /\ proc'[p].copy = proc[p].copy
        BY <1>0, <4>1, <4>2 DEF Busy
      <4> QED
        BY <4>1, <4>3 DEF SnapshotFrom
    <3> QED
      BY <3>1, <3>2
  <2> QED
    BY <1>9, <2>1, <2>2, <2>3, <2>4 DEF DetectorNext, DetectorStep
<1>10. CASE SwapsNext \/ \E i \in SwapInvoices : SwapExecuted(i)
  <2>1. CASE SwapsNext
    BY <1>0, <1>1, <1>2, <2>1 DEF SwapsNext, SwapCheckDone
  <2> QED
    BY <1>0, <1>8, <1>10, <2>1, SwapsAssumption DEF SwapExecuted
<1>11. ASSUME NEW i \in Invoices, ApiNext(i)
       PROVE  SnapshotFrom(p)
  BY <1>11, <1>1 DEF ApiNext, ApiStep, ApiRequest, CancelStep, RegisterInvoice,
       CancelUpdates, CancelNotifies, CancelRefused, CancelFails,
       CancelRemoves, InitiatePayout, PayoutStep, CreateManualPayout,
       InitiatePayoutFails,
       CreateInvoice, UpdateInvoice, recorderVars
<1>12. CASE OutsideNext
  BY <1>12, <1>1 DEF OutsideNext, TransferLands, Lapse, recorderVars
<1> QED
  BY <1>3, <1>4, <1>5, <1>6, <1>7, <1>9, <1>10, <1>11, <1>12 DEF Next, Crash

(* The two sources of what is on its way into, and in, the registry.       *)
LEMMA RegistrySources ==
  ASSUME TypeInv, [Next]_vars, NEW j \in Invoices
  PROVE  RegistryFrom(j) /\ CreatingFrom(j)
<1>0. /\ registry \in [Invoices -> InvoiceWithReceivedAmount \cup {Untracked}]
      /\ creating \in [Invoices -> InvoiceWithReceivedAmount \cup {Untracked}]
      /\ TypeOK /\ WellFormed /\ ProcTypeOK
  BY DEF TypeInv, TypeOK, RegistryTypeOK, AppTypeOK
<1>1. ASSUME registry'[j] = registry[j] \/ registry'[j] = Untracked
      PROVE  RegistryFrom(j)
  BY <1>1 DEF RegistryFrom
<1>2. ASSUME creating'[j] = creating[j] \/ creating'[j] = Untracked
      PROVE  CreatingFrom(j)
  BY <1>2 DEF CreatingFrom
<1>3. CASE UNCHANGED <<registry, creating>>
  BY <1>1, <1>2, <1>3
<1>4. ASSUME Restart
      PROVE  RegistryFrom(j) /\ CreatingFrom(j)
  <2>1. registry' = LoadedRegistry /\ creating'[j] = Untracked
    BY <1>4 DEF Restart
  <2>2. registry'[j].total = received[j] \/ registry'[j] = Untracked
    BY <2>1 DEF LoadedRegistry, get_invoice_with_received_amount_by_id
  <2> QED
    BY <1>1, <1>2, <2>1, <2>2 DEF RegistryFrom
<1>5. ASSUME NEW p \in Procs, UpdateRegistry(p)
      PROVE  RegistryFrom(j)
  <2>1. /\ proc[p].pc = "registry" /\ proc[p].id \in Invoices
        /\ proc[p] # Idle
    BY <1>0, <1>5, TxFacts DEF UpdateRegistry, Idle
  <2>2. CASE \/ remove_invoice(proc[p].id) \/ ~Tracked(proc[p].id)
             \/ proc[p].id # j
    BY <1>0, <1>1, <1>5, <2>1, <2>2
       DEF UpdateRegistry, remove_invoice, update_filled_amount
  <2>3. CASE /\ Tracked(proc[p].id) /\ proc[p].id = j
             /\ update_filled_amount(j, proc[p].copy.total, proc[p].copy.status)
    <3>1. registry[j] \in InvoiceWithReceivedAmount
      BY <1>0, <2>1, <2>3 DEF Tracked
    <3>2. registry'[j].total = proc[p].copy.total
      BY <1>0, <2>1, <2>3, <3>1 DEF update_filled_amount, InvoiceWithReceivedAmount
    <3> QED
      BY <2>1, <2>3, <3>2 DEF RegistryFrom
  <2> QED
    BY <1>5, <2>2, <2>3 DEF UpdateRegistry
<1>6. ASSUME NEW p \in Procs, RecorderNext(p)
      PROVE  RegistryFrom(j) /\ CreatingFrom(j)
  <2>1. CASE StorePanics(p)
    BY <1>4, <2>1 DEF StorePanics
  <2>2. CASE RecorderStep(p) /\ creating' = creating
    BY <1>1, <1>2, <1>5, <2>2 DEF RecorderStep, StoreCommits, StoreRefused,
                                  StoreFails
  <2> QED
    BY <1>6, <2>1, <2>2 DEF RecorderNext, appVars
<1>7. CASE TrackerNext
  BY <1>3, <1>7 DEF TrackerNext, TrackerStep, Subscribe, StreamBreaks,
       ReceiveTransfer, recorderVars, appVars
<1>8. ASSUME NEW p \in Checkers, CheckerNext(p)
      PROVE  RegistryFrom(j) /\ CreatingFrom(j)
  BY <1>3, <1>8 DEF CheckerNext, CheckStep, GetAccountBalance,
       GetIncomingTransactions, CheckFails, appVars
<1>9. CASE DetectorNext
  <2>1. CASE Unregister
    BY <1>0, <1>1, <1>2, <1>9, <2>1
       DEF Unregister, remove_invoice, DetectorNext, appVars
  <2> QED
    BY <1>3, <1>9, <2>1 DEF DetectorNext, DetectorStep, FetchExpired,
         CheckExpired, StartCheck, ExpireCommits, ExpireRefused, ExpireFails,
         recorderVars, appVars
<1>10. CASE SwapsNext \/ \E i \in SwapInvoices : SwapExecuted(i)
  BY <1>3, <1>10 DEF SwapsNext, SwapCheckDone, SwapExecuted, StartCheck, appVars
<1>11. ASSUME NEW i \in Invoices, ApiNext(i)
       PROVE  RegistryFrom(j) /\ CreatingFrom(j)
  <2>1. ASSUME NEW a \in Amounts, CreateInvoice(i, a)
        PROVE  RegistryFrom(j) /\ CreatingFrom(j)
    BY <1>0, <1>1, <2>1 DEF CreateInvoice, CreatingFrom
  <2>2. CASE RegisterInvoice(i)
    BY <1>0, <1>2, <2>2
       DEF RegisterInvoice, add_invoice, RegistryFrom
  <2>3. CASE CancelRemoves(i)
    BY <1>0, <1>1, <1>2, <2>3 DEF CancelRemoves, remove_invoice
  <2>4. CASE InitiatePayout(i) \/ PayoutStep(i)
    BY <1>3, <2>4, ByHandOnly DEF recorderVars
  <2> QED
    BY <1>3, <1>11, <2>1, <2>2, <2>3, <2>4 DEF ApiNext, ApiStep, ApiRequest,
         CancelStep, CancelUpdates, CancelNotifies, CancelRefused, CancelFails,
         UpdateInvoice, recorderVars, appVars
<1>12. CASE OutsideNext
  BY <1>3, <1>12 DEF OutsideNext, TransferLands, Lapse, recorderVars, appVars
<1>13. CASE UNCHANGED vars
  BY <1>3, <1>13 DEF vars
<1> QED
  BY <1>4, <1>6, <1>7, <1>8, <1>9, <1>10, <1>11, <1>12, <1>13 DEF Next, Crash

(* TotalsAreBacked is kept by every step.                                  *)
LEMMA BackedStep ==
  ASSUME TypeInv, TotalsAreBacked, [Next]_vars
  PROVE  TotalsAreBacked'
<1>0. /\ TypeOK /\ WellFormed /\ TypeOK'
      /\ \A r \in InvoiceWithReceivedAmount : r.total \in Nat
      /\ \A b \in Busy : b.id \in Invoices /\ b.copy \in InvoiceWithReceivedAmount
      /\ \A j \in Invoices : /\ received[j] \in Nat /\ received'[j] \in Nat
                             /\ received[j] <= received'[j]
  BY NextType, ReceivedGrows
     DEF TypeInv, InvoiceWithReceivedAmount, Busy
<1>1. ASSUME NEW j \in Invoices, Tracked(j)'
      PROVE  registry'[j].total <= received'[j]
  <2>1. RegistryFrom(j) /\ registry'[j] # Untracked
    BY <1>1, RegistrySources DEF Tracked
  <2>2. registry'[j] \in InvoiceWithReceivedAmount
    BY <1>0, <2>1 DEF TypeOK, RegistryTypeOK
  <2>3. registry'[j].total <= received[j]
    BY <1>0, <2>1 DEF RegistryFrom, TotalsAreBacked, Tracked
  <2> QED
    BY <1>0, <2>2, <2>3
<1>2. ASSUME NEW j \in Invoices, creating'[j] # Untracked
      PROVE  creating'[j].total <= received'[j]
  <2>1. CreatingFrom(j)
    BY RegistrySources
  <2>2. creating'[j] \in InvoiceWithReceivedAmount
    BY <1>0, <1>2 DEF TypeOK, AppTypeOK
  <2>3. creating'[j].total <= received[j]
    BY <1>0, <1>2, <2>1 DEF CreatingFrom, TotalsAreBacked
  <2> QED
    BY <1>0, <2>2, <2>3
<1>3. ASSUME NEW p \in Procs, proc'[p] # Idle
      PROVE  proc'[p].copy.total <= received'[proc'[p].id]
  <2>1. /\ proc'[p] \in Busy /\ proc'[p].id \in Invoices
        /\ proc'[p].copy \in InvoiceWithReceivedAmount
        /\ proc'[p].copy.total \in Nat
    BY <1>0, <1>3 DEF TypeOK, ProcTypeOK
  <2>2. CASE StoreCommits(p)
    <3>1. /\ proc[p].pc = "store" /\ proc[p] \in Busy /\ proc[p] # Idle
          /\ AmountOf[Tx(p)] \in Nat
      BY <1>0, <2>2, BusyRecord, TxFacts DEF StoreCommits, TypeOK, BusyPc
    <3>2. /\ proc'[p].id = proc[p].id
          /\ proc'[p].copy.total = UpdatedReceivedAmount(p)
      <4>1. proc' = [proc EXCEPT ![p].pc = "registry",
                                 ![p].copy.status = UpdatedStatus(p),
                                 ![p].copy.total = UpdatedReceivedAmount(p)]
        BY <2>2 DEF StoreCommits
      <4>2. proc \in [Procs -> Busy \cup {Idle}]
        BY <1>0 DEF TypeOK, ProcTypeOK
      <4> QED
        BY <3>1, <4>1, <4>2 DEF Busy, InvoiceWithReceivedAmount
    <3>3. received'[proc[p].id] = received[proc[p].id] + AmountOf[Tx(p)]
      BY <2>2, StoreBooks
    <3>4. proc[p].copy.total <= received[proc[p].id]
      BY <3>1 DEF TotalsAreBacked
    <3>5. proc[p].copy.total \in Nat /\ received[proc[p].id] \in Nat
      BY <1>0, <3>1
    <3> QED
      BY <3>1, <3>2, <3>3, <3>4, <3>5 DEF UpdatedReceivedAmount
  <2>3. CASE ~StoreCommits(p)
    <3>1. proc'[p].copy.total <= received[proc'[p].id]
      BY <1>0, <1>3, <2>1, <2>3, TaskSources DEF SnapshotFrom, TotalsAreBacked
    <3> QED
      BY <1>0, <2>1, <3>1
  <2> QED
    BY <2>2, <2>3
<1> QED
  BY <1>1, <1>2, <1>3 DEF TotalsAreBacked

(* No snapshot anywhere in the daemon counts money that is not in the      *)
(* database, whatever the order in which the recorder writes the database  *)
(* and the registry.                                                       *)
THEOREM TotalsAreBackedAlways == Spec => []TotalsAreBacked
<1>1. Init => TotalsAreBacked
  BY DEF Init, AppInit, TotalsAreBacked, Tracked
<1>2. TypeInv /\ TotalsAreBacked /\ [Next]_vars => TotalsAreBacked'
  BY BackedStep
<1> QED
  BY <1>1, <1>2, TypeInvariant, PTL DEF Spec

-----------------------------------------------------------------------------
(* The events.                                                             *)

(* A cancellation that has updated the row has canceled the invoice, and   *)
(* nothing undoes that.                                                    *)
UpdatedIsCanceled ==
  \A i \in Invoices : canceling[i] = "updated" => row[i].status = "AdminCanceled"

(* An event e is among the events of s, and what may come after it.        *)
Told(s, e) == \E k \in DOMAIN s : s[k] = e

Followed(s, e, later) ==
  \A j, k \in DOMAIN s : s[j] = e /\ j < k => s[k] \in later

(* EventsTell for an invoice with the events s and the status st, paid if  *)
(* a transfer is recorded for it; and a waiting invoice was not told to be *)
(* partially paid, so that an update cannot follow.                        *)
Tells(s, st, paid) ==
  /\ Told(s, "Created") <=> st # "Absent"
  /\ Told(s, "Paid") <=> st \in InvoiceFinal
  /\ Told(s, "Expired") <=> st \in InvoiceExpired
  /\ Told(s, "AdminCanceled") => st = "AdminCanceled"
  /\ Told(s, "PartiallyPaid") => paid
  /\ Told(s, "PartiallyPaid") => st \notin {"Absent", "Waiting"}
  /\ Followed(s, "Paid", {"Paid"})
  /\ Followed(s, "Expired", {})
  /\ Followed(s, "AdminCanceled", {"AdminCanceled"})
  /\ Followed(s, "PartiallyPaid", EventType \ {"Created", "Updated"})

Funded(i) == \E t \in recorded : InvoiceOf[t] = i

(* The inductive invariant behind EventsTell.                              *)
EventsInv ==
  /\ UpdatedIsCanceled
  /\ \A i \in Invoices : Tells(events[i], row[i].status, Funded(i))

(* What an event at the end of the list changes.                           *)
LEMMA AppendTold ==
  ASSUME NEW s \in Seq(EventType), NEW x \in EventType
  PROVE  /\ Append(s, x) \in Seq(EventType)
         /\ \A e : Told(Append(s, x), e) <=> Told(s, e) \/ x = e
         /\ \A e, later : Followed(s, e, later) /\ (Told(s, e) => x \in later)
                            => Followed(Append(s, x), e, later)
<1> DEFINE n == Append(s, x)
<1>1. /\ n \in Seq(EventType)
      /\ Len(s) \in Nat /\ DOMAIN s = 1 .. Len(s) /\ DOMAIN n = 1 .. Len(s) + 1
      /\ \A k \in 1 .. Len(s) : n[k] = s[k]
      /\ n[Len(s) + 1] = x
  OBVIOUS
<1> HIDE DEF n
<1>2. \A e : Told(n, e) <=> Told(s, e) \/ x = e
  BY <1>1 DEF Told
<1>3. ASSUME NEW e, NEW later, Followed(s, e, later), Told(s, e) => x \in later
      PROVE  Followed(n, e, later)
  <2> SUFFICES ASSUME NEW j \in DOMAIN n, NEW k \in DOMAIN n, n[j] = e, j < k
               PROVE  n[k] \in later
    BY DEF Followed
  <2>1. j \in DOMAIN s /\ s[j] = e
    BY <1>1
  <2>2. CASE k \in DOMAIN s
    BY <1>1, <1>3, <2>1, <2>2 DEF Followed
  <2>3. CASE k = Len(s) + 1
    BY <1>1, <1>3, <2>1, <2>3 DEF Told
  <2> QED
    BY <1>1, <2>2, <2>3
<1> QED
  BY <1>1, <1>2, <1>3 DEF n

(* The events an invoice may get, by its status before and after.          *)
LEMMA AppendTells ==
  ASSUME NEW s \in Seq(EventType), NEW x \in EventType,
         NEW st \in InvoiceStatus \cup {"Absent"}, NEW new \in InvoiceStatus,
         NEW paid \in BOOLEAN, NEW late \in BOOLEAN,
         Tells(s, st, paid), paid => late,
         \/ x = "Created" /\ st = "Absent" /\ new = "Waiting"
         \/ x = "Updated" /\ st = "Waiting" /\ new = "Waiting"
         \/ x = "PartiallyPaid" /\ st \in InvoiceActive /\ new = "PartiallyPaid" /\ late
         \/ x = "Paid" /\ st \in InvoiceActive \cup {new} /\ new \in InvoiceFinal
         \/ x = "Expired" /\ st \in InvoiceActive /\ new \in InvoiceExpired
         \/ x = "AdminCanceled" /\ st = "AdminCanceled" /\ new = "AdminCanceled"
  PROVE  Tells(Append(s, x), new, late)
<1> DEFINE n == Append(s, x)
<1> USE DEF InvoiceStatus, InvoiceActive, InvoiceFinal, InvoiceExpired, InvoiceCanceled
<1>1. /\ \A e : Told(n, e) <=> Told(s, e) \/ x = e
      /\ \A e, later : Followed(s, e, later) /\ (Told(s, e) => x \in later)
                         => Followed(n, e, later)
  BY AppendTold
<1> HIDE DEF n
<1>2. /\ Told(n, "Created") <=> new # "Absent"
      /\ Told(n, "Paid") <=> new \in InvoiceFinal
      /\ Told(n, "Expired") <=> new \in InvoiceExpired
  BY <1>1 DEF Tells
<1>3. /\ Told(n, "AdminCanceled") => new = "AdminCanceled"
      /\ Told(n, "PartiallyPaid") => late
      /\ Told(n, "PartiallyPaid") => new \notin {"Absent", "Waiting"}
  BY <1>1 DEF Tells
<1>4. /\ Followed(n, "Paid", {"Paid"})
      /\ Followed(n, "Expired", {})
      /\ Followed(n, "AdminCanceled", {"AdminCanceled"})
  BY <1>1 DEF Tells
<1>5. Followed(n, "PartiallyPaid", EventType \ {"Created", "Updated"})
  BY <1>1 DEF Tells, EventType
<1> QED
  BY <1>2, <1>3, <1>4, <1>5 DEF Tells, n

(* Without a new event only a cancellation changes the status.             *)
LEMMA SilentTells ==
  ASSUME NEW s, NEW st \in InvoiceStatus \cup {"Absent"}, NEW new,
         NEW paid \in BOOLEAN, Tells(s, st, paid),
         \/ new = st
         \/ st \in InvoiceActive /\ new = "AdminCanceled"
  PROVE  Tells(s, new, paid)
BY DEF Tells, InvoiceActive, InvoiceFinal, InvoiceExpired

(* Which steps add an event, change a status or record a transfer.         *)
LEMMA EventsStep ==
  ASSUME TypeInv, [Next]_vars
  PROVE  \/ /\ UNCHANGED <<events, recorded>>
            /\ \A i \in Invoices :
                 /\ row'[i].status = row[i].status
                 /\ canceling'[i] = "updated" => canceling[i] = "updated"
         \/ \E i \in Invoices, a \in Amounts : CreateInvoice(i, a)
         \/ \E i \in Invoices, a \in Amounts : UpdateInvoice(i, a)
         \/ \E i \in Invoices : CancelUpdates(i) \/ CancelNotifies(i)
         \/ \E p \in Procs : StoreCommits(p) /\ UNCHANGED canceling
         \/ ExpireCommits /\ UNCHANGED canceling
<1> DEFINE Quiet == /\ UNCHANGED <<events, recorded>>
                    /\ \A i \in Invoices :
                         /\ row'[i].status = row[i].status
                         /\ canceling'[i] = "updated" => canceling[i] = "updated"
<1>1. ASSUME UNCHANGED <<events, recorded, row, canceling>>
      PROVE  Quiet
  BY <1>1
<1>2. ASSUME Restart
      PROVE  Quiet
  BY <1>2 DEF Restart, dbVars
<1>3. ASSUME NEW p \in Procs, RecorderNext(p), ~(StoreCommits(p) /\ UNCHANGED canceling)
      PROVE  Quiet
  <2>1. CASE StorePanics(p)
    BY <1>2, <2>1 DEF StorePanics
  <2> HIDE DEF Quiet
  <2> QED
    BY <1>1, <1>3, <2>1 DEF RecorderNext, RecorderStep, StoreRefused, StoreFails,
         UpdateRegistry, dbVars, appVars
<1> HIDE DEF Quiet
<1>4. CASE TrackerNext
  BY <1>1, <1>4 DEF TrackerNext, TrackerStep, Subscribe, StreamBreaks,
       ReceiveTransfer, recorderVars, dbVars, appVars
<1>5. ASSUME NEW p \in Checkers, CheckerNext(p)
      PROVE  Quiet
  BY <1>1, <1>5 DEF CheckerNext, CheckStep, GetAccountBalance,
       GetIncomingTransactions, CheckFails, dbVars, appVars
<1>6. CASE DetectorNext /\ ~(ExpireCommits /\ UNCHANGED canceling)
  BY <1>1, <1>6 DEF DetectorNext, DetectorStep, FetchExpired, CheckExpired,
       StartCheck, ExpireRefused, ExpireFails, Unregister, recorderVars, dbVars,
       appVars
<1>7. CASE SwapsNext \/ \E i \in SwapInvoices : SwapExecuted(i)
  BY <1>1, <1>7 DEF SwapsNext, SwapCheckDone, SwapExecuted, StartCheck, dbVars,
       appVars
<1>8. ASSUME NEW i \in Invoices, ApiNext(i)
      PROVE  \/ Quiet
             \/ \E a \in Amounts : CreateInvoice(i, a) \/ UpdateInvoice(i, a)
             \/ CancelUpdates(i) \/ CancelNotifies(i)
  <2>1. CASE RegisterInvoice(i)
    BY <1>1, <2>1 DEF RegisterInvoice, dbVars
  <2>2. CASE CancelRefused(i) \/ CancelFails(i) \/ CancelRemoves(i)
    <3>1. PICK c \in {"no", "removed"} :
            /\ UNCHANGED <<events, recorded, row>>
            /\ canceling' = [canceling EXCEPT ![i] = c]
      BY <2>2 DEF CancelRefused, CancelFails, CancelRemoves, recorderVars, dbVars
    <3>2. canceling \in [Invoices -> {"no", "removed", "updated"}]
      BY DEF TypeInv, TypeOK, AppTypeOK
    <3> QED
      BY <3>1, <3>2 DEF Quiet
  <2>3. CASE InitiatePayout(i) \/ PayoutStep(i)
    BY <1>1, <2>3, ByHandOnly DEF recorderVars
  <2> QED
    BY <1>8, <2>1, <2>2, <2>3 DEF ApiNext, ApiStep, ApiRequest, CancelStep
<1>9. CASE OutsideNext
  <2>1. ASSUME NEW t \in Transfers, TransferLands(t), UNCHANGED appVars
        PROVE  Quiet
    BY <1>1, <2>1 DEF TransferLands, recorderVars, appVars
  <2>2. ASSUME NEW i \in Invoices, Lapse(i), UNCHANGED appVars
        PROVE  Quiet
    BY <2>2 DEF Lapse, TypeInv, TypeOK, DbTypeOK, appVars, Quiet
  <2> QED
    BY <1>9, <2>1, <2>2 DEF OutsideNext, Quiet
<1>10. CASE Crash
  BY <1>2, <1>10 DEF Crash, Quiet
<1>11. CASE UNCHANGED vars
  BY <1>1, <1>11 DEF vars
<1> QED
  BY <1>3, <1>4, <1>5, <1>6, <1>7, <1>8, <1>9, <1>10, <1>11 DEF Next, Quiet

(* EventsInv is kept by every step.                                        *)
LEMMA EventsInvStep ==
  ASSUME TypeInv, OneExpiry, EventsInv, [Next]_vars
  PROVE  EventsInv'
<1> USE DEF InvoiceStatus, InvoiceActive, InvoiceFinal, InvoiceExpired, InvoiceCanceled
<1>0. /\ events \in [Invoices -> Seq(EventType)]
      /\ canceling \in [Invoices -> {"no", "removed", "updated"}]
      /\ \A j \in Invoices : /\ row[j].status \in InvoiceStatus \cup {"Absent"}
                             /\ Funded(j) \in BOOLEAN
                             /\ Tells(events[j], row[j].status, Funded(j))
                             /\ canceling[j] = "updated" => row[j].status = "AdminCanceled"
      /\ "Created" \in EventType /\ "Updated" \in EventType /\ "Paid" \in EventType
      /\ "PartiallyPaid" \in EventType /\ "Expired" \in EventType
      /\ "AdminCanceled" \in EventType
  BY DEF TypeInv, TypeOK, DbTypeOK, AppTypeOK, EventsInv, UpdatedIsCanceled,
         EventType, Funded
<1>1. SUFFICES ASSUME NEW j \in Invoices
               PROVE  /\ Tells(events'[j], row'[j].status, Funded(j)')
                      /\ canceling'[j] = "updated" => row'[j].status = "AdminCanceled"
  BY DEF EventsInv, UpdatedIsCanceled
<1> DEFINE Kept == /\ Tells(events'[j], row'[j].status, Funded(j)')
                   /\ canceling'[j] = "updated" => row'[j].status = "AdminCanceled"
<1>2. ASSUME events'[j] = events[j], row'[j].status = row[j].status,
             recorded' = recorded, canceling'[j] = "updated" => canceling[j] = "updated"
      PROVE  Kept
  BY <1>0, <1>2 DEF Funded
<1>3. ASSUME NEW i \in Invoices, NEW x \in EventType, create_webhook_event(i, x)
      PROVE  /\ events'[i] = Append(events[i], x)
             /\ i # j => events'[j] = events[j]
  BY <1>0, <1>3 DEF create_webhook_event
<1>4. ASSUME NEW i \in Invoices, NEW a \in Amounts, CreateInvoice(i, a)
      PROVE  Kept
  <2>1. /\ Others(i) /\ row[i].status = "Absent" /\ row'[i].status = "Waiting"
        /\ create_webhook_event(i, "Created")
        /\ UNCHANGED <<recorded, canceling>>
    BY <1>4, CreateBooks DEF CreateInvoice
  <2>2. CASE i = j
    <3>1. Tells(Append(events[j], "Created"), "Waiting", Funded(j))
      BY <1>0, <2>1, <2>2, AppendTells
    <3> QED
      BY <1>0, <1>3, <2>1, <2>2, <3>1 DEF Funded
  <2>3. CASE i # j
    BY <1>0, <1>2, <1>3, <2>1, <2>3 DEF Others
  <2> QED
    BY <2>2, <2>3
<1>5. ASSUME NEW i \in Invoices, NEW a \in Amounts, UpdateInvoice(i, a)
      PROVE  Kept
  <2>1. /\ Others(i) /\ row[i].status = "Waiting" /\ row'[i].status = "Waiting"
        /\ create_webhook_event(i, "Updated")
        /\ UNCHANGED <<recorded, canceling>>
    BY <1>5, UpdateBooks DEF UpdateInvoice, appVars
  <2>2. CASE i = j
    <3>1. Tells(Append(events[j], "Updated"), "Waiting", Funded(j))
      BY <1>0, <2>1, <2>2, AppendTells
    <3> QED
      BY <1>0, <1>3, <2>1, <2>2, <3>1 DEF Funded
  <2>3. CASE i # j
    BY <1>0, <1>2, <1>3, <2>1, <2>3 DEF Others
  <2> QED
    BY <2>2, <2>3
<1>6. ASSUME NEW i \in Invoices, CancelUpdates(i)
      PROVE  Kept
  <2>1. /\ Others(i) /\ row[i].status \in InvoiceActive \cup {"AdminCanceled"}
        /\ row'[i].status = "AdminCanceled"
        /\ UNCHANGED <<recorded, events>>
        /\ canceling' = [canceling EXCEPT ![i] = "updated"]
    BY <1>6, CancelBooks DEF CancelUpdates
  <2>2. CASE i = j
    <3>1. Tells(events[j], "AdminCanceled", Funded(j))
      BY <1>0, <2>1, <2>2, SilentTells
    <3> QED
      BY <2>1, <2>2, <3>1 DEF Funded
  <2>3. CASE i # j
    BY <1>0, <1>2, <2>1, <2>3 DEF Others
  <2> QED
    BY <2>2, <2>3
<1>7. ASSUME NEW i \in Invoices, CancelNotifies(i)
      PROVE  Kept
  <2>1. /\ canceling[i] = "updated" /\ create_webhook_event(i, "AdminCanceled")
        /\ UNCHANGED <<row, recorded>>
        /\ canceling' = [canceling EXCEPT ![i] = "no"]
    BY <1>7 DEF CancelNotifies
  <2>2. CASE i = j
    <3>1. Tells(Append(events[j], "AdminCanceled"), "AdminCanceled", Funded(j))
      BY <1>0, <2>1, <2>2, AppendTells
    <3> QED
      BY <1>0, <1>3, <2>1, <2>2, <3>1 DEF Funded
  <2>3. CASE i # j
    BY <1>0, <1>2, <1>3, <2>1, <2>3
  <2> QED
    BY <2>2, <2>3
<1>8. ASSUME NEW p \in Procs, StoreCommits(p), UNCHANGED canceling
      PROVE  Kept
  <2> DEFINE i == proc[p].id
             s == UpdatedStatus(p)
             x == IF s = "PartiallyPaid" THEN "PartiallyPaid" ELSE "Paid"
  <2>1. /\ i \in Invoices /\ Others(i)
        /\ s \in {"PartiallyPaid", "Paid", "OverPaid"}
        /\ row[i].status \in InvoiceActive \cup {s}
        /\ s = "PartiallyPaid" => row[i].status \in InvoiceActive
        /\ row'[i].status = s
    BY <1>8, StoreBooks
  <2>2. create_webhook_event(i, x)
    BY <1>8, <2>1 DEF StoreCommits, Settle
  <2>3. /\ recorded' = recorded \cup {Tx(p)} /\ InvoiceOf[Tx(p)] = i
    BY <1>8, TxFacts DEF StoreCommits, create_transaction, TypeInv
  <2> HIDE DEF i, s
  <2>4. CASE i = j
    <3>1. Funded(j)' = TRUE /\ Funded(j)' \in BOOLEAN
      BY <2>3, <2>4 DEF Funded
    <3>2. Tells(Append(events[j], x), s, TRUE)
      BY <1>0, <2>1, <2>4, AppendTells
    <3>3. canceling[j] # "updated"
      BY <1>0, <2>1, <2>4
    <3> QED
      BY <1>0, <1>3, <1>8, <2>1, <2>2, <2>4, <3>1, <3>2, <3>3
  <2>5. CASE i # j
    <3>1. Funded(j)' = Funded(j)
      BY <2>3, <2>5 DEF Funded
    <3>2. events'[j] = events[j]
      BY <1>0, <1>3, <2>1, <2>2, <2>5
    <3> QED
      BY <1>0, <1>8, <2>1, <2>5, <3>1, <3>2 DEF Others
  <2> QED
    BY <2>4, <2>5
<1>9. ASSUME ExpireCommits, UNCHANGED canceling
      PROVE  Kept
  <2> DEFINE i == proc["expirer"].id
  <2>1. /\ i \in Invoices /\ Others(i)
        /\ row[i].status \in InvoiceActive \cup InvoiceExpired
        /\ row'[i].status \in InvoiceExpired
    BY <1>9, ExpireBooks
  <2>2. row[i].status \notin InvoiceExpired
    BY <1>9 DEF ExpireCommits, OneExpiry, Unfinished
  <2>3. create_webhook_event(i, "Expired") /\ UNCHANGED recorded
    BY <1>9 DEF ExpireCommits
  <2> HIDE DEF i
  <2>4. CASE i = j
    <3>1. Tells(Append(events[j], "Expired"), row'[j].status, Funded(j))
      BY <1>0, <2>1, <2>2, <2>4, AppendTells
    <3>2. canceling[j] # "updated"
      BY <1>0, <2>1, <2>2, <2>4
    <3> QED
      BY <1>0, <1>3, <1>9, <2>1, <2>3, <2>4, <3>1, <3>2 DEF Funded
  <2>5. CASE i # j
    BY <1>0, <1>2, <1>3, <1>9, <2>1, <2>3, <2>5 DEF Others
  <2> QED
    BY <2>4, <2>5
<1> QED
  BY <1>2, <1>4, <1>5, <1>6, <1>7, <1>8, <1>9, EventsStep

(* It holds always.                                                        *)
LEMMA EventsInvAlways == Spec => []EventsInv
<1>1. Init => EventsInv
  BY DEF Init, DbInit, AppInit, EventsInv, UpdatedIsCanceled, Tells, Told,
         Followed, Funded, InvoiceFinal, InvoiceExpired
<1>2. TypeInv /\ OneExpiry /\ EventsInv /\ [Next]_vars => EventsInv'
  BY EventsInvStep
<1> QED
  BY <1>1, <1>2, TypeInvariant, OneExpiryAlways, PTL DEF Spec

(* The events of an invoice tell its story, whatever the order of          *)
(* recording, expiring and canceling: each is written in the transaction   *)
(* of the status it announces, or, for a cancellation, after a status that *)
(* nothing undoes.                                                         *)
THEOREM EventsTellAlways == Spec => []EventsTell
<1>1. EventsInv => EventsTell
  BY DEF EventsInv, EventsTell, Tells, Told, Followed, Funded, Exists
<1> QED
  BY <1>1, EventsInvAlways, PTL

-----------------------------------------------------------------------------
(* The registry.                                                           *)

(* A task that is about to take its invoice out of the registry has closed *)
(* it.                                                                     *)
Closing(q) ==
  \/ q.pc = "unregister"
  \/ q.pc = "registry" /\ q.copy.status \in InvoiceFinal

ClosingIsClosed == \A p \in Procs : Closing(proc[p]) => ~Active(proc[p].id)

(* The inductive invariant behind ActiveIsMonitored.                       *)
MonitoredInv ==
  /\ budget["failure"] <= Budget["failure"]
  /\ ClosingIsClosed
  /\ ActiveIsMonitored

(* Only create_invoice makes an invoice active.                            *)
LEMMA WhoActivates ==
  ASSUME TypeInv, [Next]_vars, NEW j \in Invoices, Active(j)'
  PROVE  Active(j) \/ (~Exists(j) /\ \E a \in Amounts : CreateInvoice(j, a))
<1> USE DEF Active, InvoiceActive, InvoiceExpired
<1>1. ASSUME NEW i \in Invoices, Others(i), i # j
      PROVE  Active(j)
  BY <1>1 DEF Others
<1>2. CASE BooksUnchanged
  BY <1>2 DEF BooksUnchanged
<1>3. ASSUME NEW i \in Invoices, NEW a \in Amounts, CreateInvoice(i, a)
      PROVE  Active(j) \/ (~Exists(j) /\ \E b \in Amounts : CreateInvoice(j, b))
  BY <1>1, <1>3, CreateBooks DEF Exists
<1>4. ASSUME NEW i \in Invoices, NEW a \in Amounts, UpdateInvoice(i, a)
      PROVE  Active(j)
  BY <1>1, <1>4, UpdateBooks
<1>5. ASSUME NEW i \in Invoices, CancelUpdates(i)
      PROVE  Active(j)
  BY <1>1, <1>5, CancelBooks
<1>6. ASSUME NEW p \in Procs, StoreCommits(p)
      PROVE  Active(j)
  BY <1>1, <1>6, StoreBooks
<1>7. CASE ExpireCommits
  BY <1>1, <1>7, ExpireBooks
<1> QED
  BY <1>2, <1>3, <1>4, <1>5, <1>6, <1>7, BooksStep

(* Which steps make a task close its invoice.                              *)
ClosingFrom(p) ==
  Closing(proc'[p]) =>
    \/ Closing(proc[p]) /\ proc'[p].id = proc[p].id
    \/ StoreCommits(p)
    \/ ExpireCommits /\ p = "expirer"

(* Where a task that is about to unregister an invoice comes from.         *)
LEMMA ClosingSources ==
  ASSUME TypeInv, [Next]_vars, NEW p \in Procs
  PROVE  ClosingFrom(p)
<1>0. /\ "expirer" \in Procs /\ "swaps" \in Procs /\ "tracker" \in Procs
      /\ proc \in [Procs -> Busy \cup {Idle}]
      /\ TypeOK /\ WellFormed /\ ProcTypeOK
  BY DEF Procs, Checkers, TypeInv, TypeOK, ProcTypeOK
<1>1. ASSUME proc'[p] = proc[p]
      PROVE  ClosingFrom(p)
  BY <1>1 DEF ClosingFrom
<1>2. ASSUME proc'[p].pc \notin {"registry", "unregister"}
      PROVE  ClosingFrom(p)
  BY <1>2 DEF ClosingFrom, Closing
<1>3. ASSUME proc'[p] = Idle
      PROVE  ClosingFrom(p)
  BY <1>2, <1>3 DEF Idle
<1>4. ASSUME Restart
      PROVE  ClosingFrom(p)
  BY <1>3, <1>4 DEF Restart
<1>5. ASSUME NEW q \in Procs, RecorderNext(q)
      PROVE  ClosingFrom(p)
  <2>1. CASE StorePanics(q)
    BY <1>4, <2>1 DEF StorePanics
  <2>2. CASE StoreCommits(q)
    <3>1. CASE p = q
      BY <2>2, <3>1 DEF ClosingFrom
    <3>2. CASE p # q
      BY <1>0, <1>1, <2>2, <3>2 DEF StoreCommits
    <3> QED
      BY <3>1, <3>2
  <2>3. CASE /\ proc[q].pc \in {"store", "registry"}
             /\ proc' = [proc EXCEPT ![q] = AfterTransaction(q)]
    <3>1. CASE p = q
      <4>1. proc'[p] = AfterTransaction(p)
        BY <1>0, <2>3, <3>1
      <4>2. AfterTransaction(p) # Idle => AfterTransaction(p).pc \in {"store", "checked"}
        BY <1>0, <2>3, <3>1, AfterTransactionFacts
      <4> QED
        BY <1>2, <1>3, <4>1, <4>2
    <3>2. CASE p # q
      BY <1>0, <1>1, <2>3, <3>2
    <3> QED
      BY <3>1, <3>2
  <2> QED
    BY <1>5, <2>1, <2>2, <2>3
       DEF RecorderNext, RecorderStep, StoreRefused, StoreFails, UpdateRegistry
<1>6. CASE TrackerNext
  <2>1. CASE ReceiveTransfer
    <3> DEFINE i == InvoiceOf[Head(stream)]
    <3>1. CASE Tracked(i) /\ p = "tracker"
      BY <1>0, <1>2, <2>1, <3>1 DEF ReceiveTransfer
    <3>2. CASE ~(Tracked(i) /\ p = "tracker")
      BY <1>0, <1>1, <2>1, <3>2 DEF ReceiveTransfer
    <3> QED
      BY <3>1, <3>2
  <2>2. CASE Subscribe \/ StreamBreaks
    BY <1>1, <2>2 DEF Subscribe, StreamBreaks, recorderVars
  <2> QED
    BY <1>6, <2>1, <2>2 DEF TrackerNext, TrackerStep
<1>7. ASSUME NEW q \in Checkers, CheckerNext(q)
      PROVE  ClosingFrom(p)
  <2>0. q \in Procs
    BY DEF Procs
  <2>1. CASE p # q
    BY <1>0, <1>1, <1>7, <2>0, <2>1
       DEF CheckerNext, CheckStep, CheckFails, GetAccountBalance,
           GetIncomingTransactions
  <2>2. CASE p = q /\ CheckFails(q)
    BY <1>0, <1>3, <2>2 DEF CheckFails
  <2>3. CASE p = q /\ (GetAccountBalance(q) \/ GetIncomingTransactions(q))
    <3>1. proc[p].pc \in {"balance", "indexer"}
      BY <2>3 DEF GetAccountBalance, GetIncomingTransactions
    <3>2. proc[p] \in Busy
      BY <1>0, <3>1, BusyRecord DEF BusyPc
    <3>3. CASE GetAccountBalance(p)
      <4>1. PICK pc \in {"indexer", "checked"} :
              proc' = [proc EXCEPT ![p] = [proc[p] EXCEPT !.pc = pc]]
        BY <3>3 DEF GetAccountBalance
      <4> QED
        BY <1>0, <1>2, <3>2, <4>1 DEF Busy
    <3>4. CASE GetIncomingTransactions(p)
      <4>1. PICK list \in IndexedTransfers(proc[p].id) :
              proc' = [proc EXCEPT ![p].list = list,
                                   ![p].pc =
                         IF \/ list = <<>>
                            \/ TotalAmount(list) = proc[p].copy.total
                           THEN "checked" ELSE "store"]
        BY <3>4 DEF GetIncomingTransactions
      <4>2. PICK pc \in {"checked", "store"} :
              proc' = [proc EXCEPT ![p] = [proc[p] EXCEPT !.list = list, !.pc = pc]]
        BY <4>1
      <4> QED
        BY <1>0, <1>2, <3>2, <4>2 DEF Busy
    <3> QED
      BY <2>3, <3>3, <3>4
  <2> QED
    BY <1>7, <2>1, <2>2, <2>3 DEF CheckerNext, CheckStep
<1>8. ASSUME NEW q \in Procs, NEW i \in Invoices, StartCheck(q, i)
      PROVE  ClosingFrom(p)
  <2>1. CASE p # q
    BY <1>0, <1>1, <1>8, <2>1 DEF StartCheck
  <2>2. CASE p = q
    BY <1>0, <1>2, <1>8, <2>2 DEF StartCheck
  <2> QED
    BY <2>1, <2>2
<1>9. CASE DetectorNext
  <2>1. CASE FetchExpired
    BY <1>1, <2>1 DEF FetchExpired, recorderVars
  <2>2. CASE \E i \in Invoices : CheckExpired(i)
    BY <1>0, <1>8, <2>2 DEF CheckExpired
  <2>3. CASE ExpireRefused \/ ExpireFails \/ Unregister
    BY <1>0, <1>1, <1>3, <2>3 DEF ExpireRefused, ExpireFails, Unregister
  <2>4. CASE ExpireCommits
    <3>1. CASE p # "expirer"
      BY <1>0, <1>1, <2>4, <3>1 DEF ExpireCommits
    <3>2. CASE p = "expirer"
      BY <2>4, <3>2 DEF ClosingFrom
    <3> QED
      BY <3>1, <3>2
  <2> QED
    BY <1>9, <2>1, <2>2, <2>3, <2>4 DEF DetectorNext, DetectorStep
<1>10. CASE SwapsNext \/ \E i \in SwapInvoices : SwapExecuted(i)
  <2>1. CASE SwapsNext
    BY <1>0, <1>1, <1>3, <2>1 DEF SwapsNext, SwapCheckDone
  <2> QED
    BY <1>0, <1>8, <1>10, <2>1, SwapsAssumption DEF SwapExecuted
<1>11. ASSUME NEW i \in Invoices, ApiNext(i)
       PROVE  ClosingFrom(p)
  BY <1>11, <1>1 DEF ApiNext, ApiStep, ApiRequest, CancelStep, RegisterInvoice,
       CancelUpdates, CancelNotifies, CancelRefused, CancelFails,
       CancelRemoves, InitiatePayout, PayoutStep, CreateManualPayout,
       InitiatePayoutFails,
       CreateInvoice, UpdateInvoice, recorderVars
<1>12. CASE OutsideNext
  BY <1>12, <1>1 DEF OutsideNext, TransferLands, Lapse, recorderVars
<1>13. CASE UNCHANGED vars
  BY <1>1, <1>13 DEF vars
<1> QED
  BY <1>4, <1>5, <1>6, <1>7, <1>9, <1>10, <1>11, <1>12, <1>13 DEF Next, Crash

(* ClosingIsClosed is kept by every step.                                  *)
LEMMA ClosingStep ==
  ASSUME TypeInv, ClosingIsClosed, [Next]_vars
  PROVE  ClosingIsClosed'
<1> SUFFICES ASSUME NEW p \in Procs, Closing(proc'[p])
             PROVE  ~Active(proc[p].id)'
  BY DEF ClosingIsClosed, Closing
<1>0. /\ proc \in [Procs -> Busy \cup {Idle}] /\ Sensible(proc[p])
      /\ \A b \in Busy : b.id \in Invoices
      /\ TypeOK /\ WellFormed
  BY DEF TypeInv, TypeOK, ProcTypeOK, WellFormed, Busy
<1>1. CASE Closing(proc[p]) /\ proc'[p].id = proc[p].id
  <2>1. proc[p].id \in Invoices /\ Exists(proc[p].id) /\ ~Active(proc[p].id)
    BY <1>0, <1>1 DEF Closing, Idle, Sensible, ClosingIsClosed
  <2>2. ~Active(proc[p].id) => ~(row'[proc[p].id].status \in InvoiceActive)
    BY <2>1, WhoActivates DEF Active
  <2> QED
    BY <1>1, <2>1, <2>2 DEF Active
<1>2. CASE StoreCommits(p)
  <2>1. proc[p].pc = "store" /\ proc[p] \in Busy
    BY <1>0, <1>2, BusyRecord DEF StoreCommits, TypeOK, BusyPc
  <2>2. /\ proc'[p].id = proc[p].id /\ proc'[p].pc = "registry"
        /\ proc'[p].copy.status = UpdatedStatus(p)
    <3>1. proc' = [proc EXCEPT ![p].pc = "registry",
                               ![p].copy.status = UpdatedStatus(p),
                               ![p].copy.total = UpdatedReceivedAmount(p)]
      BY <1>2 DEF StoreCommits
    <3> QED
      BY <1>0, <2>1, <3>1 DEF Busy, InvoiceWithReceivedAmount
  <2>3. row'[proc[p].id].status = UpdatedStatus(p)
    BY <1>2, StoreBooks
  <2> QED
    BY <2>2, <2>3 DEF Closing, Active, InvoiceActive, InvoiceFinal
<1>3. CASE ExpireCommits /\ p = "expirer"
  <2>1. proc[p].pc = "checked" /\ proc[p] \in Busy
    BY <1>0, <1>3, BusyRecord DEF ExpireCommits, TypeOK, BusyPc
  <2>2. proc' = [proc EXCEPT ![p] = [proc[p] EXCEPT !.pc = "unregister"]]
    BY <1>3 DEF ExpireCommits
  <2>3. proc'[p].id = proc[p].id
    BY <1>0, <2>1, <2>2 DEF Busy
  <2>4. row'[proc[p].id].status \in InvoiceExpired
    BY <1>3, ExpireBooks DEF InvoiceExpired
  <2> QED
    BY <2>3, <2>4 DEF Active, InvoiceActive, InvoiceExpired
<1> QED
  BY <1>1, <1>2, <1>3, ClosingSources DEF ClosingFrom

(* Failures only use up their budget.                                      *)
LEMMA FailureSpent ==
  ASSUME TypeInv, NEW k \in Disturbances, Spend(k)
  PROVE  /\ budget["failure"] \in Nat /\ budget'["failure"] \in Nat
         /\ budget'["failure"] <= budget["failure"]
         /\ k = "failure" => budget'["failure"] < budget["failure"]
<1>1. /\ budget \in [Disturbances -> Nat] /\ "failure" \in Disturbances
      /\ budget[k] \in Nat /\ budget[k] > 0
      /\ budget' = [budget EXCEPT ![k] = budget[k] - 1]
  BY DEF TypeInv, TypeOK, EnvTypeOK, Disturbances, Spend
<1> QED
  BY <1>1

(* Failures are only used up.                                              *)
LEMMA FailureBudget ==
  ASSUME TypeInv, [Next]_vars
  PROVE  budget'["failure"] <= budget["failure"]
<1>0. /\ budget["failure"] \in Nat
      /\ "update" \in Disturbances /\ "cancel" \in Disturbances
      /\ "failure" \in Disturbances /\ "break" \in Disturbances
      /\ "crash" \in Disturbances /\ "payout" \in Disturbances
  BY DEF TypeInv, TypeOK, EnvTypeOK, Disturbances
<1>1. CASE budget' = budget
  BY <1>0, <1>1
<1>2. CASE \E k \in Disturbances : Spend(k)
  BY <1>2, FailureSpent
<1>3. budget' = budget \/ \E k \in Disturbances : Spend(k)
  <2>1. ASSUME NEW p \in Procs, RecorderNext(p)
        PROVE  budget' = budget \/ Spend("failure")
    BY <2>1 DEF RecorderNext, RecorderStep, StoreCommits, StoreRefused, StoreFails,
         UpdateRegistry, StorePanics
  <2>2. CASE TrackerNext
    BY <1>0, <2>2 DEF TrackerNext, TrackerStep, Subscribe, StreamBreaks,
         ReceiveTransfer, envVars
  <2>3. ASSUME NEW p \in Checkers, CheckerNext(p)
        PROVE  budget' = budget \/ Spend("failure")
    BY <2>3 DEF CheckerNext, CheckStep, GetAccountBalance, GetIncomingTransactions,
         CheckFails, envVars
  <2>4. CASE DetectorNext
    BY <1>0, <2>4 DEF DetectorNext, DetectorStep, FetchExpired, CheckExpired,
         StartCheck, ExpireCommits, ExpireRefused, ExpireFails, Unregister, envVars
  <2>5. CASE SwapsNext \/ \E i \in SwapInvoices : SwapExecuted(i)
    BY <2>5 DEF SwapsNext, SwapCheckDone, SwapExecuted, StartCheck, envVars
  <2>6. ASSUME NEW i \in Invoices, ApiNext(i)
        PROVE  budget' = budget \/ \E k \in Disturbances : Spend(k)
    <3>1. CASE InitiatePayout(i) \/ PayoutStep(i)
      BY <1>0, <3>1
         DEF InitiatePayout, PayoutStep, CreateManualPayout,
             InitiatePayoutFails, envVars
    <3> QED
      BY <1>0, <2>6, <3>1 DEF ApiNext, ApiStep, ApiRequest, CancelStep,
           RegisterInvoice, CancelUpdates, CancelNotifies, CancelRefused,
           CancelFails, CancelRemoves, CreateInvoice, UpdateInvoice, envVars
  <2>7. CASE OutsideNext
    BY <2>7 DEF OutsideNext, TransferLands, Lapse, envVars
  <2>8. CASE Crash \/ UNCHANGED vars
    BY <1>0, <2>8 DEF Crash, InitiatePayoutPanics, vars
  <2> QED
    BY <1>0, <2>1, <2>2, <2>3, <2>4, <2>5, <2>6, <2>7, <2>8 DEF Next
<1> QED
  BY <1>1, <1>2, <1>3

(* What keeps j monitored over a step, if j is still active.               *)
Watched(j) ==
  \/ Tracked(j)'
  \/ creating'[j] # Untracked
  \/ canceling'[j] # "no"
  \/ /\ creating'[j] = creating[j]
     /\ canceling'[j] = canceling[j]
     /\ Tracked(j) => Tracked(j)'
  \/ ~Active(j)'
  \/ budget'["failure"] < budget["failure"]

(* Every step keeps active invoices monitored, as long as nothing fails.   *)
LEMMA WatchedStep ==
  ASSUME TypeInv, UpdatedIsCanceled, ClosingIsClosed, [Next]_vars, NEW j \in Invoices
  PROVE  Watched(j)
<1>0. /\ registry \in [Invoices -> InvoiceWithReceivedAmount \cup {Untracked}]
      /\ creating \in [Invoices -> InvoiceWithReceivedAmount \cup {Untracked}]
      /\ canceling \in [Invoices -> {"no", "removed", "updated"}]
      /\ \A r \in InvoiceWithReceivedAmount : r # Untracked
      /\ TypeOK /\ WellFormed /\ ProcTypeOK
      /\ \A b \in Busy : b.id \in Invoices
  BY DEF TypeInv, TypeOK, RegistryTypeOK, AppTypeOK, InvoiceWithReceivedAmount,
         Untracked, InvoiceStatus, InvoiceActive, InvoiceFinal, InvoiceExpired,
         InvoiceCanceled, Busy
<1>1. ASSUME creating' = creating, canceling' = canceling,
             registry'[j] = registry[j]
      PROVE  Watched(j)
  BY <1>1 DEF Watched, Tracked
<1>2. ASSUME ~Active(j), row' = row
      PROVE  Watched(j)
  BY <1>2 DEF Watched, Active
<1>3. ASSUME Restart
      PROVE  Watched(j)
  <2>1. row' = row /\ registry' = LoadedRegistry
    BY <1>3 DEF Restart, dbVars
  <2>2. CASE Active(j)
    <3>1. registry'[j] = get_invoice_with_received_amount_by_id(j)
      BY <2>1, <2>2 DEF LoadedRegistry, get_active_invoices
    <3>2. registry'[j].status \in InvoiceActive
      BY <2>2, <3>1 DEF get_invoice_with_received_amount_by_id, Active
    <3>3. registry'[j] # Untracked
      BY <3>2 DEF Untracked, InvoiceActive
    <3> QED
      BY <3>3 DEF Watched, Tracked
  <2> QED
    BY <1>2, <2>1, <2>2
<1>4. ASSUME NEW p \in Procs, UpdateRegistry(p), UNCHANGED appVars
      PROVE  Watched(j)
  <2> DEFINE i == proc[p].id
             c == proc[p].copy
  <2>1. /\ proc[p].pc = "registry" /\ i \in Invoices /\ row' = row
        /\ creating' = creating /\ canceling' = canceling
    BY <1>0, <1>4, TxFacts DEF UpdateRegistry, dbVars, appVars
  <2>2. CASE i # j
    BY <1>0, <1>1, <1>4, <2>1, <2>2
       DEF UpdateRegistry, remove_invoice, update_filled_amount
  <2>3. CASE i = j /\ c.status \in InvoiceFinal
    BY <1>2, <2>1, <2>3 DEF ClosingIsClosed, Closing
  <2>4. CASE i = j /\ c.status \notin InvoiceFinal
    <3>1. update_filled_amount(j, c.total, c.status)
      BY <1>4, <2>4 DEF UpdateRegistry
    <3>2. CASE Tracked(j)
      <4>1. registry[j] \in InvoiceWithReceivedAmount
        BY <1>0, <3>2 DEF Tracked
      <4>2. registry'[j] = [registry[j] EXCEPT !.total = c.total, !.status = c.status]
        BY <1>0, <3>1, <3>2 DEF update_filled_amount
      <4>3. c \in InvoiceWithReceivedAmount
        BY <1>0, <2>1, TxFacts
      <4>4. registry'[j] \in InvoiceWithReceivedAmount
        BY <4>1, <4>2, <4>3 DEF InvoiceWithReceivedAmount
      <4> QED
        BY <1>0, <4>4 DEF Watched, Tracked
    <3>3. CASE ~Tracked(j)
      BY <1>1, <2>1, <3>1, <3>3 DEF update_filled_amount
    <3> QED
      BY <3>2, <3>3
  <2> QED
    BY <2>2, <2>3, <2>4
<1>5. ASSUME NEW p \in Procs, RecorderNext(p)
      PROVE  Watched(j)
  <2>1. CASE StorePanics(p)
    BY <1>3, <2>1 DEF StorePanics
  <2>2. CASE UpdateRegistry(p) /\ UNCHANGED appVars
    BY <1>4, <2>2
  <2> QED
    BY <1>1, <1>5, <2>1, <2>2
       DEF RecorderNext, RecorderStep, StoreCommits, StoreRefused, StoreFails, appVars
<1>6. CASE TrackerNext
  BY <1>1, <1>6 DEF TrackerNext, TrackerStep, Subscribe, StreamBreaks,
       ReceiveTransfer, recorderVars, appVars
<1>7. ASSUME NEW p \in Checkers, CheckerNext(p)
      PROVE  Watched(j)
  BY <1>1, <1>7 DEF CheckerNext, CheckStep, GetAccountBalance,
       GetIncomingTransactions, CheckFails, appVars
<1>8. CASE DetectorNext
  <2>1. CASE Unregister
    <3> DEFINE i == proc["expirer"].id
    <3>1. /\ "expirer" \in Procs /\ proc["expirer"].pc = "unregister"
          /\ registry' = [registry EXCEPT ![i] = Untracked]
          /\ row' = row /\ creating' = creating /\ canceling' = canceling
      BY <1>8, <2>1 DEF Unregister, remove_invoice, DetectorNext, dbVars, appVars,
           Procs, Checkers
    <3>2. CASE i = j
      BY <1>2, <3>1, <3>2 DEF ClosingIsClosed, Closing
    <3>3. CASE i # j
      BY <1>0, <1>1, <3>1, <3>3
    <3> QED
      BY <3>2, <3>3
  <2> QED
    BY <1>1, <1>8, <2>1 DEF DetectorNext, DetectorStep, FetchExpired,
         CheckExpired, StartCheck, ExpireCommits, ExpireRefused, ExpireFails,
         recorderVars, appVars
<1>9. CASE SwapsNext \/ \E i \in SwapInvoices : SwapExecuted(i)
  BY <1>1, <1>9 DEF SwapsNext, SwapCheckDone, SwapExecuted, StartCheck, appVars
<1>10. ASSUME NEW i \in Invoices, ApiNext(i)
       PROVE  Watched(j)
  <2>0. ASSUME i # j, creating'[j] = creating[j], canceling'[j] = canceling[j],
               registry'[j] = registry[j]
        PROVE  Watched(j)
    BY <2>0 DEF Watched, Tracked
  <2>1. ASSUME NEW a \in Amounts, CreateInvoice(i, a)
        PROVE  Watched(j)
    <3>1. CASE i = j
      <4>1. creating'[j].status = "Waiting"
        BY <1>0, <2>1, <3>1 DEF CreateInvoice
      <4> QED
        BY <4>1 DEF Watched, Untracked
    <3>2. CASE i # j
      BY <1>0, <2>0, <2>1, <3>2 DEF CreateInvoice
    <3> QED
      BY <3>1, <3>2
  <2>2. CASE RegisterInvoice(i)
    <3>1. CASE i = j
      <4>1. registry'[j] = creating[j] /\ creating[j] # Untracked
        BY <1>0, <2>2, <3>1 DEF RegisterInvoice, add_invoice
      <4> QED
        BY <4>1 DEF Watched, Tracked
    <3>2. CASE i # j
      BY <1>0, <2>0, <2>2, <3>2 DEF RegisterInvoice, add_invoice
    <3> QED
      BY <3>1, <3>2
  <2>3. ASSUME NEW a \in Amounts, UpdateInvoice(i, a)
        PROVE  Watched(j)
    BY <1>1, <2>3 DEF UpdateInvoice, appVars
  <2>4. CASE CancelRemoves(i)
    BY <1>0, <2>0, <2>4 DEF CancelRemoves, remove_invoice, Watched
  <2>5. CASE CancelUpdates(i)
    BY <1>0, <2>0, <2>5 DEF CancelUpdates, Watched
  <2>6. CASE CancelNotifies(i)
    <3>1. CASE i = j
      BY <1>2, <2>6, <3>1
         DEF CancelNotifies, UpdatedIsCanceled, Active, InvoiceActive
    <3>2. CASE i # j
      BY <1>0, <2>0, <2>6, <3>2 DEF CancelNotifies
    <3> QED
      BY <3>1, <3>2
  <2>7. CASE CancelRefused(i)
    <3>1. CASE i = j
      BY <1>2, <2>7, <3>1
         DEF CancelRefused, InvoiceTransition, Active, InvoiceActive, recorderVars
    <3>2. CASE i # j
      BY <1>0, <2>0, <2>7, <3>2 DEF CancelRefused, recorderVars
    <3> QED
      BY <3>1, <3>2
  <2>8. CASE CancelFails(i)
    BY <2>8, FailureSpent DEF CancelFails, Watched, Disturbances
  <2>9. CASE InitiatePayout(i) \/ PayoutStep(i)
    BY <1>1, <2>9, ByHandOnly DEF recorderVars
  <2> QED
    BY <1>10, <2>1, <2>2, <2>3, <2>4, <2>5, <2>6, <2>7, <2>8, <2>9
       DEF ApiNext, ApiStep, ApiRequest, CancelStep
<1>11. CASE OutsideNext
  BY <1>1, <1>11 DEF OutsideNext, TransferLands, Lapse, recorderVars, appVars
<1>12. CASE UNCHANGED vars
  BY <1>1, <1>12 DEF vars
<1> QED
  BY <1>3, <1>5, <1>6, <1>7, <1>8, <1>9, <1>10, <1>11, <1>12 DEF Next, Crash

(* MonitoredInv is kept by every step.                                     *)
LEMMA MonitoredStep ==
  ASSUME TypeInv, UpdatedIsCanceled, MonitoredInv, [Next]_vars
  PROVE  MonitoredInv'
<1>1. /\ budget["failure"] \in Nat /\ budget'["failure"] \in Nat
      /\ Budget["failure"] \in Nat
      /\ budget'["failure"] <= budget["failure"]
      /\ budget["failure"] <= Budget["failure"]
  BY NextType, FailureBudget, BudgetAssumption
     DEF TypeInv, TypeOK, EnvTypeOK, Disturbances, MonitoredInv
<1>2. ClosingIsClosed'
  BY ClosingStep DEF MonitoredInv
<1>3. ASSUME budget'["failure"] = Budget["failure"], NEW j \in Invoices,
             Active(j)', creating'[j] = Untracked, canceling'[j] = "no"
      PROVE  Tracked(j)'
  <2>1. budget["failure"] = Budget["failure"]
    BY <1>1, <1>3
  <2>2. Watched(j)
    BY WatchedStep DEF MonitoredInv
  <2>3. CASE /\ creating'[j] = creating[j]
             /\ canceling'[j] = canceling[j]
             /\ Tracked(j) => Tracked(j)'
    <3>1. Active(j)
      <4>1. ASSUME NEW a \in Amounts, CreateInvoice(j, a)
            PROVE  FALSE
        <5>1. creating'[j].status = "Waiting"
          BY <4>1 DEF CreateInvoice, TypeInv, TypeOK, AppTypeOK
        <5> QED
          BY <1>3, <5>1 DEF Untracked
      <4> QED
        BY <1>3, <4>1, WhoActivates
    <3> QED
      BY <1>3, <2>1, <2>3, <3>1 DEF MonitoredInv, ActiveIsMonitored
  <2> QED
    BY <1>1, <1>3, <2>1, <2>2, <2>3 DEF Watched
<1>4. ActiveIsMonitored'
  BY <1>3 DEF ActiveIsMonitored
<1> QED
  BY <1>1, <1>2, <1>4 DEF MonitoredInv

(* As long as no call has failed, an active invoice is in the registry, or *)
(* on its way in, or being canceled: however updates of the registry,      *)
(* cancellations, expirations, crashes and restarts interleave.            *)
THEOREM ActiveIsMonitoredAlways == Spec => []ActiveIsMonitored
<1>1. Init => MonitoredInv
  <2> SUFFICES ASSUME Init
               PROVE  MonitoredInv
    OBVIOUS
  <2>1. budget["failure"] <= Budget["failure"]
    BY BudgetAssumption DEF Init, EnvInit, Disturbances
  <2>2. ClosingIsClosed
    BY DEF Init, ClosingIsClosed, Closing, Idle
  <2>3. ActiveIsMonitored
    BY DEF Init, DbInit, ActiveIsMonitored, Active, InvoiceActive
  <2> QED
    BY <2>1, <2>2, <2>3 DEF MonitoredInv
<1>2. EventsInv => UpdatedIsCanceled
  BY DEF EventsInv
<1>3. TypeInv /\ UpdatedIsCanceled /\ MonitoredInv /\ [Next]_vars => MonitoredInv'
  BY MonitoredStep
<1>4. MonitoredInv => ActiveIsMonitored
  BY DEF MonitoredInv
<1> QED
  BY <1>1, <1>2, <1>3, <1>4, TypeInvariant, EventsInvAlways, PTL DEF Spec
-----------------------------------------------------------------------------
(* Sums.                                                                   *)

(* A sum as the folds of the library compute it: over all subsets of T,    *)
(* by taking out one element at a time.                                    *)
Pick(s) == CHOOSE x \in s : TRUE
Sums(f, T, g) ==
  g = [s \in SUBSET T |-> IF s = {} THEN 0 ELSE f[Pick(s)] + g[s \ {Pick(s)}]]
SumOf(f, T) == (CHOOSE g : Sums(f, T, g))[T]

(* The sum of the values of a function, by the fold of the library.        *)
LEMMA SumFunctionIsSum ==
  ASSUME NEW f
  PROVE  SumFunction(f) = SumOf(f, DOMAIN f)
BY DEF SumFunction, SumFunctionOnSet, FoldFunctionOnSet, MapThenFoldSet, SumOf, Sums, Pick

(* A family of finite sets has a smallest member: induction over finite    *)
(* sets, as a fact about sets.                                             *)
LEMMA SmallestSet ==
  ASSUME NEW D, IsFiniteSet(D), NEW F, F \subseteq SUBSET D, F # {}
  PROVE  \E s \in F : \A t \in F : t \subseteq s => t = s
<1> DEFINE R == StrictSubsetOrdering(D)
<1>1. \A s, t \in SUBSET D : t \subseteq s /\ t # s => <<t, s>> \in R
  BY DEF StrictSubsetOrdering
<1>2. IsWellFoundedOn(R, FiniteSubsetsOf(D))
  BY FS_StrictSubsetOrderingWellFounded
<1>3. F \subseteq FiniteSubsetsOf(D)
  BY FS_Subset DEF FiniteSubsetsOf
<1> HIDE DEF R
<1>4. PICK s \in F : \A t \in F : ~(<<t, s>> \in R)
  BY <1>2, <1>3, WFMin
<1> QED
  BY <1>1, <1>4

(* Two tables of sums agree where both are defined.                        *)
LEMMA SumsAgree ==
  ASSUME NEW f, NEW S, NEW T, NEW g, NEW h, IsFiniteSet(S), S \subseteq T,
         Sums(f, S, g), Sums(f, T, h)
  PROVE  \A s \in SUBSET S : g[s] = h[s]
<1> DEFINE F == {s \in SUBSET S : g[s] # h[s]}
<1> SUFFICES ASSUME F # {} PROVE FALSE
  OBVIOUS
<1>2. PICK s \in F : \A t \in F : t \subseteq s => t = s
  <2> HIDE DEF F
  <2>1. F \subseteq SUBSET S
    BY DEF F
  <2> QED
    BY <2>1, SmallestSet
<1>3. s \in SUBSET S /\ s \in SUBSET T /\ g[s] # h[s]
  OBVIOUS
<1>4. /\ g[s] = IF s = {} THEN 0 ELSE f[Pick(s)] + g[s \ {Pick(s)}]
      /\ h[s] = IF s = {} THEN 0 ELSE f[Pick(s)] + h[s \ {Pick(s)}]
  BY <1>3 DEF Sums
<1>5. s # {}
  BY <1>3, <1>4
<1>6. Pick(s) \in s
  BY <1>5 DEF Pick
<1>7. s \ {Pick(s)} \in SUBSET S /\ s \ {Pick(s)} # s /\ s \ {Pick(s)} \subseteq s
  BY <1>3, <1>6
<1>8. s \ {Pick(s)} \notin F
  BY <1>2, <1>7
<1>9. g[s \ {Pick(s)}] = h[s \ {Pick(s)}]
  BY <1>7, <1>8
<1> QED
  BY <1>3, <1>4, <1>9

(* A table of sums exists.                                                 *)
LEMMA SumsExist ==
  ASSUME NEW D, NEW f \in [D -> Nat], NEW S \in SUBSET D, IsFiniteSet(S)
  PROVE  \E g \in [SUBSET S -> Nat] : Sums(f, S, g)
<1> DEFINE Has(T) == \E g \in [SUBSET T -> Nat] : Sums(f, T, g)
           F == {T \in SUBSET S : ~Has(T)}
<1> SUFFICES ASSUME F # {} PROVE FALSE
  OBVIOUS
<1>1. \A T \in SUBSET S : IsFiniteSet(T)
  BY FS_Subset
<1>2. PICK T \in F : \A U \in F : U \subseteq T => U = T
  <2> HIDE DEF F
  <2>1. F \subseteq SUBSET S
    BY DEF F
  <2> QED
    BY <2>1, SmallestSet
<1>3. \A U \in SUBSET T : U # T => Has(U)
  <2> HIDE DEF Has
  <2> QED
    BY <1>2
<1> DEFINE G(U) == CHOOSE g \in [SUBSET U -> Nat] : Sums(f, U, g)
           val(U) == G(U)[U]
           step(U) == IF U = {} THEN 0 ELSE f[Pick(U)] + val(U \ {Pick(U)})
           h == [U \in SUBSET T |-> step(U)]
<1>4. \A U \in SUBSET T : U # T => G(U) \in [SUBSET U -> Nat] /\ Sums(f, U, G(U))
  BY <1>3
<1>5. \A U \in SUBSET T : U # {} => /\ Pick(U) \in U /\ f[Pick(U)] \in Nat
                                    /\ U \ {Pick(U)} \in SUBSET T /\ U \ {Pick(U)} # T
                                    /\ U \ {Pick(U)} \in SUBSET U
  BY DEF Pick
<1>6. \A U \in SUBSET T : U # T => val(U) \in Nat
  <2> HIDE DEF G
  <2> QED
    BY <1>4
<1>7. \A U \in SUBSET T : step(U) \in Nat
  <2> HIDE DEF val
  <2> QED
    BY <1>5, <1>6
<1>8. ASSUME NEW U \in SUBSET T, U # T PROVE val(U) = step(U)
  <2> HIDE DEF G
  <2>1. G(U) \in [SUBSET U -> Nat] /\ Sums(f, U, G(U))
    BY <1>4, <1>8
  <2>2. CASE U = {}
    BY <2>1, <2>2 DEF Sums
  <2>3. CASE U # {}
    <3> DEFINE V == U \ {Pick(U)}
    <3>1. V \in SUBSET T /\ V # T /\ V \subseteq U /\ IsFiniteSet(V)
      BY <1>1, <1>5, <2>3
    <3>2. Sums(f, V, G(V))
      BY <1>4, <3>1
    <3>3. G(V)[V] = G(U)[V]
      <4> HIDE DEF V
      <4> QED
        BY <2>1, <3>1, <3>2, SumsAgree
    <3>4. G(U)[U] = f[Pick(U)] + G(U)[V]
      BY <2>1, <2>3 DEF Sums
    <3> QED
      BY <2>3, <3>3, <3>4
  <2> QED
    BY <2>2, <2>3
<1>9. h \in [SUBSET T -> Nat]
  <2> HIDE DEF step
  <2> QED
    BY <1>7
<1>10. Sums(f, T, h)
  <2> SUFFICES ASSUME NEW U \in SUBSET T, U # {}
               PROVE  val(U \ {Pick(U)}) = h[U \ {Pick(U)}]
    <3> HIDE DEF val
    <3> QED
      BY DEF Sums
  <2> DEFINE V == U \ {Pick(U)}
  <2>1. V \in SUBSET T /\ V # T
    BY <1>5
  <2> HIDE DEF V, val, step
  <2>2. h[V] = step(V)
    BY <2>1
  <2> QED
    BY <1>8, <2>1, <2>2 DEF V
<1> QED
  <2> HIDE DEF h
  <2> QED
    BY <1>2, <1>9, <1>10

(* What the sum over a set is: nothing over the empty set, and over any    *)
(* other set the element it picks and the sum over the rest.               *)
LEMMA SumIs ==
  ASSUME NEW D, NEW f \in [D -> Nat], NEW S \in SUBSET D, IsFiniteSet(S)
  PROVE  /\ SumOf(f, S) \in Nat
         /\ S = {} => SumOf(f, S) = 0
         /\ S # {} => /\ Pick(S) \in S
                      /\ SumOf(f, S) = f[Pick(S)] + SumOf(f, S \ {Pick(S)})
<1> DEFINE G(T) == CHOOSE g : Sums(f, T, g)
<1>1. ASSUME NEW T \in SUBSET S
      PROVE  Sums(f, T, G(T)) /\ G(T) \in [SUBSET T -> Nat] /\ SumOf(f, T) = G(T)[T]
  <2>1. PICK g \in [SUBSET T -> Nat] : Sums(f, T, g)
    <3>1. T \in SUBSET D /\ IsFiniteSet(T)
      BY FS_Subset
    <3> QED
      BY <3>1, SumsExist
  <2>2. Sums(f, T, G(T))
    BY <2>1
  <2>3. IsFiniteSet(T)
    BY FS_Subset
  <2>4. \A s \in SUBSET T : G(T)[s] = g[s]
    <3> HIDE DEF G
    <3> QED
      BY <2>1, <2>2, <2>3, SumsAgree
  <2>5. G(T) \in [SUBSET T -> Nat]
    <3>1. \A s \in SUBSET T : G(T)[s] \in Nat
      BY <2>4
    <3>2. G(T) = [s \in SUBSET T |-> G(T)[s]]
      <4> HIDE DEF G
      <4>1. DOMAIN G(T) = SUBSET T /\ G(T) = [s \in DOMAIN G(T) |-> G(T)[s]]
        BY <2>2 DEF Sums
      <4> QED
        BY <4>1
    <3> HIDE DEF G
    <3> QED
      BY <3>1, <3>2
  <2> QED
    BY <2>2, <2>5 DEF SumOf
<1> HIDE DEF G
<1>2. S \in SUBSET S
  OBVIOUS
<1>3. G(S)[S] = IF S = {} THEN 0 ELSE f[Pick(S)] + G(S)[S \ {Pick(S)}]
  BY <1>1, <1>2 DEF Sums
<1>4. SumOf(f, S) = G(S)[S] /\ G(S)[S] \in Nat
  BY <1>1, <1>2
<1>5. CASE S # {}
  <2> DEFINE T == S \ {Pick(S)}
  <2>1. Pick(S) \in S
    BY <1>5 DEF Pick
  <2>2. T \in SUBSET S /\ T \subseteq S /\ IsFiniteSet(T)
    BY FS_Subset
  <2>3. G(S)[T] = SumOf(f, T)
    <3> HIDE DEF T
    <3>1. Sums(f, T, G(T)) /\ Sums(f, S, G(S)) /\ SumOf(f, T) = G(T)[T] /\ T \in SUBSET T
      BY <1>1, <1>2, <2>2
    <3> QED
      BY <2>2, <3>1, SumsAgree
  <2> QED
    BY <1>3, <1>4, <1>5, <2>1, <2>3
<1> QED
  BY <1>3, <1>4, <1>5

(* The order does not matter: any element may be the one that is taken     *)
(* out.                                                                    *)
LEMMA SumTakesOut ==
  ASSUME NEW D, NEW f \in [D -> Nat], NEW S \in SUBSET D, IsFiniteSet(S), NEW x \in S
  PROVE  SumOf(f, S) = f[x] + SumOf(f, S \ {x})
<1> DEFINE Works(T) == \A y \in T : SumOf(f, T) = f[y] + SumOf(f, T \ {y})
           F == {T \in SUBSET S : ~Works(T)}
<1> SUFFICES ASSUME F # {} PROVE FALSE
  <2>1. S \in SUBSET S
    OBVIOUS
  <2> QED
    BY <2>1
<1>1. \A T \in SUBSET S : T \in SUBSET D /\ IsFiniteSet(T)
  BY FS_Subset
<1>2. PICK T \in F : \A U \in F : U \subseteq T => U = T
  <2> HIDE DEF F
  <2>1. F \subseteq SUBSET S
    BY DEF F
  <2> QED
    BY <2>1, SmallestSet
<1>3. \A U \in SUBSET T : U # T => Works(U)
  <2> HIDE DEF Works
  <2> QED
    BY <1>2
<1>4. PICK y \in T : SumOf(f, T) # f[y] + SumOf(f, T \ {y})
  BY <1>2
<1> DEFINE p == Pick(T)
<1>5. T \in SUBSET S /\ T # {} /\ T \in SUBSET D /\ IsFiniteSet(T)
  BY <1>1, <1>2, <1>4
<1>6. p \in T /\ SumOf(f, T) = f[p] + SumOf(f, T \ {p})
  <2> HIDE DEF F
  <2> QED
    BY <1>5, SumIs
<1> HIDE DEF p
<1>7. p # y
  BY <1>4, <1>6
<1>8. SumOf(f, T \ {p}) = f[y] + SumOf(f, T \ {p, y})
  <2>1. T \ {p} \in SUBSET T /\ T \ {p} # T /\ y \in T \ {p} /\ (T \ {p}) \ {y} = T \ {p, y}
    BY <1>6, <1>7
  <2> QED
    BY <1>3, <2>1
<1>9. SumOf(f, T \ {y}) = f[p] + SumOf(f, T \ {p, y})
  <2>1. T \ {y} \in SUBSET T /\ T \ {y} # T /\ p \in T \ {y} /\ (T \ {y}) \ {p} = T \ {p, y}
    BY <1>6, <1>7
  <2> QED
    BY <1>3, <2>1
<1>10. f[p] \in Nat /\ f[y] \in Nat /\ SumOf(f, T \ {p, y}) \in Nat
  <2>1. T \ {p, y} \in SUBSET S
    BY <1>5
  <2>2. T \ {p, y} \in SUBSET D /\ IsFiniteSet(T \ {p, y})
    BY <1>1, <2>1
  <2> QED
    BY <1>5, <1>6, <2>2, SumIs
<1> QED
  BY <1>4, <1>6, <1>8, <1>9, <1>10

(* A sum over a set whose elements have places of their own in another is  *)
(* not greater than the sum over that one.                                 *)
LEMMA SumIsCovered ==
  ASSUME NEW D, NEW f \in [D -> Nat], NEW S \in SUBSET D, IsFiniteSet(S),
         NEW E, NEW g \in [E -> Nat], IsFiniteSet(E),
         NEW h \in [S -> E], \A x, y \in S : h[x] = h[y] => x = y,
         \A x \in S : f[x] = g[h[x]]
  PROVE  SumOf(f, S) <= SumOf(g, E)
<1> DEFINE Image(T) == {h[x] : x \in T}
           Fits(T) == \A U \in SUBSET E : Image(T) \subseteq U => SumOf(f, T) <= SumOf(g, U)
           F == {T \in SUBSET S : ~Fits(T)}
<1> SUFFICES ASSUME F # {} PROVE FALSE
  <2>1. S \in SUBSET S /\ E \in SUBSET E /\ Image(S) \subseteq E
    OBVIOUS
  <2> QED
    BY <2>1
<1>1. /\ \A T \in SUBSET S : T \in SUBSET D /\ IsFiniteSet(T)
      /\ \A U \in SUBSET E : IsFiniteSet(U)
  BY FS_Subset
<1>2. PICK T \in F : \A U \in F : U \subseteq T => U = T
  <2> HIDE DEF F
  <2>1. F \subseteq SUBSET S
    BY DEF F
  <2> QED
    BY <2>1, SmallestSet
<1>3. \A V \in SUBSET T : V # T => Fits(V)
  <2> HIDE DEF Fits
  <2> QED
    BY <1>2
<1>4. PICK U \in SUBSET E : Image(T) \subseteq U /\ ~(SumOf(f, T) <= SumOf(g, U))
  BY <1>2
<1>5. T \in SUBSET S /\ T \in SUBSET D /\ IsFiniteSet(T) /\ IsFiniteSet(U)
  BY <1>1, <1>2
<1>6. SumOf(g, U) \in Nat /\ SumOf(f, T) \in Nat
  BY <1>5, SumIs
<1>7. PICK x \in T : TRUE
  <2>1. T = {} => SumOf(f, T) = 0
    <3> HIDE DEF F
    <3> QED
      BY <1>5, SumIs
  <2> QED
    BY <1>4, <1>6, <2>1
<1>8. SumOf(f, T) = f[x] + SumOf(f, T \ {x})
  BY <1>5, SumTakesOut
<1>9. h[x] \in U
  BY <1>4
<1>10. SumOf(g, U) = g[h[x]] + SumOf(g, U \ {h[x]})
  BY <1>5, <1>9, SumTakesOut
<1>11. SumOf(f, T \ {x}) <= SumOf(g, U \ {h[x]})
  <2>1. T \ {x} \in SUBSET T /\ T \ {x} # T /\ U \ {h[x]} \in SUBSET E
    OBVIOUS
  <2>2. Image(T \ {x}) \subseteq U \ {h[x]}
    BY <1>4, <1>5
  <2> HIDE DEF Image
  <2> QED
    BY <1>3, <2>1, <2>2
<1>12. /\ f[x] \in Nat /\ f[x] = g[h[x]]
       /\ SumOf(f, T \ {x}) \in Nat /\ SumOf(g, U \ {h[x]}) \in Nat
  <2>1. T \ {x} \in SUBSET S /\ U \ {h[x]} \in SUBSET E
    BY <1>5
  <2>2. /\ T \ {x} \in SUBSET D /\ IsFiniteSet(T \ {x}) /\ IsFiniteSet(U \ {h[x]})
    BY <1>1, <2>1
  <2> QED
    BY <1>5, <2>1, <2>2, SumIs
<1> QED
  BY <1>4, <1>8, <1>10, <1>11, <1>12

-----------------------------------------------------------------------------
(* What is counted.                                                        *)

(* A list of transfers that are on the chain.                              *)
AllLanded(list) == \A k \in DOMAIN list : Landed(list[k])

(* The daemon has heard of nothing, on its way, in a task or in the        *)
(* database, that is not on the chain.                                     *)
HeardIsLanded ==
  /\ \A t \in recorded : Landed(t)
  /\ \A p \in Procs : proc[p] # Idle => AllLanded(proc[p].list)
  /\ AllLanded(stream)

(* What an invoice has received is the sum of what is recorded for it.     *)
RecordedFor(i) == {t \in recorded : InvoiceOf[t] = i}
SumsAreExact ==
  /\ IsFiniteSet(recorded)
  /\ \A i \in Invoices : received[i] = SumOf(AmountOf, RecordedFor(i))

(* The inductive invariant.                                                *)
CountedInv == HeardIsLanded /\ SumsAreExact

(* What is on the chain stays there.                                       *)
LEMMA LandedStays ==
  ASSUME TypeInv, [Next]_vars, NEW t \in Transfers, Landed(t)
  PROVE  Landed(t)'
<1>1. CASE landed' = landed
  BY <1>1 DEF Landed
<1>2. ASSUME NEW u \in Transfers, TransferLands(u)
      PROVE  Landed(t)'
  <2> DEFINE i == InvoiceOf[t]
             j == InvoiceOf[u]
  <2>1. /\ landed \in [Invoices -> Seq(Transfers)] /\ i \in Invoices /\ j \in Invoices
        /\ landed' = [landed EXCEPT ![j] = Append(landed[j], u)]
    BY <1>2, TransfersAssumption DEF TransferLands, TypeInv, TypeOK, EnvTypeOK
  <2>2. PICK k \in DOMAIN landed[i] : landed[i][k] = t
    BY DEF Landed
  <2>3. k \in DOMAIN landed'[i] /\ landed'[i][k] = t
    <3>1. CASE i = j
      <4>1. landed'[i] = Append(landed[i], u) /\ landed[i] \in Seq(Transfers)
        BY <2>1, <3>1
      <4> QED
        BY <2>2, <4>1
    <3>2. CASE i # j
      BY <2>1, <2>2, <3>2
    <3> QED
      BY <3>1, <3>2
  <2> QED
    BY <2>3 DEF Landed
<1>3. landed' = landed \/ \E u \in Transfers : TransferLands(u)
  BY DEF Next, RecorderNext, StorePanics, Restart, TrackerNext, TrackerStep, Subscribe,
         StreamBreaks, ReceiveTransfer, CheckerNext, CheckStep, GetAccountBalance,
         GetIncomingTransactions, CheckFails, DetectorNext, DetectorStep, FetchExpired,
         CheckExpired, StartCheck, ExpireCommits, ExpireRefused, ExpireFails, Unregister,
         SwapExecuted, SwapsNext, SwapCheckDone, ApiNext, ApiStep, ApiRequest, CancelStep,
         RegisterInvoice, CancelUpdates, CancelNotifies, CancelRefused, CancelFails,
         CancelRemoves, InitiatePayout,
         PayoutStep, CreateManualPayout, InitiatePayoutFails, CreateInvoice,
         UpdateInvoice, OutsideNext, Lapse, Crash, envVars, vars
<1> QED
  BY <1>1, <1>2, <1>3

(* What the indexer lists is on the chain.                                 *)
LEMMA IndexedIsLanded ==
  ASSUME TypeInv, NEW i \in Invoices, NEW list \in IndexedTransfers(i)
  PROVE  AllLanded(list)
<1>1. landed[i] \in Seq(Transfers) /\ \A k \in DOMAIN landed[i] : InvoiceOf[landed[i][k]] = i
  BY DEF TypeInv, TypeOK, EnvTypeOK, WellFormed
<1>2. CASE list = <<>>
  BY <1>2 DEF AllLanded
<1>3. CASE \E n \in 0 .. Len(landed[i]) : list = SubSeq(landed[i], 1, n)
  <2>1. PICK n \in 0 .. Len(landed[i]) : list = SubSeq(landed[i], 1, n)
    BY <1>3
  <2>2. Len(list) = n /\ DOMAIN list = 1 .. n /\ \A k \in 1 .. n : list[k] = landed[i][k]
    BY <1>1, <2>1
  <2>3. \A k \in 1 .. n : k \in DOMAIN landed[i]
    BY <1>1, <2>1
  <2> QED
    BY <1>1, <2>2, <2>3 DEF AllLanded, Landed
<1> QED
  BY <1>2, <1>3 DEF IndexedTransfers

(* Where the transfers come from that a task has in hand after a step: it  *)
(* had them before, or it has none, or one from the stream, or a list from *)
(* the indexer.                                                            *)
ListFrom(p) ==
  \/ proc'[p] = Idle
  \/ proc[p] # Idle /\ proc'[p].list = proc[p].list
  \/ proc'[p].list = <<>>
  \/ stream # <<>> /\ proc'[p].list = <<Head(stream)>>
  \/ \E i \in Invoices : proc'[p].list \in IndexedTransfers(i)

(* The recorder works its list off, and does not change it.                *)
LEMMA RecorderLists ==
  ASSUME TypeInv, NEW p \in Procs, NEW q \in Procs, RecorderNext(q)
  PROVE  ListFrom(p)
<1>0. proc \in [Procs -> Busy \cup {Idle}] /\ TypeOK /\ WellFormed /\ ProcTypeOK
  BY DEF TypeInv, TypeOK, ProcTypeOK
<1>1. CASE StorePanics(q)
  BY <1>1 DEF StorePanics, Restart, ListFrom
<1>2. CASE ~StorePanics(q)
  <2>1. proc[q].pc \in {"store", "registry"}
    BY <1>2 DEF RecorderNext, RecorderStep, StoreCommits, StoreRefused, StoreFails,
                UpdateRegistry
  <2>2. proc[q] \in Busy /\ proc[q] # Idle
    BY <1>0, <2>1, BusyRecord DEF BusyPc
  <2>3. CASE p # q
    <3>1. proc'[p] = proc[p]
      BY <1>0, <1>2, <2>3 DEF RecorderNext, RecorderStep, StoreCommits, StoreRefused,
                              StoreFails, UpdateRegistry
    <3> QED
      BY <3>1 DEF ListFrom
  <2>4. CASE p = q /\ StoreCommits(q)
    <3>1. proc' = [proc EXCEPT ![q] = [proc[q] EXCEPT
                     !.pc = "registry",
                     !.copy = [[proc[q].copy EXCEPT !.status = UpdatedStatus(q)]
                                 EXCEPT !.total = UpdatedReceivedAmount(q)]]]
      BY <2>4 DEF StoreCommits
    <3>2. proc'[q].list = proc[q].list
      BY <1>0, <2>2, <3>1 DEF Busy
    <3> QED
      BY <2>2, <2>4, <3>2 DEF ListFrom
  <2>5. CASE p = q /\ proc' = [proc EXCEPT ![q] = AfterTransaction(q)]
    <3>1. proc'[q] = AfterTransaction(q)
      BY <1>0, <2>5
    <3>2. AfterTransaction(q) # Idle => AfterTransaction(q).list = proc[q].list
      BY <1>0, <2>1, AfterTransactionFacts
    <3> QED
      BY <2>2, <2>5, <3>1, <3>2 DEF ListFrom
  <2> QED
    BY <1>2, <2>3, <2>4, <2>5 DEF RecorderNext, RecorderStep, StoreRefused, StoreFails,
                                 UpdateRegistry
<1> QED
  BY <1>1, <1>2

(* The balance checker takes a list from the indexer.                      *)
LEMMA CheckerLists ==
  ASSUME TypeInv, NEW p \in Procs, NEW q \in Checkers, CheckerNext(q)
  PROVE  ListFrom(p)
<1>0. /\ proc \in [Procs -> Busy \cup {Idle}] /\ ProcTypeOK /\ q \in Procs
  BY DEF TypeInv, TypeOK, ProcTypeOK, Procs
<1>1. proc[q].pc \in {"balance", "indexer"}
  BY DEF CheckerNext, CheckStep, CheckFails, GetAccountBalance, GetIncomingTransactions
<1>2. proc[q] \in Busy /\ proc[q] # Idle
  BY <1>0, <1>1, BusyRecord DEF BusyPc
<1>3. CASE p # q
  <2>1. proc'[p] = proc[p]
    BY <1>0, <1>3 DEF CheckerNext, CheckStep, CheckFails, GetAccountBalance,
                      GetIncomingTransactions
  <2> QED
    BY <2>1 DEF ListFrom
<1>4. CASE p = q /\ CheckFails(q)
  BY <1>0, <1>4 DEF CheckFails, ListFrom
<1>5. CASE p = q /\ GetAccountBalance(q)
  <2>1. PICK pc : proc' = [proc EXCEPT ![q] = [proc[q] EXCEPT !.pc = pc]]
    BY <1>5 DEF GetAccountBalance
  <2>2. proc'[q].list = proc[q].list
    BY <1>0, <1>2, <2>1 DEF Busy
  <2> QED
    BY <1>2, <1>5, <2>2 DEF ListFrom
<1>6. CASE p = q /\ GetIncomingTransactions(q)
  <2>1. PICK list \in IndexedTransfers(proc[q].id), pc \in {"checked", "store"} :
          proc' = [proc EXCEPT ![q] = [proc[q] EXCEPT !.list = list, !.pc = pc]]
    BY <1>6 DEF GetIncomingTransactions
  <2>2. proc'[q].list = list /\ proc[q].id \in Invoices
    BY <1>0, <1>2, <2>1 DEF Busy
  <2> QED
    BY <1>6, <2>1, <2>2 DEF ListFrom
<1> QED
  BY <1>3, <1>4, <1>5, <1>6 DEF CheckerNext, CheckStep

(* A balance check starts without any transfers.                           *)
LEMMA StartLists ==
  ASSUME TypeInv, NEW p \in Procs, NEW q \in Procs, NEW i \in Invoices, StartCheck(q, i)
  PROVE  ListFrom(p)
<1>0. proc \in [Procs -> Busy \cup {Idle}]
  BY DEF TypeInv, TypeOK, ProcTypeOK
<1>1. CASE p # q
  BY <1>0, <1>1 DEF StartCheck, ListFrom
<1>2. CASE p = q
  <2>1. proc'[p].list = <<>>
    BY <1>0, <1>2 DEF StartCheck
  <2> QED
    BY <2>1 DEF ListFrom
<1> QED
  BY <1>1, <1>2

(* Every step of every task.                                               *)
LEMMA ListSources ==
  ASSUME TypeInv, [Next]_vars, NEW p \in Procs
  PROVE  ListFrom(p)
<1>0. /\ "expirer" \in Procs /\ "swaps" \in Procs /\ "tracker" \in Procs
      /\ proc \in [Procs -> Busy \cup {Idle}] /\ ProcTypeOK
  BY DEF Procs, Checkers, TypeInv, TypeOK, ProcTypeOK
<1>1. ASSUME proc'[p] = proc[p]
      PROVE  ListFrom(p)
  BY <1>1 DEF ListFrom
<1>2. ASSUME proc'[p] = Idle
      PROVE  ListFrom(p)
  BY <1>2 DEF ListFrom
<1>3. CASE TrackerNext
  <2>1. CASE ReceiveTransfer
    <3> DEFINE i == InvoiceOf[Head(stream)]
    <3>1. CASE Tracked(i) /\ p = "tracker"
      <4>1. stream # <<>> /\ proc'[p].list = <<Head(stream)>>
        BY <1>0, <2>1, <3>1 DEF ReceiveTransfer
      <4> QED
        BY <4>1 DEF ListFrom
    <3>2. CASE ~(Tracked(i) /\ p = "tracker")
      BY <1>0, <1>1, <2>1, <3>2 DEF ReceiveTransfer
    <3> QED
      BY <3>1, <3>2
  <2>2. CASE Subscribe \/ StreamBreaks
    BY <1>1, <2>2 DEF Subscribe, StreamBreaks, recorderVars
  <2> QED
    BY <1>3, <2>1, <2>2 DEF TrackerNext, TrackerStep
<1>4. CASE DetectorNext
  <2>1. CASE FetchExpired
    BY <1>1, <2>1 DEF FetchExpired, recorderVars
  <2>2. CASE \E i \in Invoices : CheckExpired(i)
    BY <1>0, <2>2, StartLists DEF CheckExpired
  <2>3. CASE ExpireRefused \/ ExpireFails \/ Unregister
    BY <1>0, <1>1, <1>2, <2>3 DEF ExpireRefused, ExpireFails, Unregister
  <2>4. CASE ExpireCommits
    <3>1. CASE p # "expirer"
      BY <1>0, <1>1, <2>4, <3>1 DEF ExpireCommits
    <3>2. CASE p = "expirer"
      <4>1. proc[p].pc = "checked" /\ proc[p] \in Busy /\ proc[p] # Idle
        BY <1>0, <2>4, <3>2, BusyRecord DEF ExpireCommits, BusyPc
      <4>2. proc' = [proc EXCEPT ![p] = [proc[p] EXCEPT !.pc = "unregister"]]
        BY <2>4, <3>2 DEF ExpireCommits
      <4>3. proc'[p].list = proc[p].list
        BY <1>0, <4>1, <4>2 DEF Busy
      <4> QED
        BY <4>1, <4>3 DEF ListFrom
    <3> QED
      BY <3>1, <3>2
  <2> QED
    BY <1>4, <2>1, <2>2, <2>3, <2>4 DEF DetectorNext, DetectorStep
<1>5. CASE SwapsNext
  BY <1>0, <1>1, <1>2, <1>5 DEF SwapsNext, SwapCheckDone
<1>6. CASE \E i \in SwapInvoices : SwapExecuted(i)
  BY <1>0, <1>6, StartLists, SwapsAssumption DEF SwapExecuted
<1>7. ASSUME NEW i \in Invoices, ApiNext(i)
      PROVE  ListFrom(p)
  BY <1>7, <1>1 DEF ApiNext, ApiStep, ApiRequest, CancelStep, RegisterInvoice,
       CancelUpdates, CancelNotifies, CancelRefused, CancelFails,
       CancelRemoves, InitiatePayout, PayoutStep, CreateManualPayout,
       InitiatePayoutFails,
       CreateInvoice, UpdateInvoice, recorderVars
<1>8. CASE OutsideNext
  BY <1>8, <1>1 DEF OutsideNext, TransferLands, Lapse, recorderVars
<1>9. CASE Crash \/ UNCHANGED vars
  BY <1>9, <1>1, <1>2 DEF Crash, Restart, vars
<1> QED
  BY <1>3, <1>4, <1>5, <1>6, <1>7, <1>8, <1>9, RecorderLists, CheckerLists DEF Next

(* What a step does to the stream.                                         *)
LEMMA StreamStep ==
  ASSUME TypeInv, [Next]_vars
  PROVE  \/ stream' \in {stream, <<>>}
         \/ stream # <<>> /\ stream' = Tail(stream)
         \/ \E t \in Transfers : TransferLands(t) /\ stream' = Append(stream, t)
<1>1. CASE TrackerNext
  BY <1>1 DEF TrackerNext, TrackerStep, Subscribe, StreamBreaks, ReceiveTransfer
<1>2. CASE OutsideNext
  BY <1>2 DEF OutsideNext, TransferLands, Lapse, trackerVars
<1>3. ASSUME NEW p \in Procs, RecorderNext(p)
      PROVE  stream' \in {stream, <<>>}
  BY <1>3 DEF RecorderNext, StorePanics, Restart, trackerVars
<1>4. CASE Crash \/ UNCHANGED vars
  BY <1>4 DEF Crash, Restart, vars
<1>5. ASSUME UNCHANGED trackerVars
      PROVE  stream' \in {stream, <<>>}
  BY <1>5 DEF trackerVars
<1> QED
  BY <1>1, <1>2, <1>3, <1>4, <1>5
     DEF Next, CheckerNext, DetectorNext, SwapExecuted, SwapsNext

(* A commit of the recorder adds one transfer, which was not recorded      *)
(* before, by the unique index.                                            *)
LEMMA StoreRecords ==
  ASSUME TypeInv, NEW p \in Procs, StoreCommits(p)
  PROVE  /\ Tx(p) \in Transfers \ recorded
         /\ InvoiceOf[Tx(p)] = proc[p].id
         /\ recorded' = recorded \cup {Tx(p)}
         /\ received' = [received EXCEPT ![InvoiceOf[Tx(p)]] = @ + AmountOf[Tx(p)]]
<1>1. Tx(p) \in Transfers /\ InvoiceOf[Tx(p)] = proc[p].id
  BY TxFacts DEF StoreCommits, TypeInv
<1>2. create_transaction(Tx(p))
  BY DEF StoreCommits
<1>3. Tx(p) \notin recorded
  BY <1>2 DEF create_transaction, DuplicateTransaction
<1> QED
  BY <1>1, <1>2, <1>3 DEF create_transaction

(* What is recorded grows in no other way.                                 *)
LEMMA RecordedStep ==
  ASSUME TypeInv, [Next]_vars
  PROVE  \/ UNCHANGED <<recorded, received>>
         \/ \E p \in Procs :
              /\ StoreCommits(p)
              /\ Tx(p) \in Transfers \ recorded
              /\ recorded' = recorded \cup {Tx(p)}
              /\ received' = [received EXCEPT ![InvoiceOf[Tx(p)]] = @ + AmountOf[Tx(p)]]
<1>1. ASSUME NEW p \in Procs, StoreCommits(p)
      PROVE  /\ Tx(p) \in Transfers \ recorded
             /\ recorded' = recorded \cup {Tx(p)}
             /\ received' = [received EXCEPT ![InvoiceOf[Tx(p)]] = @ + AmountOf[Tx(p)]]
  BY <1>1, StoreRecords
<1>2. CASE BooksUnchanged
  BY <1>2 DEF BooksUnchanged
<1>3. ASSUME NEW i \in Invoices, NEW a \in Amounts,
             CreateInvoice(i, a) \/ UpdateInvoice(i, a)
      PROVE  UNCHANGED <<recorded, received>>
  BY <1>3 DEF CreateInvoice, UpdateInvoice
<1>4. ASSUME NEW i \in Invoices, CancelUpdates(i)
      PROVE  UNCHANGED <<recorded, received>>
  BY <1>4 DEF CancelUpdates
<1>5. CASE ExpireCommits
  BY <1>5 DEF ExpireCommits
<1> QED
  BY <1>1, <1>2, <1>3, <1>4, <1>5, BooksStep

(* The daemon only ever hears of what is on the chain.                     *)
LEMMA HeardStep ==
  ASSUME TypeInv, HeardIsLanded, [Next]_vars
  PROVE  HeardIsLanded'
<1>1. stream \in Seq(Transfers) /\ recorded \subseteq Transfers /\ TypeInv'
  BY NextType DEF TypeInv, TypeOK, TrackerTypeOK, DbTypeOK
<1>2. \A t \in Transfers : Landed(t) => Landed(t)'
  BY LandedStays
<1>3. ASSUME NEW p \in Procs, proc'[p] # Idle
      PROVE  AllLanded(proc[p].list)'
  <2>1. proc'[p].list \in Seq(Transfers)
    BY <1>1, <1>3 DEF TypeInv, TypeOK, ProcTypeOK, Busy
  <2>2. \A k \in DOMAIN proc'[p].list : Landed(proc'[p].list[k])
    <3>1. CASE proc[p] # Idle /\ proc'[p].list = proc[p].list
      BY <3>1 DEF HeardIsLanded, AllLanded
    <3>2. CASE proc'[p].list = <<>>
      BY <3>2
    <3>3. CASE stream # <<>> /\ proc'[p].list = <<Head(stream)>>
      <4>1. Head(stream) = stream[1] /\ 1 \in DOMAIN stream
        BY <1>1, <3>3
      <4>2. Landed(Head(stream))
        BY <4>1 DEF HeardIsLanded, AllLanded
      <4> QED
        BY <3>3, <4>2
    <3>4. CASE \E i \in Invoices : proc'[p].list \in IndexedTransfers(i)
      <4>1. PICK i \in Invoices : proc'[p].list \in IndexedTransfers(i)
        BY <3>4
      <4>2. \A list \in IndexedTransfers(i) : AllLanded(list)
        BY IndexedIsLanded
      <4> QED
        BY <4>1, <4>2 DEF AllLanded
    <3> QED
      BY <1>3, <3>1, <3>2, <3>3, <3>4, ListSources DEF ListFrom
  <2>3. \A k \in DOMAIN proc'[p].list : proc'[p].list[k] \in Transfers
    BY <2>1
  <2> QED
    BY <1>2, <2>2, <2>3 DEF AllLanded
<1>4. AllLanded(stream)'
  <2>1. \A k \in DOMAIN stream : \A t \in {stream[k]} : t \in Transfers /\ Landed(t)'
    <3>1. \A k \in DOMAIN stream : stream[k] \in Transfers
      BY <1>1
    <3>2. \A k \in DOMAIN stream : Landed(stream[k])
      BY DEF HeardIsLanded, AllLanded
    <3> QED
      BY <1>2, <3>1, <3>2
  <2>2. CASE stream' \in {stream, <<>>}
    BY <2>1, <2>2 DEF AllLanded
  <2>3. CASE stream # <<>> /\ stream' = Tail(stream)
    <3>1. \A k \in DOMAIN stream' : k + 1 \in DOMAIN stream /\ stream'[k] = stream[k + 1]
      BY <1>1, <2>3
    <3>2. ASSUME NEW k \in DOMAIN stream' PROVE \A t \in {stream'[k]} : Landed(t)'
      BY <2>1, <3>1
    <3> QED
      BY <3>2 DEF AllLanded
  <2>4. ASSUME NEW t \in Transfers, TransferLands(t), stream' = Append(stream, t)
        PROVE  AllLanded(stream)'
    <3>1. Landed(t)'
      <4> DEFINE i == InvoiceOf[t]
      <4>1. /\ landed \in [Invoices -> Seq(Transfers)] /\ i \in Invoices
            /\ landed' = [landed EXCEPT ![i] = Append(landed[i], t)]
        BY <2>4, TransfersAssumption DEF TransferLands, TypeInv, TypeOK, EnvTypeOK
      <4>2. landed'[i] = Append(landed[i], t) /\ landed[i] \in Seq(Transfers)
        BY <4>1
      <4>3. Len(landed[i]) + 1 \in DOMAIN landed'[i] /\ landed'[i][Len(landed[i]) + 1] = t
        BY <4>2
      <4> QED
        BY <4>3 DEF Landed
    <3>2. \A k \in DOMAIN stream' :
            stream'[k] = t \/ (k \in DOMAIN stream /\ stream'[k] = stream[k])
      BY <1>1, <2>4
    <3> QED
      BY <2>1, <3>1, <3>2 DEF AllLanded
  <2> QED
    BY <2>2, <2>3, <2>4, StreamStep
<1>5. \A t \in recorded' : Landed(t)'
  <2>1. \A t \in recorded : Landed(t)'
    BY <1>1, <1>2 DEF HeardIsLanded
  <2>2. ASSUME NEW p \in Procs, StoreCommits(p) PROVE Landed(Tx(p)) /\ Tx(p) \in Transfers
    <3>1. proc[p].pc = "store" /\ proc[p] \in Busy /\ proc[p] # Idle
      BY <2>2, BusyRecord DEF StoreCommits, TypeInv, TypeOK, BusyPc
    <3>2. proc[p].next \in DOMAIN proc[p].list
      BY <3>1 DEF TypeInv, WellFormed, Sensible, Busy
    <3> QED
      BY <2>2, <3>1, <3>2, TxFacts DEF HeardIsLanded, AllLanded, Tx, TypeInv
  <2>3. CASE UNCHANGED recorded
    BY <2>1, <2>3
  <2>4. ASSUME NEW p \in Procs, StoreCommits(p), recorded' = recorded \cup {Tx(p)}
        PROVE  \A t \in recorded' : Landed(t)'
    <3>1. \A t \in {Tx(p)} : Landed(t)'
      BY <1>2, <2>2, <2>4
    <3> QED
      BY <2>1, <2>4, <3>1
  <2> QED
    BY <2>3, <2>4, RecordedStep
<1> QED
  BY <1>3, <1>4, <1>5 DEF HeardIsLanded

(* A transfer is added to the sum of its invoice, once, and to no other.   *)
LEMMA SumsStep ==
  ASSUME TypeInv, SumsAreExact, [Next]_vars
  PROVE  SumsAreExact'
<1>1. CASE UNCHANGED <<recorded, received>>
  BY <1>1 DEF SumsAreExact, RecordedFor
<1>2. ASSUME NEW p \in Procs, Tx(p) \in Transfers \ recorded,
             recorded' = recorded \cup {Tx(p)},
             received' = [received EXCEPT ![InvoiceOf[Tx(p)]] = @ + AmountOf[Tx(p)]]
      PROVE  SumsAreExact'
  <2> DEFINE t == Tx(p)
             j == InvoiceOf[t]
  <2>1. /\ received \in [Invoices -> Nat] /\ recorded \subseteq Transfers
        /\ AmountOf \in [Transfers -> Nat] /\ j \in Invoices
    BY <1>2, TransfersAssumption DEF TypeInv, TypeOK, DbTypeOK
  <2>2. IsFiniteSet(recorded')
    BY <1>2, FS_AddElement DEF SumsAreExact
  <2>3. ASSUME NEW i \in Invoices
        PROVE  received'[i] = SumOf(AmountOf, {u \in recorded' : InvoiceOf[u] = i})
    <3> DEFINE old == {u \in recorded : InvoiceOf[u] = i}
               new == {u \in recorded' : InvoiceOf[u] = i}
    <3>1. received[i] = SumOf(AmountOf, old)
      BY DEF SumsAreExact, RecordedFor
    <3>2. CASE i # j
      <4>1. new = old
        BY <1>2, <3>2
      <4>2. received'[i] = received[i]
        BY <1>2, <2>1, <3>2
      <4> QED
        BY <3>1, <4>1, <4>2
    <3>3. CASE i = j
      <4>1. t \in new /\ new \ {t} = old /\ new \in SUBSET Transfers /\ IsFiniteSet(new)
        BY <1>2, <2>1, <2>2, <3>3, FS_Subset
      <4>2. received'[i] = received[i] + AmountOf[t]
        BY <1>2, <2>1, <3>3
      <4>3. AmountOf[t] \in Nat /\ received[i] \in Nat
        BY <1>2, <2>1
      <4> HIDE DEF new, old
      <4>4. SumOf(AmountOf, new) = AmountOf[t] + SumOf(AmountOf, old)
        BY <2>1, <4>1, SumTakesOut
      <4> QED
        BY <3>1, <4>2, <4>3, <4>4 DEF new
    <3> QED
      BY <3>2, <3>3
  <2> QED
    BY <2>2, <2>3 DEF SumsAreExact, RecordedFor
<1> QED
  BY <1>1, <1>2, RecordedStep

(* Every order is earned by a recorded transfer, and an invoice that is    *)
(* paid in part has one that has not ordered anything yet.                 *)
Earned(i) ==
  LET counted == Cardinality({t \in recorded : InvoiceOf[t] = i})
  IN
  /\ Len(payouts[i]) <= counted /\ Len(refunds[i]) <= counted
  /\ row[i].status = "PartiallyPaid" => counted > 0
OrdersAreEarned == \A i \in Invoices : Earned(i)

(* A commit of the recorder counts one transfer more, and orders at most   *)
(* one payout and one refund.                                              *)
LEMMA StoreEarns ==
  ASSUME TypeInv, SumsAreExact, NEW p \in Procs, StoreCommits(p),
         NEW i \in Invoices, i = proc[p].id, Earned(i)
  PROVE  Earned(i)'
<1> DEFINE old == {t \in recorded : InvoiceOf[t] = i}
           new == {t \in recorded' : InvoiceOf[t] = i}
<1>1. /\ Tx(p) \in Transfers \ recorded /\ InvoiceOf[Tx(p)] = i
      /\ recorded' = recorded \cup {Tx(p)}
  BY StoreRecords
<1>2. new = old \cup {Tx(p)} /\ Tx(p) \notin old
  BY <1>1
<1>3. IsFiniteSet(old)
  BY FS_Subset DEF SumsAreExact
<1>4. Cardinality(old) \in Nat
  BY <1>3, FS_CardinalityType
<1> HIDE DEF old, new
<1>5. Cardinality(new) = Cardinality(old) + 1
  BY <1>2, <1>3, FS_AddElement
<1>6. /\ payouts[i] \in Seq(Int) /\ refunds[i] \in Seq(Int)
      /\ UpdatedReceivedAmount(p) \in Int /\ row[i].amount \in Int
  <2>1. payouts[i] \in Seq(Int) /\ refunds[i] \in Seq(Int) /\ row[i].amount \in Int
    BY DEF TypeInv, TypeOK, DbTypeOK
  <2>2. UpdatedReceivedAmount(p) \in Nat
    BY UpdatedFacts DEF StoreCommits, TypeInv
  <2> QED
    BY <2>1, <2>2
<1>7. /\ payouts'[i] = payouts[i] \/ \E x \in Int : payouts'[i] = Append(payouts[i], x)
      /\ refunds'[i] = refunds[i] \/ \E x \in Int : refunds'[i] = Append(refunds[i], x)
  <2> DEFINE s == UpdatedStatus(p)
             total == UpdatedReceivedAmount(p)
             amount == row[i].amount
  <2>1. /\ s \in {"PartiallyPaid", "Paid", "OverPaid"}
        /\ s = "PartiallyPaid" =>
             payouts'[i] = payouts[i] /\ refunds'[i] = refunds[i]
        /\ s = "Paid" =>
             payouts'[i] = Append(payouts[i], total) /\ refunds'[i] = refunds[i]
        /\ s = "OverPaid" =>
             /\ payouts'[i] = Append(payouts[i], amount)
             /\ refunds'[i] = Append(refunds[i], total - amount)
    BY StoreBooks
  <2>2. total \in Int /\ amount \in Int /\ total - amount \in Int
    BY <1>6
  <2> HIDE DEF s, total, amount
  <2> QED
    BY <2>1, <2>2
<1>8. /\ Len(payouts'[i]) <= Len(payouts[i]) + 1
      /\ Len(refunds'[i]) <= Len(refunds[i]) + 1
  <2>1. \A q \in Seq(Int), x \in Int : Len(Append(q, x)) = Len(q) + 1
    OBVIOUS
  <2>2. \A q \in Seq(Int) : Len(q) \in Nat
    OBVIOUS
  <2> QED
    BY <1>6, <1>7, <2>1, <2>2
<1>9. Len(payouts[i]) <= Cardinality(old) /\ Len(refunds[i]) <= Cardinality(old)
  BY DEF Earned, old
<1>10. Len(payouts[i]) \in Nat /\ Len(refunds[i]) \in Nat
  BY <1>6
<1>11. Len(payouts'[i]) \in Nat /\ Len(refunds'[i]) \in Nat
  <2>1. \A q \in Seq(Int), x \in Int : Append(q, x) \in Seq(Int)
    OBVIOUS
  <2>2. payouts'[i] \in Seq(Int) /\ refunds'[i] \in Seq(Int)
    BY <1>6, <1>7, <2>1
  <2> QED
    BY <2>2
<1>12. /\ Len(payouts'[i]) <= Cardinality(new) /\ Len(refunds'[i]) <= Cardinality(new)
       /\ Cardinality(new) > 0
  BY <1>4, <1>5, <1>8, <1>9, <1>10, <1>11
<1> QED
  BY <1>12 DEF Earned, new

(* An expiration orders the refund of an invoice that was paid in part and *)
(* has no orders yet.                                                      *)
LEMMA ExpireEarns ==
  ASSUME TypeInv, SettlementsAreLate, OneExpiry, SumsAreExact, ExpireCommits,
         NEW i \in Invoices, i = proc["expirer"].id, Earned(i)
  PROVE  Earned(i)'
<1> DEFINE counted == {t \in recorded : InvoiceOf[t] = i}
<1>1. row[i].status \notin InvoiceExpired
  BY DEF ExpireCommits, OneExpiry, Unfinished
<1>2. UNCHANGED recorded
  BY DEF ExpireCommits
<1>3. /\ payouts'[i] = payouts[i]
      /\ \/ /\ row'[i].status = "UnpaidExpired"
            /\ refunds'[i] = refunds[i]
         \/ /\ row[i].status = "PartiallyPaid"
            /\ row'[i].status = "PartiallyPaidExpired"
            /\ refunds'[i] = Append(refunds[i], proc["expirer"].copy.total)
  BY <1>1, ExpireBooks DEF InvoiceExpired
<1>4. CASE row'[i].status = "UnpaidExpired"
  BY <1>2, <1>3, <1>4 DEF Earned
<1>5. CASE row'[i].status = "PartiallyPaidExpired"
  <2>1. row[i].status = "PartiallyPaid" /\ refunds[i] = <<>>
    BY <1>3, <1>5 DEF SettlementsAreLate, InvoiceActive
  <2>2. Len(refunds'[i]) = 1
    <3>1. refunds'[i] = Append(<<>>, proc["expirer"].copy.total)
      BY <1>3, <1>5, <2>1
    <3>2. \A x : Append(<<>>, x) = <<x>>
      OBVIOUS
    <3>3. \A x : Len(<<x>>) = 1
      OBVIOUS
    <3> QED
      BY <3>1, <3>2, <3>3
  <2>3. IsFiniteSet(counted)
    BY FS_Subset DEF SumsAreExact
  <2>4. Cardinality(counted) \in Nat
    BY <2>3, FS_CardinalityType
  <2>5. Cardinality(counted) > 0 /\ Len(payouts[i]) <= Cardinality(counted)
    BY <2>1 DEF Earned
  <2> HIDE DEF counted
  <2>6. Len(refunds'[i]) <= Cardinality(counted)
    BY <2>2, <2>4, <2>5
  <2> QED
    BY <1>2, <1>3, <1>5, <2>5, <2>6 DEF Earned, counted
<1> QED
  BY <1>3, <1>4, <1>5

(* Every step keeps the orders earned.                                     *)
LEMMA EarnedStep ==
  ASSUME TypeInv, SettlementsAreLate, OneExpiry, SumsAreExact, OrdersAreEarned,
         [Next]_vars
  PROVE  OrdersAreEarned'
<1> SUFFICES ASSUME NEW j \in Invoices
             PROVE  Earned(j)'
  BY DEF OrdersAreEarned
<1>1. Earned(j)
  BY DEF OrdersAreEarned
<1>2. CASE BooksUnchanged
  BY <1>1, <1>2 DEF BooksUnchanged, Earned
<1>3. ASSUME UNCHANGED <<recorded, payouts, refunds>>,
             row'[j].status = row[j].status \/ row'[j].status # "PartiallyPaid"
      PROVE  Earned(j)'
  BY <1>1, <1>3 DEF Earned
<1>4. ASSUME NEW i \in Invoices, NEW a \in Amounts,
             CreateInvoice(i, a) \/ UpdateInvoice(i, a)
      PROVE  Earned(j)'
  <2>1. UNCHANGED recorded
    BY <1>4 DEF CreateInvoice, UpdateInvoice
  <2>2. /\ Others(i) /\ UNCHANGED <<payouts, refunds>>
        /\ row'[i].status = "Waiting"
    BY <1>4, CreateBooks, UpdateBooks
  <2> QED
    BY <1>3, <2>1, <2>2 DEF Others
<1>5. ASSUME NEW i \in Invoices, CancelUpdates(i)
      PROVE  Earned(j)'
  <2>1. UNCHANGED recorded
    BY <1>5 DEF CancelUpdates
  <2>2. /\ Others(i) /\ UNCHANGED <<payouts, refunds>>
        /\ row'[i].status = "AdminCanceled"
    BY <1>5, CancelBooks
  <2> QED
    BY <1>3, <2>1, <2>2 DEF Others
<1>6. ASSUME NEW p \in Procs, StoreCommits(p)
      PROVE  Earned(j)'
  <2>1. CASE proc[p].id = j
    BY <1>1, <1>6, <2>1, StoreEarns
  <2>2. CASE proc[p].id # j
    <3>1. /\ row'[j].status = row[j].status
          /\ payouts'[j] = payouts[j] /\ refunds'[j] = refunds[j]
      BY <1>6, <2>2, StoreBooks DEF Others
    <3>2. {t \in recorded' : InvoiceOf[t] = j} = {t \in recorded : InvoiceOf[t] = j}
      BY <1>6, <2>2, StoreRecords
    <3> QED
      BY <1>1, <3>1, <3>2 DEF Earned
  <2> QED
    BY <2>1, <2>2
<1>7. CASE ExpireCommits
  <2>1. CASE proc["expirer"].id = j
    BY <1>1, <1>7, <2>1, ExpireEarns
  <2>2. CASE proc["expirer"].id # j
    <3>1. /\ row'[j].status = row[j].status
          /\ payouts'[j] = payouts[j] /\ refunds'[j] = refunds[j]
      BY <1>7, <2>2, ExpireBooks DEF Others
    <3>2. UNCHANGED recorded
      BY <1>7 DEF ExpireCommits
    <3> QED
      BY <1>1, <3>1, <3>2 DEF Earned
  <2> QED
    BY <2>1, <2>2
<1> QED
  BY <1>2, <1>4, <1>5, <1>6, <1>7, BooksStep

(* What was recorded for an invoice has its places in the list of what     *)
(* landed, so it does not add up to more.                                  *)
LEMMA RecordedIsCovered ==
  ASSUME TypeInv, CountedInv, NEW i \in Invoices
  PROVE  SumOf(AmountOf, RecordedFor(i)) <= TotalAmount(landed[i])
<1> DEFINE S == RecordedFor(i)
           E == DOMAIN landed[i]
           g == [k \in E |-> AmountOf[landed[i][k]]]
           h == [t \in S |-> CHOOSE k \in E : landed[i][k] = t]
<1>1. /\ landed[i] \in Seq(Transfers) /\ recorded \subseteq Transfers
      /\ AmountOf \in [Transfers -> Nat]
  BY TransfersAssumption DEF TypeInv, TypeOK, EnvTypeOK, DbTypeOK
<1>2. E = 1 .. Len(landed[i]) /\ IsFiniteSet(E) /\ g \in [E -> Nat] /\ DOMAIN g = E
  BY <1>1, FS_Interval
<1>3. S \in SUBSET Transfers /\ IsFiniteSet(S)
  BY <1>1, FS_Subset DEF RecordedFor, CountedInv, SumsAreExact
<1>4. \A t \in S : \E k \in E : landed[i][k] = t
  BY DEF RecordedFor, CountedInv, HeardIsLanded, Landed
<1>5. \A t \in S : h[t] \in E /\ landed[i][h[t]] = t
  BY <1>4
<1>6. h \in [S -> E]
  BY <1>5
<1>7. \A t, u \in S : h[t] = h[u] => t = u
  BY <1>5
<1>8. \A t \in S : AmountOf[t] = g[h[t]]
  BY <1>5
<1>9. TotalAmount(landed[i]) = SumOf(g, E)
  <2>1. TotalAmount(landed[i]) = SumFunction(g)
    BY DEF TotalAmount
  <2> HIDE DEF g
  <2> QED
    BY <1>2, <2>1, SumFunctionIsSum
<1> HIDE DEF S, E, g, h
<1>10. SumOf(AmountOf, S) <= SumOf(g, E)
  BY <1>1, <1>2, <1>3, <1>6, <1>7, <1>8, SumIsCovered
<1> QED
  BY <1>9, <1>10 DEF S

(* The tracker, the expiration detector and the swaps tracker may all find *)
(* the same transfer; it is counted once, only if it is on the chain, and  *)
(* orders at most one payout and one refund, for any transfers, amounts    *)
(* and hashes, whether or not the settlements were serial.                 *)
THEOREM CountedOnceAlways == Spec => []CountedOnce
<1>1. Init => CountedInv /\ OrdersAreEarned
  <2> SUFFICES ASSUME Init PROVE CountedInv /\ OrdersAreEarned
    OBVIOUS
  <2>1. /\ recorded = {} /\ received = [i \in Invoices |-> 0] /\ stream = <<>>
        /\ proc = [p \in Procs |-> Idle]
        /\ payouts = [i \in Invoices |-> <<>>] /\ refunds = [i \in Invoices |-> <<>>]
        /\ \A i \in Invoices : row[i].status = "Absent"
    BY DEF Init, DbInit, TrackerInit
  <2>2. HeardIsLanded
    BY <2>1 DEF HeardIsLanded, AllLanded
  <2>3. ASSUME NEW i \in Invoices PROVE received[i] = SumOf(AmountOf, RecordedFor(i))
    <3>1. RecordedFor(i) = {}
      BY <2>1 DEF RecordedFor
    <3>2. SumOf(AmountOf, {}) = 0
      BY SumIs, FS_EmptySet, TransfersAssumption
    <3> QED
      BY <2>1, <3>1, <3>2
  <2>4. OrdersAreEarned
    <3> SUFFICES ASSUME NEW i \in Invoices PROVE Earned(i)
      BY DEF OrdersAreEarned
    <3>1. {t \in recorded : InvoiceOf[t] = i} = {}
      BY <2>1
    <3>2. Len(payouts[i]) = 0 /\ Len(refunds[i]) = 0
      BY <2>1
    <3> QED
      BY <2>1, <3>1, <3>2, FS_EmptySet DEF Earned
  <2> QED
    BY <2>1, <2>2, <2>3, <2>4, FS_EmptySet DEF CountedInv, SumsAreExact
<1>2. TypeInv /\ CountedInv /\ [Next]_vars => CountedInv'
  BY HeardStep, SumsStep DEF CountedInv
<1>3. /\ TypeInv /\ SettlementsAreLate /\ OneExpiry /\ CountedInv /\ OrdersAreEarned
      /\ [Next]_vars
      => OrdersAreEarned'
  BY EarnedStep DEF CountedInv
<1>4. TypeInv /\ CountedInv /\ OrdersAreEarned => CountedOnce
  <2> SUFFICES ASSUME TypeInv, CountedInv, OrdersAreEarned, NEW i \in Invoices
               PROVE  LET counted == {t \in recorded : InvoiceOf[t] = i}
                      IN
                      /\ received[i] = MapThenSumSet(LAMBDA t : AmountOf[t], counted)
                      /\ received[i] <= TotalAmount(landed[i])
                      /\ Len(payouts[i]) <= Cardinality(counted)
                      /\ Len(refunds[i]) <= Cardinality(counted)
    BY DEF CountedOnce
  <2>1. received[i] = SumOf(AmountOf, RecordedFor(i))
    BY DEF CountedInv, SumsAreExact
  <2>2. MapThenSumSet(LAMBDA t : AmountOf[t], {t \in recorded : InvoiceOf[t] = i})
          = SumOf(AmountOf, {t \in recorded : InvoiceOf[t] = i})
    BY DEF MapThenSumSet, MapThenFoldSet, SumOf, Sums, Pick
  <2>3. /\ Len(payouts[i]) <= Cardinality({t \in recorded : InvoiceOf[t] = i})
        /\ Len(refunds[i]) <= Cardinality({t \in recorded : InvoiceOf[t] = i})
    BY DEF OrdersAreEarned, Earned
  <2> QED
    BY <2>1, <2>2, <2>3, RecordedIsCovered DEF RecordedFor
<1> QED
  BY <1>1, <1>2, <1>3, <1>4, TypeInvariant, SettlementsAlways,
     OneExpiryAlways, PTL DEF Spec

-----------------------------------------------------------------------------
(* What is ordered out of an invoice, its payouts and refunds together.    *)
Ordered(i) == SumFunction(payouts[i]) + SumFunction(refunds[i])

LEMMA SumOfNone == SumFunction(<<>>) = 0
<1>1. <<>> \in [{} -> Nat] /\ DOMAIN <<>> = {}
  OBVIOUS
<1> QED
  BY <1>1, SumFunctionIsSum, SumIs, FS_EmptySet

LEMMA SumOfOne ==
  ASSUME NEW x \in Nat
  PROVE  SumFunction(<<x>>) = x
<1> DEFINE f == <<x>>
<1>1. f \in [{1} -> Nat] /\ DOMAIN f = {1} /\ f[1] = x
  OBVIOUS
<1>2. IsFiniteSet({1}) /\ IsFiniteSet({})
  BY FS_Singleton, FS_EmptySet
<1>3. {1} \ {1} = {}
  OBVIOUS
<1> HIDE DEF f
<1>4. SumOf(f, {1}) = f[1] + SumOf(f, {})
  BY <1>1, <1>2, <1>3, SumTakesOut
<1>5. SumOf(f, {}) = 0
  BY <1>1, <1>2, SumIs
<1>6. SumFunction(f) = x
  BY <1>1, <1>4, <1>5, SumFunctionIsSum
<1> QED
  BY <1>6 DEF f

(* Exact accounts give out what was received, or nothing.                  *)
LEMMA ExactGivesOut ==
  ASSUME TypeInv, NEW i \in Invoices, ExactAccounts(i)
  PROVE  Ordered(i) \in {0, received[i]}
<1> DEFINE r == received[i]
           a == row[i].amount
           s == row[i].status
<1>1. r \in Nat
  BY DEF TypeInv, TypeOK, DbTypeOK
<1>2. CASE s \notin {"Paid", "OverPaid", "PartiallyPaidExpired"}
  <2>1. payouts[i] = <<>> /\ refunds[i] = <<>>
    BY <1>2 DEF ExactAccounts
  <2> QED
    BY <2>1, SumOfNone DEF Ordered
<1>3. CASE s = "Paid"
  <2>1. payouts[i] = <<r>> /\ refunds[i] = <<>>
    BY <1>3 DEF ExactAccounts
  <2> QED
    BY <1>1, <2>1, SumOfNone, SumOfOne DEF Ordered
<1>4. CASE s = "PartiallyPaidExpired"
  <2>1. payouts[i] = <<>> /\ refunds[i] = <<r>>
    BY <1>4 DEF ExactAccounts
  <2> QED
    BY <1>1, <2>1, SumOfNone, SumOfOne DEF Ordered
<1>5. CASE s = "OverPaid"
  <2>1. payouts[i] = <<a>> /\ refunds[i] = <<r - a>> /\ r > a + OverTolerance
    BY <1>5 DEF ExactAccounts
  <2>2. a \in Nat
    BY <1>5 DEF TypeInv, TypeOK, DbTypeOK
  <2>3. r - a \in Nat
    BY <1>1, <2>1, <2>2, ToleranceAssumption
  <2>4. SumFunction(payouts[i]) = a /\ SumFunction(refunds[i]) = r - a
    BY <2>1, <2>2, <2>3, SumOfOne
  <2> QED
    BY <1>1, <2>2, <2>4 DEF Ordered
<1> QED
  BY <1>2, <1>3, <1>4, <1>5

(* The total of what has landed is a number.                               *)
LEMMA TotalIsNat ==
  ASSUME TypeInv, NEW i \in Invoices
  PROVE  TotalAmount(landed[i]) \in Nat
<1> DEFINE E == DOMAIN landed[i]
           g == [k \in E |-> AmountOf[landed[i][k]]]
<1>1. landed[i] \in Seq(Transfers) /\ AmountOf \in [Transfers -> Nat]
  BY TransfersAssumption DEF TypeInv, TypeOK, EnvTypeOK
<1>2. IsFiniteSet(E) /\ g \in [E -> Nat] /\ DOMAIN g = E
  <2>1. E = 1 .. Len(landed[i]) /\ Len(landed[i]) \in Nat
    BY <1>1
  <2>2. IsFiniteSet(E)
    BY <2>1, FS_Interval
  <2>3. \A k \in E : landed[i][k] \in Transfers
    BY <1>1, <2>1
  <2> QED
    BY <1>1, <2>2, <2>3
<1>3. TotalAmount(landed[i]) = SumFunction(g)
  BY DEF TotalAmount
<1> HIDE DEF E, g
<1>4. SumOf(g, E) \in Nat
  BY <1>2, SumIs
<1> QED
  BY <1>2, <1>3, <1>4, SumFunctionIsSum

(* From the chain to the orders: as long as every settlement of an invoice *)
(* was made from an up-to-date snapshot, its payouts and refunds together  *)
(* are no more than what its customers sent.  (A payout ordered by hand is *)
(* of a fixed amount that nobody compares with the chain.)                 *)
OrderedIsLanded ==
  \A i \in Invoices : serial[i] => Ordered(i) <= TotalAmount(landed[i])

(* It holds whatever the recording tasks find twice, for any transfers,    *)
(* amounts and tolerances: the recorder orders out what the database       *)
(* received, and the database counts what is on the chain once.            *)
THEOREM OrderedIsLandedAlways == Spec => []OrderedIsLanded
<1>1. TypeInv /\ SerialMeansExact /\ CountedOnce => OrderedIsLanded
  <2> SUFFICES ASSUME TypeInv, SerialMeansExact, CountedOnce,
                      NEW i \in Invoices, serial[i]
               PROVE  Ordered(i) <= TotalAmount(landed[i])
    BY DEF OrderedIsLanded
  <2>1. received[i] \in Nat /\ TotalAmount(landed[i]) \in Nat
    BY TotalIsNat DEF TypeInv, TypeOK, DbTypeOK
  <2>2. received[i] <= TotalAmount(landed[i])
    BY DEF CountedOnce
  <2>3. Ordered(i) \in {0, received[i]}
    BY ExactGivesOut DEF SerialMeansExact
  <2> QED
    BY <2>1, <2>2, <2>3
<1> QED
  BY <1>1, TypeInvariant, SerialMeansExactAlways, CountedOnceAlways, PTL
=============================================================================
