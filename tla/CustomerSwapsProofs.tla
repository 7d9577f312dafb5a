------------------------ MODULE CustomerSwapsProofs ------------------------
(***************************************************************************)
(* The safety of CustomerSwaps, for any number of swaps in any direction,  *)
(* any number of signatures for each and any number of faults.             *)
(***************************************************************************)
EXTENDS CustomerSwaps, TLAPS

(* The executors that detect picks from: Bungee is never chosen.           *)
Detected == {"Across", "ZeroEx", "ZeroExGasless"}
Fates == {"none", "pending", "executed", "failed"}

(* The fields a quote may leave in swap_details.                           *)
Fields == {"transaction", "approval_transactions", "allowance_target",
           "raw_transaction", "raw_trade", "approval"}

SwapRow ==
  [status : SwapStatus \cup {"Absent"}, executor : Detected \cup {None},
   details : SUBSET Fields, approval : BOOLEAN, signature : Nat, hash : Nat]

Shape ==
  /\ swap \in [Swaps -> SwapRow]
  /\ quoting \in [Swaps -> Detected \cup {None}]
  /\ calls \subseteq Calls
  /\ DOMAIN fate = Swaps
  /\ \A s \in Swaps : fate[s] \in [Signed(s) -> Fates]
  /\ watched \in [Swaps -> Nat]
  /\ up \in BOOLEAN
  /\ received \in BOOLEAN

(* A quote is asked for once, before there is a row; a swap has an         *)
(* executor that was detected for its direction; and only the transaction  *)
(* of a customer can fail, since the gasless provider knows no failure.    *)
Origins ==
  \A s \in Swaps :
    /\ quoting[s] # None => swap[s].status = "Absent"
    /\ "ZeroExGasless" \in {quoting[s], swap[s].executor} => Direction[s] = "Outgoing"
    /\ swap[s].status # "Absent" => swap[s].executor # None
    /\ \A n \in Signed(s) : fate[s][n] = "failed" => Direction[s] = "Incoming"

(* A hash is recorded of a transaction that has been sent.                 *)
HashesAreSent ==
  /\ \A c \in calls : c.pc = "record" => fate[c.swap][c.n] # "none"
  /\ \A s \in Swaps : swap[s].status \in {"Submitted", "Pending", "Completed", "Failed"} =>
       /\ swap[s].hash \in Signed(s)
       /\ fate[s][swap[s].hash] # "none"

(* The strengthening that makes the properties inductive.                  *)
SwapsInv ==
  /\ Shape
  /\ Origins
  /\ HashesAreSent
  /\ CopiesAreTrue
  /\ EndIsTrue

-----------------------------------------------------------------------------
(* The transactions of a swap are numbered from 1, so no hash is Nothing.  *)
LEMMA SignedType ==
  ASSUME NEW s \in Swaps
  PROVE  Signed(s) \subseteq Nat \ {Nothing}
BY SwapsAssumption DEF Signed, Nothing

(* A call under way is for a swap and one of its transactions.             *)
LEMMA CallType ==
  ASSUME NEW c \in Calls
  PROVE  /\ c.swap \in Swaps
         /\ c.n \in Signed(c.swap)
         /\ [c EXCEPT !.pc = "record"] \in Calls
         /\ [c EXCEPT !.pc = "record"].swap = c.swap
         /\ [c EXCEPT !.pc = "record"].n = c.n
<1>1. PICK s \in Swaps : c \in [swap : {s}, n : Signed(s), parts : 1 .. 2,
                                pc : {"submit", "record"}]
  BY DEF Calls
<1>2. c.swap = s /\ c.n \in Signed(s)
  BY <1>1
<1>3. [c EXCEPT !.pc = "record"] \in [swap : {s}, n : Signed(s), parts : 1 .. 2,
                                      pc : {"submit", "record"}]
  BY <1>1
<1>4. [c EXCEPT !.pc = "record"].swap = c.swap /\ [c EXCEPT !.pc = "record"].n = c.n
  BY <1>1
<1> QED
  BY <1>2, <1>3, <1>4 DEF Calls

(* What is stored of a quote has the fields of its executor.               *)
LEMMA DetailsType ==
  ASSUME NEW executor \in Detected
  PROVE  QuoteDetails(executor) \subseteq Fields
<1>1. CASE executor = "Across"
  <2>1. Details(executor) = AcrossDetails
    BY <1>1 DEF Details
  <2> QED
    BY <2>1 DEF QuoteDetails, AcrossDetails, Fields
<1>2. CASE executor = "ZeroEx"
  <2>1. Details(executor) = ZeroExDetails
    BY <1>2 DEF Details
  <2> QED
    BY <2>1 DEF QuoteDetails, ZeroExDetails, Fields
<1>3. CASE executor = "ZeroExGasless"
  <2>1. Details(executor) = ZeroExGaslessDetails
    BY <1>3 DEF Details
  <2> QED
    BY <2>1 DEF QuoteDetails, ZeroExGaslessDetails, Fields
<1> QED
  BY <1>1, <1>2, <1>3 DEF Detected

(* What the answer of a provider means, if it is asked about a transaction *)
(* it has, and if that cannot have failed with the gasless provider.       *)
LEMMA AnswerIsTrue ==
  ASSUME NEW executor \in Detected, NEW f \in {"pending", "executed", "failed"},
         executor = "ZeroExGasless" => f # "failed",
         NEW answer \in Answers(executor, f)
  PROVE  /\ get_transaction_status(executor, answer) = "Executed" => f = "executed"
         /\ get_transaction_status(executor, answer) = "Failed" => f = "failed"
<1>1. CASE executor = "Across"
  <2>1. /\ get_transaction_status(executor, answer) = FromAcross(answer)
        /\ f = "pending" => answer = "Pending"
        /\ f = "executed" => answer = "Filled"
        /\ f = "failed" => answer \in {"Expired", "Refunded"}
    BY <1>1 DEF get_transaction_status, Answers
  <2> QED
    BY <2>1 DEF FromAcross
<1>2. CASE executor = "ZeroEx"
  <2>1. /\ get_transaction_status(executor, answer) = FromZeroEx(answer)
        /\ f = "pending" => answer = "NotFound"
        /\ f = "executed" => answer = "Executed"
        /\ f = "failed" => answer = "FailedOnChain"
    BY <1>2 DEF get_transaction_status, Answers
  <2> QED
    BY <2>1 DEF FromZeroEx
<1>3. CASE executor = "ZeroExGasless"
  <2>1. /\ get_transaction_status(executor, answer) = FromZeroExGasless(answer)
        /\ f = "pending" => answer \in {"Pending", "Submitted", "Succeeded"}
        /\ f = "executed" => answer = "Confirmed"
    BY <1>3 DEF get_transaction_status, Answers
  <2> QED
    BY <1>3, <2>1 DEF FromZeroExGasless
<1> QED
  BY <1>1, <1>2, <1>3 DEF Detected

(* It holds initially.                                                     *)
LEMMA InitInv == SwapsInit => SwapsInv
<1> SUFFICES ASSUME SwapsInit PROVE SwapsInv
  OBVIOUS
<1>1. Absent \in SwapRow
  BY DEF Absent, SwapRow, Nothing
<1>2. Shape
  BY <1>1 DEF SwapsInit, Shape, Nothing, Fates
<1>3. Origins /\ HashesAreSent /\ CopiesAreTrue /\ EndIsTrue
  BY DEF SwapsInit, Origins, HashesAreSent, CopiesAreTrue, EndIsTrue, Absent, None
<1> QED
  BY <1>2, <1>3 DEF SwapsInv

-----------------------------------------------------------------------------
(* Steps that leave the rows and the tracker alone: what has been sent     *)
(* stays sent, and what has come to an end keeps it.                       *)
LEMMA FateInv ==
  ASSUME SwapsInv, Shape', Origins',
         UNCHANGED <<swap, watched, up>>,
         received => received',
         \A s \in Swaps : \A n \in Signed(s) :
           /\ fate[s][n] # "none" => fate'[s][n] # "none"
           /\ fate[s][n] \in {"executed", "failed"} => fate'[s][n] = fate[s][n],
         \A c \in calls' : c.pc = "record" => c \in calls \/ fate'[c.swap][c.n] # "none"
  PROVE  SwapsInv'
<1>1. HashesAreSent'
  <2>1. \A c \in calls' : c.pc = "record" => fate'[c.swap][c.n] # "none"
    <3> SUFFICES ASSUME NEW c \in calls, c.pc = "record"
                 PROVE  fate'[c.swap][c.n] # "none"
      OBVIOUS
    <3>1. c.swap \in Swaps /\ c.n \in Signed(c.swap)
      BY CallType DEF SwapsInv, Shape
    <3> QED
      BY <3>1 DEF SwapsInv, HashesAreSent
  <2> QED
    BY <2>1 DEF SwapsInv, HashesAreSent
<1>2. CopiesAreTrue'
  BY DEF SwapsInv, CopiesAreTrue
<1>3. EndIsTrue'
  <2> SUFFICES ASSUME NEW s \in Swaps
               PROVE  /\ swap[s].status = "Completed" =>
                           fate'[s][swap[s].hash] = "executed" /\ received'
                      /\ swap[s].status = "Failed" => fate'[s][swap[s].hash] = "failed"
    BY DEF EndIsTrue
  <2> QED
    BY DEF SwapsInv, EndIsTrue, HashesAreSent
<1> QED
  BY <1>1, <1>2, <1>3 DEF SwapsInv

(* Quotes, lapses and the end of the invoice.                              *)
LEMMA OutsideInv ==
  ASSUME SwapsInv,
         \/ \E s \in Swaps, from \in Chains : AskQuote(s, from)
         \/ \E s \in Swaps : QuoteFails(s) \/ Lapse(s)
         \/ InvoiceEnds
         \/ UNCHANGED swapVars
  PROVE  SwapsInv'
<1>1. /\ UNCHANGED <<swap, calls, fate, watched, up>>
      /\ received' \in BOOLEAN
      /\ received => received'
  BY DEF AskQuote, QuoteFails, Lapse, InvoiceEnds, swapVars, outside, SwapsInv, Shape
<1>2. \/ UNCHANGED quoting
      \/ \E s \in Swaps : quoting' = [quoting EXCEPT ![s] = None]
      \/ \E s \in Swaps : /\ swap[s].status = "Absent"
                          /\ \E e \in Detected :
                               /\ quoting' = [quoting EXCEPT ![s] = e]
                               /\ e = "ZeroExGasless" => Direction[s] = "Outgoing"
  BY DEF AskQuote, QuoteFails, Lapse, InvoiceEnds, swapVars, outside, Absent, detect,
       Detected, None
<1>3. Shape'
  BY <1>1, <1>2 DEF SwapsInv, Shape
<1>4. Origins'
  BY <1>1, <1>2 DEF SwapsInv, Shape, Origins, Detected, None
<1> QED
  BY <1>1, <1>3, <1>4, FateInv

(* A transaction is sent, or comes to its end.                             *)
LEMMA TransactionInv ==
  ASSUME SwapsInv, NEW s \in Swaps, NEW n \in Signed(s),
         CustomerSends(s, n) \/ TransactionEnds(s, n)
  PROVE  SwapsInv'
<1>1. UNCHANGED <<swap, quoting, calls, received, watched, up>>
  BY DEF CustomerSends, TransactionEnds
<1>2. PICK f \in Fates \ {"none"} :
        /\ fate' = [fate EXCEPT ![s][n] = f]
        /\ f = "failed" => Direction[s] = "Incoming"
        /\ fate[s][n] \in {"none", "pending"}
  BY DEF CustomerSends, TransactionEnds, Fates
<1>3. /\ DOMAIN fate' = Swaps
      /\ \A t \in Swaps : fate'[t] \in [Signed(t) -> Fates]
      /\ \A t \in Swaps : \A k \in Signed(t) :
           fate'[t][k] = IF t = s /\ k = n THEN f ELSE fate[t][k]
  BY <1>2 DEF SwapsInv, Shape
<1>4. Shape'
  BY <1>1, <1>3 DEF SwapsInv, Shape
<1>5. Origins'
  BY <1>1, <1>2, <1>3 DEF SwapsInv, Origins
<1> QED
  BY <1>1, <1>2, <1>3, <1>4, <1>5, FateInv

(* The daemon submits for its customer, or the call ends on the way.       *)
LEMMA SubmitInv ==
  ASSUME SwapsInv, NEW c \in calls, SubmitTransaction(c) \/ CallFails(c)
  PROVE  SwapsInv'
<1> DEFINE d == [c EXCEPT !.pc = "record"]
<1>1. /\ c.swap \in Swaps
      /\ c.n \in Signed(c.swap)
      /\ d \in Calls
      /\ d.swap = c.swap
      /\ d.n = c.n
  BY CallType DEF SwapsInv, Shape
<1>2. UNCHANGED <<swap, quoting, received, watched, up>>
  BY DEF SubmitTransaction, CallFails
<1>3. \/ UNCHANGED fate
      \/ fate' = [fate EXCEPT ![c.swap][c.n] = IF @ = "none" THEN "pending" ELSE @]
  BY DEF SubmitTransaction, CallFails
<1>4. /\ DOMAIN fate' = Swaps
      /\ \A t \in Swaps : fate'[t] \in [Signed(t) -> Fates]
      /\ \A t \in Swaps : \A k \in Signed(t) :
           \/ fate'[t][k] = fate[t][k]
           \/ fate[t][k] = "none" /\ fate'[t][k] = "pending"
  <2>1. CASE UNCHANGED fate
    BY <2>1 DEF SwapsInv, Shape
  <2>2. CASE fate' = [fate EXCEPT ![c.swap][c.n] = IF @ = "none" THEN "pending" ELSE @]
    BY <2>2, <1>1 DEF SwapsInv, Shape, Fates
  <2> QED
    BY <2>1, <2>2, <1>3
<1>5. \/ calls' = calls \ {c}
      \/ calls' = (calls \ {c}) \cup {d} /\ fate'[c.swap][c.n] # "none"
  <2>1. CASE CallFails(c)
    BY <2>1 DEF CallFails
  <2>2. CASE SubmitTransaction(c)
    <3>1. fate'[c.swap][c.n] # "none"
      BY <2>2, <1>1 DEF SubmitTransaction, SwapsInv, Shape
    <3> QED
      BY <2>2, <3>1 DEF SubmitTransaction
  <2> QED
    BY <2>1, <2>2
<1> HIDE DEF d
<1>6. Shape'
  BY <1>1, <1>2, <1>4, <1>5 DEF SwapsInv, Shape
<1>7. Origins'
  BY <1>2, <1>4 DEF SwapsInv, Origins
<1>8. \A b \in calls' : b \in calls \/ fate'[b.swap][b.n] # "none"
  BY <1>1, <1>5
<1> QED
  BY <1>2, <1>4, <1>6, <1>7, <1>8, FateInv

-----------------------------------------------------------------------------
(* Steps that change rows and leave the transactions alone.  Each row that *)
(* changes has the invariant's conditions on a row.                        *)
RowOK(s) ==
  /\ quoting[s] # None => swap[s].status = "Absent"
  /\ swap[s].executor = "ZeroExGasless" => Direction[s] = "Outgoing"
  /\ swap[s].status # "Absent" => swap[s].executor # None
  /\ swap[s].status \in {"Submitted", "Pending", "Completed", "Failed"} =>
       /\ swap[s].hash \in Signed(s)
       /\ fate[s][swap[s].hash] # "none"
  /\ up => watched[s] = IF swap[s].status = "Pending" THEN swap[s].hash ELSE Nothing
  /\ swap[s].status = "Completed" => fate[s][swap[s].hash] = "executed" /\ received
  /\ swap[s].status = "Failed" => fate[s][swap[s].hash] = "failed"

(* The invariant speaks of every row by itself.                            *)
LEMMA RowsAreOK ==
  ASSUME SwapsInv, NEW s \in Swaps
  PROVE  RowOK(s)
BY DEF SwapsInv, Origins, HashesAreSent, CopiesAreTrue, EndIsTrue, RowOK

(* A step that leaves the transactions alone keeps the invariant row by    *)
(* row.                                                                    *)
LEMMA RowsInv ==
  ASSUME SwapsInv, Shape', UNCHANGED fate,
         \A s \in Swaps : quoting'[s] \in {quoting[s], None},
         \A c \in calls' : c.pc = "record" => c \in calls,
         \A s \in Swaps : RowOK(s)'
  PROVE  SwapsInv'
<1>1. Origins'
  BY DEF SwapsInv, Origins, RowOK, None
<1>2. HashesAreSent'
  BY DEF SwapsInv, HashesAreSent, RowOK
<1>3. CopiesAreTrue' /\ EndIsTrue'
  BY DEF CopiesAreTrue, EndIsTrue, RowOK
<1> QED
  BY <1>1, <1>2, <1>3 DEF SwapsInv

(* The same for a step that changes one row.                               *)
LEMMA OneRowInv ==
  ASSUME SwapsInv, Shape', UNCHANGED <<fate, up>>, NEW s \in Swaps,
         received => received',
         \A t \in Swaps \ {s} : /\ swap'[t] = swap[t]
                                /\ watched'[t] = watched[t]
                                /\ quoting'[t] = quoting[t],
         quoting'[s] \in {quoting[s], None},
         \A c \in calls' : c.pc = "record" => c \in calls,
         RowOK(s)'
  PROVE  SwapsInv'
<1>1. \A t \in Swaps \ {s} : RowOK(t)'
  BY RowsAreOK DEF RowOK
<1> QED
  BY <1>1, RowsInv

(* The quote has come: there was no row before.                            *)
LEMMA CreateInv ==
  ASSUME SwapsInv, NEW s \in Swaps, CreateSwap(s)
  PROVE  SwapsInv'
<1>1. PICK approval \in BOOLEAN :
        swap' = [swap EXCEPT ![s] =
                  [status |-> "Created", executor |-> quoting[s],
                   details |-> QuoteDetails(quoting[s]), approval |-> approval,
                   signature |-> Nothing, hash |-> Nothing]]
  BY DEF CreateSwap
<1>2. /\ quoting[s] # None
      /\ quoting' = [quoting EXCEPT ![s] = None]
      /\ UNCHANGED <<calls, fate, received, watched, up>>
  BY DEF CreateSwap, outside
<1>3. quoting[s] \in Detected /\ swap[s].status = "Absent"
  BY <1>2 DEF SwapsInv, Shape, Origins
<1>4. QuoteDetails(quoting[s]) \subseteq Fields
  BY <1>3, DetailsType
<1>5. [status |-> "Created", executor |-> quoting[s], details |-> QuoteDetails(quoting[s]),
       approval |-> approval, signature |-> Nothing, hash |-> Nothing] \in SwapRow
  BY <1>3, <1>4 DEF SwapRow, SwapStatus, Nothing
<1>6. Shape'
  BY <1>1, <1>2, <1>5 DEF SwapsInv, Shape
<1>7. RowOK(s)'
  <2>1. swap'[s].status = "Created" /\ swap'[s].executor = quoting[s]
    BY <1>1 DEF SwapsInv, Shape
  <2>2. quoting'[s] = None
    BY <1>2 DEF SwapsInv, Shape
  <2>3. quoting[s] = "ZeroExGasless" => Direction[s] = "Outgoing"
    BY DEF SwapsInv, Origins
  <2> QED
    BY <1>2, <1>3, <2>1, <2>2, <2>3, RowsAreOK DEF RowOK
<1> QED
  BY <1>1, <1>2, <1>6, <1>7, OneRowInv DEF SwapsInv, Shape

(* A signature changes nothing that the tracker or the end depends on.     *)
LEMMA SignatureInv ==
  ASSUME SwapsInv, NEW s \in Swaps, NEW n \in Signed(s), NEW named \in TakesSignature,
         SetSignature(s, n, named)
  PROVE  SwapsInv'
<1>1. /\ swap' = [swap EXCEPT ![s].signature = n]
      /\ UNCHANGED <<quoting, fate, received, watched, up>>
      /\ \/ UNCHANGED calls
         \/ calls' = calls \cup {[swap |-> s, n |-> n, pc |-> "submit",
                                  parts |-> SignatureParts(swap[s].approval)]}
  BY DEF SetSignature, outside
<1>2. [swap |-> s, n |-> n, pc |-> "submit", parts |-> SignatureParts(swap[s].approval)] \in Calls
  BY DEF Calls, SignatureParts
<1>3. /\ swap'[s] \in SwapRow
      /\ swap'[s].status = swap[s].status
      /\ swap'[s].hash = swap[s].hash
      /\ swap'[s].executor = swap[s].executor
      /\ \A t \in Swaps \ {s} : swap'[t] = swap[t]
      /\ swap' \in [Swaps -> SwapRow]
  <2>1. swap[s] \in SwapRow /\ n \in Nat
    BY SignedType DEF SwapsInv, Shape
  <2>2. /\ swap'[s] = [swap[s] EXCEPT !.signature = n]
        /\ \A t \in Swaps \ {s} : swap'[t] = swap[t]
    BY <1>1 DEF SwapsInv, Shape
  <2>3. /\ swap'[s] \in SwapRow
        /\ swap'[s].status = swap[s].status
        /\ swap'[s].hash = swap[s].hash
        /\ swap'[s].executor = swap[s].executor
    BY <2>1, <2>2 DEF SwapRow
  <2>4. swap' \in [Swaps -> SwapRow]
    BY <1>1, <2>2, <2>3 DEF SwapsInv, Shape
  <2> QED
    BY <2>2, <2>3, <2>4
<1>4. Shape'
  BY <1>1, <1>2, <1>3 DEF SwapsInv, Shape
<1>5. RowOK(s)'
  BY <1>1, <1>3, RowsAreOK DEF RowOK
<1>6. \A c \in calls' : c.pc = "record" => c \in calls
  BY <1>1
<1> QED
  BY <1>1, <1>3, <1>4, <1>5, <1>6, OneRowInv

(* A report changes a row only as long as the tracker does not follow it.  *)
LEMMA ReportInv ==
  ASSUME SwapsInv, NEW s \in Swaps, NEW n \in Signed(s), Reported(s, n),
         fate[s][n] # "none",
         UNCHANGED <<quoting, fate, received, watched, up>>,
         calls' \subseteq calls
  PROVE  SwapsInv'
<1>1. CASE UNCHANGED swap
  <2>1. Shape'
    BY <1>1 DEF SwapsInv, Shape
  <2>2. RowOK(s)'
    BY <1>1, RowsAreOK DEF RowOK
  <2> QED
    BY <1>1, <2>1, <2>2, OneRowInv
<1>2. CASE /\ SwapTransition(swap[s].status, "Submitted")
           /\ swap' = [swap EXCEPT ![s].status = "Submitted", ![s].hash = n]
  <2>1. swap[s].status \in {"Created", "Submitted", "Abandoned"}
    BY <1>2 DEF SwapTransition
  <2>2. /\ swap'[s] \in SwapRow
        /\ swap'[s].status = "Submitted"
        /\ swap'[s].hash = n
        /\ swap'[s].executor = swap[s].executor
    <3>1. swap \in [Swaps -> SwapRow] /\ n \in Nat
      BY SignedType DEF SwapsInv, Shape
    <3> DEFINE r == [swap[s] EXCEPT !.status = "Submitted", !.hash = n]
    <3>2. /\ r \in SwapRow /\ r.status = "Submitted" /\ r.hash = n
          /\ r.executor = swap[s].executor
      BY <3>1 DEF SwapRow, SwapStatus
    <3>3. swap'[s] = r
      BY <1>2, <3>1
    <3> HIDE DEF r
    <3> QED
      BY <3>2, <3>3
  <2>3. /\ \A t \in Swaps \ {s} : swap'[t] = swap[t]
        /\ swap' \in [Swaps -> SwapRow]
    BY <1>2, <2>2 DEF SwapsInv, Shape
  <2>4. Shape'
    BY <2>3 DEF SwapsInv, Shape
  <2>5. RowOK(s)'
    BY <2>1, <2>2, RowsAreOK DEF RowOK
  <2> QED
    BY <2>3, <2>4, <2>5, OneRowInv
<1> QED
  BY <1>1, <1>2 DEF Reported

(* Both ways a hash is reported.                                           *)
LEMMA RecordInv ==
  ASSUME SwapsInv,
         \/ \E c \in calls : RecordHash(c)
         \/ \E s \in Swaps : \E n \in Signed(s) : UpdateSwapSubmitted(s, n)
  PROVE  SwapsInv'
<1>1. ASSUME NEW c \in calls, RecordHash(c)
      PROVE  SwapsInv'
  <2>1. c.swap \in Swaps /\ c.n \in Signed(c.swap) /\ fate[c.swap][c.n] # "none"
    BY <1>1, CallType DEF SwapsInv, Shape, HashesAreSent, RecordHash
  <2> QED
    BY <1>1, <2>1, ReportInv DEF RecordHash, outside
<1>2. ASSUME NEW s \in Swaps, NEW n \in Signed(s), UpdateSwapSubmitted(s, n)
      PROVE  SwapsInv'
  BY <1>2, ReportInv DEF UpdateSwapSubmitted, outside
<1> QED
  BY <1>1, <1>2

-----------------------------------------------------------------------------
(* The database tick: what is submitted becomes pending and is followed.   *)
LEMMA TickInv ==
  ASSUME SwapsInv, GetSubmittedSwaps \/ GetOutdatedSwaps
  PROVE  SwapsInv'
<1>1. UNCHANGED <<quoting, calls, fate, received, up>> /\ up
  BY DEF GetSubmittedSwaps, GetOutdatedSwaps, outside
<1>2. CASE GetSubmittedSwaps
  <2>1. \A s \in Swaps :
          /\ swap'[s] \in SwapRow
          /\ swap'[s].executor = swap[s].executor
          /\ swap'[s].hash = swap[s].hash
          /\ swap'[s].status = IF swap[s].status = "Submitted" THEN "Pending"
                                                               ELSE swap[s].status
          /\ watched'[s] = IF swap[s].status = "Submitted" THEN swap[s].hash ELSE watched[s]
    <3> SUFFICES ASSUME NEW s \in Swaps
                 PROVE  /\ swap'[s] \in SwapRow
                        /\ swap'[s].executor = swap[s].executor
                        /\ swap'[s].hash = swap[s].hash
                        /\ swap'[s].status = IF swap[s].status = "Submitted" THEN "Pending"
                                                                             ELSE swap[s].status
                        /\ watched'[s] = IF swap[s].status = "Submitted" THEN swap[s].hash
                                                                         ELSE watched[s]
      OBVIOUS
    <3>1. swap[s] \in SwapRow
      BY DEF SwapsInv, Shape
    <3>2. /\ swap'[s] = IF swap[s].status = "Submitted"
                          THEN [swap[s] EXCEPT !.status = "Pending"] ELSE swap[s]
          /\ watched'[s] = IF swap[s].status = "Submitted" THEN swap[s].hash ELSE watched[s]
      BY <1>2 DEF GetSubmittedSwaps, Submitted
    <3> QED
      BY <3>1, <3>2 DEF SwapRow, SwapStatus
  <2>2. Shape'
    <3>1. swap' = [s \in Swaps |-> swap'[s]] /\ watched' = [s \in Swaps |-> watched'[s]]
      BY <1>2 DEF GetSubmittedSwaps
    <3>2. \A s \in Swaps : watched'[s] \in Nat
      BY <2>1 DEF SwapsInv, Shape, SwapRow
    <3> QED
      BY <1>1, <2>1, <3>1, <3>2 DEF SwapsInv, Shape
  <2>3. \A s \in Swaps : RowOK(s)'
    BY <1>1, <2>1, RowsAreOK DEF RowOK
  <2> QED
    BY <1>1, <2>2, <2>3, RowsInv
<1>3. CASE GetOutdatedSwaps
  <2>1. \A s \in Swaps :
          /\ swap'[s] \in SwapRow
          /\ swap'[s].executor = swap[s].executor
          /\ swap'[s].hash = swap[s].hash
          /\ swap'[s].status = swap[s].status \/ (swap[s].status = "Created" /\ swap'[s].status = "Abandoned")
    <3> SUFFICES ASSUME NEW s \in Swaps
                 PROVE  /\ swap'[s] \in SwapRow
                        /\ swap'[s].executor = swap[s].executor
                        /\ swap'[s].hash = swap[s].hash
                        /\ \/ swap'[s].status = swap[s].status
                           \/ swap[s].status = "Created" /\ swap'[s].status = "Abandoned"
      OBVIOUS
    <3>1. swap[s] \in SwapRow
      BY DEF SwapsInv, Shape
    <3>2. \/ swap'[s] = swap[s]
          \/ swap[s].status = "Created" /\ swap'[s] = [swap[s] EXCEPT !.status = "Abandoned"]
      BY <1>3 DEF GetOutdatedSwaps, Outdated
    <3> QED
      BY <3>1, <3>2 DEF SwapRow, SwapStatus
  <2>2. Shape'
    <3>1. swap' = [s \in Swaps |-> swap'[s]] /\ watched' = watched
      BY <1>3 DEF GetOutdatedSwaps
    <3> QED
      BY <1>1, <2>1, <3>1 DEF SwapsInv, Shape
  <2>3. \A s \in Swaps : RowOK(s)'
    BY <1>1, <1>3, <2>1, RowsAreOK DEF RowOK, GetOutdatedSwaps
  <2> QED
    BY <1>1, <2>2, <2>3, RowsInv
<1> QED
  BY <1>2, <1>3

(* The provider is asked about the hash of the row, so its answer is what  *)
(* happened to the transaction of the row.                                 *)
LEMMA SaysIsTrue ==
  ASSUME SwapsInv, up, NEW s \in Swaps
  PROVE  /\ Says(s, "Executed") => fate[s][swap[s].hash] = "executed"
         /\ Says(s, "Failed") => fate[s][swap[s].hash] = "failed"
         /\ (Says(s, "Executed") \/ Says(s, "Failed")) => swap[s].status = "Pending"
<1> SUFFICES ASSUME watched[s] # Nothing
             PROVE  /\ Says(s, "Executed") => fate[s][swap[s].hash] = "executed"
                    /\ Says(s, "Failed") => fate[s][swap[s].hash] = "failed"
                    /\ swap[s].status = "Pending"
  BY DEF Says
<1>1. swap[s].status = "Pending" /\ watched[s] = swap[s].hash
  BY DEF SwapsInv, CopiesAreTrue
<1>2. swap[s].hash \in Signed(s) /\ fate[s][swap[s].hash] # "none"
  BY <1>1 DEF SwapsInv, HashesAreSent
<1>3. swap[s].executor \in Detected
  BY <1>1 DEF SwapsInv, Shape, Origins, SwapRow
<1>4. fate[s][swap[s].hash] \in {"pending", "executed", "failed"}
  BY <1>2 DEF SwapsInv, Shape, Fates
<1>5. swap[s].executor = "ZeroExGasless" => fate[s][swap[s].hash] # "failed"
  BY <1>2 DEF SwapsInv, Origins
<1>6. \A answer \in Answers(swap[s].executor, fate[s][swap[s].hash]) :
        /\ get_transaction_status(swap[s].executor, answer) = "Executed" =>
             fate[s][swap[s].hash] = "executed"
        /\ get_transaction_status(swap[s].executor, answer) = "Failed" =>
             fate[s][swap[s].hash] = "failed"
  BY <1>3, <1>4, <1>5, AnswerIsTrue
<1> QED
  BY <1>1, <1>6 DEF Says

(* The tracker ends a swap.                                                *)
LEMMA CheckInv ==
  ASSUME SwapsInv, NEW s \in Swaps, CheckSwap(s)
  PROVE  SwapsInv'
<1>1. PICK status \in {"Completed", "Failed"} :
        /\ up
        /\ swap' = [swap EXCEPT ![s].status = status]
        /\ status = "Completed" => Says(s, "Executed") /\ received'
        /\ status = "Failed" => Says(s, "Failed")
        /\ watched' = [watched EXCEPT ![s] = Nothing]
        /\ received' \in BOOLEAN
        /\ received => received'
        /\ UNCHANGED <<quoting, calls, fate, up>>
  BY DEF CheckSwap, HandleSwapExecuted, HandleSwapFailed, outside, SwapsInv, Shape
<1>2. /\ swap[s].status = "Pending"
      /\ status = "Completed" => fate[s][swap[s].hash] = "executed"
      /\ status = "Failed" => fate[s][swap[s].hash] = "failed"
  BY <1>1, SaysIsTrue
<1>3. /\ swap'[s] \in SwapRow
      /\ swap'[s].status = status
      /\ swap'[s].executor = swap[s].executor
      /\ swap'[s].hash = swap[s].hash
  BY <1>1 DEF SwapsInv, Shape, SwapRow, SwapStatus
<1>4. /\ \A t \in Swaps \ {s} : swap'[t] = swap[t] /\ watched'[t] = watched[t]
      /\ swap' \in [Swaps -> SwapRow]
      /\ watched' \in [Swaps -> Nat]
      /\ watched'[s] = Nothing
  BY <1>1, <1>3 DEF SwapsInv, Shape, Nothing
<1>5. Shape'
  BY <1>1, <1>4 DEF SwapsInv, Shape
<1>6. RowOK(s)'
  BY <1>1, <1>2, <1>3, <1>4, RowsAreOK DEF RowOK
<1> QED
  BY <1>1, <1>4, <1>5, <1>6, OneRowInv

(* The daemon stops and starts: the copies are made anew.                  *)
LEMMA RestartInv ==
  ASSUME SwapsInv, Stop \/ Start
  PROVE  SwapsInv'
<1>1. UNCHANGED <<swap, fate, received>>
  BY DEF Stop, Start, outside
<1>2. /\ \A s \in Swaps : quoting'[s] \in {quoting[s], None}
      /\ quoting' \in [Swaps -> Detected \cup {None}]
      /\ calls' \subseteq calls
      /\ up' \in BOOLEAN
  BY DEF Stop, Start, SwapsInv, Shape
<1>3. up' => \A s \in Swaps :
               watched'[s] = IF swap[s].status = "Pending" THEN swap[s].hash ELSE Nothing
  BY DEF Stop, Start
<1>4. watched' \in [Swaps -> Nat]
  BY DEF Stop, Start, SwapsInv, Shape, SwapRow, Nothing
<1>5. Shape'
  BY <1>1, <1>2, <1>4 DEF SwapsInv, Shape
<1>6. \A s \in Swaps : RowOK(s)'
  BY <1>1, <1>2, <1>3, RowsAreOK DEF RowOK
<1> QED
  BY <1>1, <1>2, <1>5, <1>6, RowsInv

-----------------------------------------------------------------------------
(* The invariant is inductive.                                             *)
LEMMA NextInv ==
  SwapsInv /\ [SwapsNext]_swapVars => SwapsInv'
<1> SUFFICES ASSUME SwapsInv, [SwapsNext]_swapVars PROVE SwapsInv'
  OBVIOUS
<1>1. CASE \/ \E s \in Swaps, from \in Chains : AskQuote(s, from)
           \/ \E s \in Swaps : QuoteFails(s) \/ Lapse(s)
           \/ InvoiceEnds
           \/ UNCHANGED swapVars
  BY <1>1, OutsideInv
<1>2. CASE \E s \in Swaps : CreateSwap(s)
  BY <1>2, CreateInv
<1>3. CASE \E s \in Swaps : \E n \in Signed(s) :
             \E named \in TakesSignature : SetSignature(s, n, named)
  BY <1>3, SignatureInv
<1>4. CASE \E s \in Swaps : \E n \in Signed(s) : CustomerSends(s, n) \/ TransactionEnds(s, n)
  BY <1>4, TransactionInv
<1>5. CASE \E c \in calls : SubmitTransaction(c) \/ CallFails(c)
  BY <1>5, SubmitInv
<1>6. CASE \/ \E c \in calls : RecordHash(c)
           \/ \E s \in Swaps : \E n \in Signed(s) : UpdateSwapSubmitted(s, n)
  BY <1>6, RecordInv
<1>7. CASE \E s \in Swaps : CheckSwap(s)
  BY <1>7, CheckInv
<1>8. CASE GetSubmittedSwaps \/ GetOutdatedSwaps
  BY <1>8, TickInv
<1>9. CASE Stop \/ Start
  BY <1>9, RestartInv
<1> QED
  BY <1>1, <1>2, <1>3, <1>4, <1>5, <1>6, <1>7, <1>8, <1>9 DEF SwapsNext

(* Every reachable state satisfies it.                                     *)
LEMMA Invariance == SwapsSpec => []SwapsInv
BY InitInv, NextInv, PTL DEF SwapsSpec

(* The tracker follows exactly the pending rows, by the hashes they have.  *)
THEOREM CopiesAreTrueAlways == SwapsSpec => []CopiesAreTrue
<1>1. SwapsInv => CopiesAreTrue
  BY DEF SwapsInv
<1> QED
  BY <1>1, Invariance, PTL

(* A completed swap was executed and paid for, a failed one failed.        *)
THEOREM EndIsTrueAlways == SwapsSpec => []EndIsTrue
<1>1. SwapsInv => EndIsTrue
  BY DEF SwapsInv
<1> QED
  BY <1>1, Invariance, PTL
=============================================================================
