---------------------------- MODULE CustomerSwaps ----------------------------
(***************************************************************************)
(* Swaps into one invoice, and out of it, from the quote to their end.     *)
(*                                                                         *)
(* The payment page asks for a swap; the customer signs what the provider  *)
(* wants signed and either hands the signature to the daemon, which        *)
(* submits it, or submits it and reports the hash.  The two requests may   *)
(* come twice, at the same time or not at all, and a request that is       *)
(* dropped ends wherever it was.  The swaps tracker works on copies that   *)
(* it made of the rows.  An outgoing swap takes the same way, with the     *)
(* transfers executor for a customer.                                      *)
(***************************************************************************)
EXTENDS StatusTransitions, SwapProviders, FiniteSets

CONSTANTS
  Swaps,             \* ids of swaps
  Direction,         \* "Incoming" or "Outgoing"
  MaxSigned,         \* how often the owner of a swap signs for it
  MaxFaults          \* stops of the daemon and failed requests

ASSUME SwapsAssumption ==
  /\ Direction \in [Swaps -> {"Incoming", "Outgoing"}]
  /\ MaxSigned \in [Swaps -> Nat \ {0}]
  /\ MaxFaults \in Nat

VARIABLES
  swap,              \* the rows of the table
  quoting,           \* create_swap calls that wait for a quote, with the
                     \* executor that is asked
  calls,             \* submit_with_signature calls under way
  fate,              \* what became of each transaction of the customer
  lapsed,            \* swaps whose valid_till has passed
  watched,           \* TrackedSwaps: the transaction hash of each copy
  invoice,           \* "active", "final" or "closed" (expired or canceled)
  received,          \* the invoice has recorded money
  up,                \* the daemon runs
  faults

swapVars == <<swap, quoting, calls, fate, lapsed, watched, invoice, received,
              up, faults>>

Nothing == 0                        \* no signature, no hash
Signed(s) == 1 .. MaxSigned[s]      \* the n-th transaction of a swap

Absent == [status |-> "Absent", executor |-> None, details |-> {},
           approval |-> FALSE, signature |-> Nothing, hash |-> Nothing]

Calls == UNION {[swap : {s}, n : Signed(s), parts : 1 .. 2,
                 pc : {"submit", "record"}] : s \in Swaps}

SwapsTypeOK ==
  /\ \A s \in Swaps :
       \/ swap[s] = Absent
       \/ /\ swap[s].status \in SwapStatus
          /\ FirstVariant(swap[s].details) = swap[s].executor
          /\ swap[s].signature \in Signed(s) \cup {Nothing}
          /\ swap[s].hash \in Signed(s) \cup {Nothing}
  /\ quoting \in [Swaps -> Executors \cup {None}]
  /\ calls \subseteq Calls
  /\ \A s \in Swaps :
       fate[s] \in [Signed(s) -> {"none", "pending", "executed", "failed"}]
  /\ lapsed \subseteq Swaps
  /\ \A s \in Swaps : watched[s] \in Signed(s) \cup {Nothing}
  /\ invoice \in {"active", "final", "closed"}
  /\ received \in BOOLEAN
  /\ up \in BOOLEAN
  /\ faults \in 0 .. MaxFaults

SwapsInit ==
  /\ swap = [s \in Swaps |-> Absent]
  /\ quoting = [s \in Swaps |-> None]
  /\ calls = {}
  /\ fate = [s \in Swaps |-> [n \in Signed(s) |-> "none"]]
  /\ lapsed = {}
  /\ watched = [s \in Swaps |-> Nothing]
  /\ invoice = "active"
  /\ received = FALSE
  /\ up = TRUE
  /\ faults = 0

Fault == faults < MaxFaults /\ faults' = faults + 1

outside == <<fate, lapsed, invoice, received>>

-----------------------------------------------------------------------------
(* create_swap of the API, or schedule_swap of the transfers executor, up  *)
(* to the question for a quote.  A customer pays from any chain as long as *)
(* the invoice is not final; money leaves an invoice that is.              *)
AskQuote(s, from) ==
  LET executor == detect(from, Polygon, Direction[s]) IN
  /\ up
  /\ swap[s] = Absent
  /\ quoting[s] = None
  /\ executor # None
  /\ IF Direction[s] = "Incoming" THEN invoice # "final" ELSE invoice = "final"
  /\ Quotable(executor, from, Polygon)
  /\ quoting' = [quoting EXCEPT ![s] = executor]
  /\ UNCHANGED <<swap, calls, outside, watched, up, faults>>

(* The quote has come: Swap::new and the row.  The invoice may have been   *)
(* paid or closed while the provider was asked.                            *)
CreateSwap(s) ==
  /\ up
  /\ quoting[s] # None
  /\ \E approval \in (IF quoting[s] = "ZeroExGasless" THEN BOOLEAN ELSE {FALSE}) :
       swap' = [swap EXCEPT ![s] =
                  [status |-> "Created", executor |-> quoting[s],
                   details |-> QuoteDetails(quoting[s]), approval |-> approval,
                   signature |-> Nothing, hash |-> Nothing]]
  /\ quoting' = [quoting EXCEPT ![s] = None]
  /\ UNCHANGED <<calls, outside, watched, up, faults>>

QuoteFails(s) ==
  /\ up
  /\ quoting[s] # None
  /\ Fault
  /\ quoting' = [quoting EXCEPT ![s] = None]
  /\ UNCHANGED <<swap, calls, outside, watched, up>>

-----------------------------------------------------------------------------
(* submit_with_signature, of the API or of the transfers executor, which   *)
(* signs with the key of the invoice: the signature is stored first, for   *)
(* the executor the request names.  If the swap was made with one that     *)
(* does not submit, that is all.                                           *)
SetSignature(s, n, named) ==
  /\ up
  /\ swap[s] # Absent
  /\ Direction[s] = "Outgoing" => /\ swap[s].signature = Nothing
                                 /\ named = swap[s].executor
                                 /\ Signs(named, Direction[s])
  /\ \A c \in calls : c.swap = s => c.n # n
  /\ swap' = [swap EXCEPT ![s].signature = n]
  /\ calls' = IF swap[s].executor \in Submits
                THEN calls \cup {[swap |-> s, n |-> n, pc |-> "submit",
                                  parts |-> SignatureParts(swap[s].approval)]}
                ELSE calls
  /\ UNCHANGED <<quoting, outside, watched, up, faults>>

(* submit_transaction: the provider, or the node, takes it.  What it has   *)
(* already it takes again.                                                 *)
SubmitTransaction(c) ==
  /\ c.pc = "submit"
  /\ ~SplitPanics(swap[c.swap].approval, c.parts)
  /\ fate' = [fate EXCEPT ![c.swap][c.n] = IF @ = "none" THEN "pending" ELSE @]
  /\ calls' = (calls \ {c}) \cup {[c EXCEPT !.pc = "record"]}
  /\ UNCHANGED <<swap, quoting, lapsed, invoice, received, watched, up, faults>>

(* Mutant: the hash is replaced whatever the status.                       *)
ReportedAlways(s, n) ==
  swap' = [swap EXCEPT ![s].hash = n,
                       ![s].status = IF SwapTransition(@, "Submitted")
                                       THEN "Submitted" ELSE @]

(* update_swap_submitted_with_hash, at the end of submit_with_signature    *)
(* and for a hash that the front end reports.                              *)
Reported(s, n) ==
  IF SwapTransition(swap[s].status, "Submitted")
    THEN swap' = [swap EXCEPT ![s].status = "Submitted", ![s].hash = n]
    ELSE UNCHANGED swap

RecordHash(c) ==
  /\ c.pc = "record"
  /\ Reported(c.swap, c.n)
  /\ calls' = calls \ {c}
  /\ UNCHANGED <<quoting, outside, watched, up, faults>>

(* The provider refuses or does not answer, the answer is lost, the        *)
(* database fails, or the connection is gone and the call is dropped.      *)
CallFails(c) ==
  /\ Fault
  /\ \/ UNCHANGED fate
     \/ fate' = [fate EXCEPT ![c.swap][c.n] = IF @ = "none" THEN "pending" ELSE @]
  /\ calls' = calls \ {c}
  /\ UNCHANGED <<swap, quoting, lapsed, invoice, received, watched, up>>

(* The customer submits on the front end ...                               *)
CustomerSends(s, n) ==
  /\ swap[s] # Absent
  /\ Direction[s] = "Incoming"
  /\ fate[s][n] = "none"
  /\ fate' = [fate EXCEPT ![s][n] = "pending"]
  /\ UNCHANGED <<swap, quoting, calls, lapsed, invoice, received, watched, up,
                 faults>>

(* ... and the page reports it, early, late or again.                      *)
UpdateSwapSubmitted(s, n) ==
  /\ up
  /\ Direction[s] = "Incoming"
  /\ fate[s][n] # "none"
  /\ Reported(s, n)
  /\ UNCHANGED <<quoting, calls, outside, watched, up, faults>>

-----------------------------------------------------------------------------
(* A transaction comes to its end.  The gasless API knows no failure.      *)
TransactionEnds(s, n) ==
  /\ fate[s][n] = "pending"
  /\ \/ fate' = [fate EXCEPT ![s][n] = "executed"]
     \/ /\ Direction[s] = "Incoming"
        /\ fate' = [fate EXCEPT ![s][n] = "failed"]
  /\ UNCHANGED <<swap, quoting, calls, lapsed, invoice, received, watched, up,
                 faults>>

Lapse(s) ==
  /\ swap[s] # Absent
  /\ s \notin lapsed
  /\ lapsed' = lapsed \cup {s}
  /\ UNCHANGED <<swap, quoting, calls, fate, invoice, received, watched, up,
                 faults>>

(* The invoice is paid by a transfer, or is closed; see Payments.          *)
InvoiceEnds ==
  /\ up
  /\ invoice = "active"
  /\ \/ invoice' = "final" /\ received' = TRUE
     \/ invoice' = "closed" /\ UNCHANGED received
  /\ UNCHANGED <<swap, quoting, calls, fate, lapsed, watched, up, faults>>

-----------------------------------------------------------------------------
(* The database tick of the tracker.                                       *)
Submitted == {s \in Swaps : swap[s].status = "Submitted"}

Outdated == {s \in lapsed : swap[s].status = "Created"}

GetSubmittedSwaps ==
  /\ up
  /\ Submitted # {}
  /\ swap' = [s \in Swaps |-> IF s \in Submitted
                                THEN [swap[s] EXCEPT !.status = "Pending"]
                                ELSE swap[s]]
  /\ watched' = [s \in Swaps |-> IF s \in Submitted THEN swap[s].hash
                                                    ELSE watched[s]]
  /\ UNCHANGED <<quoting, calls, outside, up, faults>>

GetOutdatedSwaps ==
  /\ up
  /\ Outdated # {}
  /\ swap' = [s \in Swaps |-> IF s \in Outdated
                                THEN [swap[s] EXCEPT !.status = "Abandoned"]
                                ELSE swap[s]]
  /\ UNCHANGED <<quoting, calls, outside, watched, up, faults>>

(* check_swap: the client of the executor is asked about the hash of the   *)
(* copy.                                                                   *)
Says(s, status) ==
  /\ watched[s] # Nothing
  /\ \E answer \in Answers(swap[s].executor, fate[s][watched[s]]) :
       get_transaction_status(swap[s].executor, answer) = status

(* check_invoice_balance records the money, unless the trigger refuses to  *)
(* pay a closed invoice.                                                   *)
BalanceAfterCheck == received \/ invoice = "active"

(* Mutant: the balance is not looked at.                                   *)
HandleWithoutBalance(s) ==
  /\ up
  /\ Says(s, "Executed")
  /\ received' = BalanceAfterCheck
  /\ invoice' \in {invoice} \cup (IF invoice = "active" THEN {"final"} ELSE {})
  /\ swap' = [swap EXCEPT ![s].status = "Completed"]
  /\ watched' = [watched EXCEPT ![s] = Nothing]
  /\ UNCHANGED <<quoting, calls, fate, lapsed, up, faults>>

(* handle_swap_executed: the balance is checked first, and the swap is     *)
(* completed only when the invoice has received something.                 *)
HandleSwapExecuted(s) ==
  /\ up
  /\ Says(s, "Executed")
  /\ BalanceAfterCheck
  /\ received' = TRUE
  /\ invoice' \in {invoice} \cup (IF invoice = "active" THEN {"final"} ELSE {})
  /\ SwapTransition(swap[s].status, "Completed")
  /\ swap' = [swap EXCEPT ![s].status = "Completed"]
  /\ watched' = [watched EXCEPT ![s] = Nothing]
  /\ UNCHANGED <<quoting, calls, fate, lapsed, up, faults>>

HandleSwapFailed(s) ==
  /\ up
  /\ Says(s, "Failed")
  /\ SwapTransition(swap[s].status, "Failed")
  /\ swap' = [swap EXCEPT ![s].status = "Failed"]
  /\ watched' = [watched EXCEPT ![s] = Nothing]
  /\ UNCHANGED <<quoting, calls, outside, up, faults>>

(* The daemon stops, in the middle of anything ...                         *)
Stop ==
  /\ up
  /\ Fault
  /\ up' = FALSE
  /\ quoting' = [s \in Swaps |-> None]
  /\ calls' = {}
  /\ watched' = [s \in Swaps |-> Nothing]
  /\ UNCHANGED <<swap, outside>>

(* ... and starts again: the tracker loads get_pending_swaps.              *)
Start ==
  /\ ~up
  /\ up' = TRUE
  /\ watched' = [s \in Swaps |-> IF swap[s].status = "Pending" THEN swap[s].hash
                                                               ELSE Nothing]
  /\ UNCHANGED <<swap, quoting, calls, outside, faults>>

CheckSwap(s) == HandleSwapExecuted(s) \/ HandleSwapFailed(s)

SwapsNext ==
  \/ \E s \in Swaps, from \in Chains : AskQuote(s, from)
  \/ \E s \in Swaps : CreateSwap(s) \/ QuoteFails(s)
  \/ \E s \in Swaps : \E n \in Signed(s) :
       \/ \E named \in TakesSignature : SetSignature(s, n, named)
       \/ CustomerSends(s, n)
       \/ UpdateSwapSubmitted(s, n)
       \/ TransactionEnds(s, n)
  \/ \E c \in calls : SubmitTransaction(c) \/ RecordHash(c) \/ CallFails(c)
  \/ \E s \in Swaps : Lapse(s) \/ CheckSwap(s)
  \/ InvoiceEnds
  \/ GetSubmittedSwaps
  \/ GetOutdatedSwaps
  \/ Stop
  \/ Start

(* The two ticks of the tracker come again and again, the daemon is        *)
(* restarted, and the provider brings what it has taken to an end.         *)
SwapsFairness ==
  /\ WF_swapVars(GetSubmittedSwaps)
  /\ \A s \in Swaps : WF_swapVars(CheckSwap(s))
  /\ \A s \in Swaps : \A n \in Signed(s) : WF_swapVars(TransactionEnds(s, n))
  /\ WF_swapVars(Start)

SwapsSpec == SwapsInit /\ [][SwapsNext]_swapVars /\ SwapsFairness

-----------------------------------------------------------------------------
(* The copies of the tracker are true: it follows exactly the rows that    *)
(* are Pending, each by the hash that its row has, whatever is reported a  *)
(* second time and whenever the daemon was restarted.                      *)
CopiesAreTrue ==
  up => \A s \in Swaps :
          watched[s] = IF swap[s].status = "Pending" THEN swap[s].hash ELSE Nothing

(* The end of a swap is what happened to the transaction of its row: a     *)
(* completed swap was executed and its invoice has recorded money, a       *)
(* failed one failed.                                                      *)
EndIsTrue ==
  \A s \in Swaps :
    /\ swap[s].status = "Completed" =>
         fate[s][swap[s].hash] = "executed" /\ received
    /\ swap[s].status = "Failed" => fate[s][swap[s].hash] = "failed"

(* A submitted swap comes to its end, through restarts and second reports, *)
(* unless its invoice was closed without ever having received anything.    *)
SubmittedEnds ==
  \A s \in Swaps :
    (swap[s].status = "Submitted") ~>
       \/ swap[s].status \in {"Completed", "Failed"}
       \/ invoice = "closed" /\ ~received
=============================================================================
