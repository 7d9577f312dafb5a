-------------------------- MODULE TransfersTracker --------------------------
(***************************************************************************)
(* The task that watches the chain.  It learns of a transfer only while it *)
(* is subscribed; what lands before it has subscribed again, and what was  *)
(* under way when the stream broke, it never sees.                         *)
(***************************************************************************)
EXTENDS TransactionsRecorder

VARIABLES
  subscribed,    \* the task has a subscription
  stream         \* transfers on their way to it

trackerVars == <<subscribed, stream>>

TrackerTypeOK ==
  /\ subscribed \in BOOLEAN
  /\ stream \in Seq(Transfers)

TrackerInit ==
  /\ subscribed = FALSE
  /\ stream = <<>>

(* A customer's transfer is included in a block.                           *)
TransferLands(t) ==
  /\ Exists(InvoiceOf[t])
  /\ ~Landed(t)
  /\ landed' = [landed EXCEPT ![InvoiceOf[t]] = Append(@, t)]
  /\ stream' = IF subscribed THEN Append(stream, t) ELSE stream
  /\ UNCHANGED <<recorderVars, budget, subscribed>>

(* get_or_create_subscription                                              *)
Subscribe ==
  /\ proc["tracker"] = Idle
  /\ ~subscribed
  /\ subscribed' = TRUE
  /\ UNCHANGED <<recorderVars, envVars, stream>>

(* handle_subscription_event returns an error: the subscription is dropped.*)
StreamBreaks ==
  /\ proc["tracker"] = Idle
  /\ subscribed
  /\ Spend("break")
  /\ subscribed' = FALSE
  /\ stream' = <<>>
  /\ UNCHANGED <<recorderVars, landed>>

(* process_transfer up to the call of the recorder.  A transfer that no    *)
(* entry of the registry expects is dropped.                               *)
ReceiveTransfer ==
  LET i == InvoiceOf[Head(stream)] IN
  /\ proc["tracker"] = Idle
  /\ stream # <<>>
  /\ stream' = Tail(stream)
  /\ proc' = IF Tracked(i)
               THEN [proc EXCEPT !["tracker"] =
                       [pc |-> "store", id |-> i, copy |-> registry[i],
                        list |-> <<Head(stream)>>, next |-> 1]]
               ELSE proc
  /\ UNCHANGED <<dbVars, registry, serial, envVars, subscribed>>

TrackerStep ==
  \/ Subscribe
  \/ StreamBreaks
  \/ ReceiveTransfer
=============================================================================
