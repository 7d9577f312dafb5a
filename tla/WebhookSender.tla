---------------------------- MODULE WebhookSender ----------------------------
(***************************************************************************)
(* The task that tells the shop what happened to its invoices.  Events are *)
(* rows of the database; the task sends them as signed requests, several   *)
(* at a time, and marks a row when the shop has answered with success.     *)
(* What is in flight is known in memory only.                              *)
(***************************************************************************)
EXTENDS SignedRequests, FiniteSets, SequencesExt

CONSTANTS
  Orders,        \* the shop's orders; an invoice is known by its order_id
  Key,           \* the shop's api_secret_key
  MaxRequests,   \* WEBHOOK_SENDER_MAX_CONCURRENT_REQUESTS
  Patience,      \* WEBHOOK_SENDER_REQUEST_TIMEOUT
  MaxEvents,     \* bound: how many events there may be
  Faults         \* bound: how many faults of any kind may happen

ASSUME SenderAssumption ==
  /\ Key \in Keys
  /\ MaxRequests \in Nat \ {0}
  /\ {Patience, MaxEvents, Faults} \subseteq Nat

VARIABLES
  now,           \* the clock of both sides
  faults,        \* what is left of Faults
  rows,          \* webhook_events, oldest first: whose event, sent or not
  url,           \* whether a webhook_url is configured
  mode,          \* where perform is: running, draining, stopped
  processing,    \* processing_events_ids
  flight,        \* per event, what has become of its request
  transit,       \* requests on their way to the shop, as [event, request]
  inbox          \* the events the shop has accepted, in the order of the first time

senderVars == <<rows, url, mode, processing, flight, transit, inbox>>

Flight == [phase : {"none", "out", "ok", "failed"}, since : Nat]
NotFlying == [phase |-> "none", since |-> 0]

SenderTypeOK ==
  /\ now \in Nat
  /\ faults \in 0 .. Faults
  /\ rows \in Seq([entity : Orders, sent : BOOLEAN])
  /\ url \in BOOLEAN
  /\ mode \in {"running", "draining", "stopped"}
  /\ processing \subseteq DOMAIN rows
  /\ mode = "stopped" => processing = {}
  /\ flight \in [1 .. MaxEvents -> Flight]
  /\ \A m \in transit : m.event \in DOMAIN rows
  /\ inbox \in Seq(DOMAIN rows)

SenderInit ==
  /\ now = 0
  /\ faults = Faults
  /\ rows = <<>>
  /\ url \in BOOLEAN
  /\ mode = "running"
  /\ processing = {}
  /\ flight = [e \in 1 .. MaxEvents |-> NotFlying]
  /\ transit = {}
  /\ inbox = <<>>

(* A loss, a delay, an error of the database, a stop or a second call.     *)
Fault ==
  /\ faults > 0
  /\ faults' = faults - 1

(* A request is out, will not be answered, and has not timed out yet.      *)
Unanswered(e) ==
  /\ flight[e].phase = "out"
  /\ now < flight[e].since + Patience
  /\ ~\E m \in transit : m.event = e

(* Time passes while something is waited for in vain; or a request is slow.*)
Tick ==
  /\ \/ (\E e \in DOMAIN flight : Unanswered(e)) /\ UNCHANGED faults
     \/ transit # {} /\ Fault
  /\ now' = now + 1
  /\ UNCHANGED senderVars

(* create_webhook_event.  An event gets its created_at inside the database *)
(* transaction that inserts it, so rows are in the order of created_at.    *)
create_webhook_event(o) ==
  rows' = Append(rows, [entity |-> o, sent |-> FALSE])

-----------------------------------------------------------------------------
Unsent == {e \in DOMAIN rows : ~rows[e].sent}

(* Mutant: the oldest unsent events, whatever invoice they belong to.      *)
EveryUnsent == Unsent

(* rn = 1: the oldest unsent event of each invoice.                        *)
RankedFirst ==
  {e \in Unsent : \A d \in Unsent : rows[d].entity = rows[e].entity => e <= d}

get_webhook_events_to_send(limit) ==
  {e \in RankedFirst : Cardinality({d \in RankedFirst : d < e}) < limit}

(* build_request, with a body of its own for each event.                   *)
build_request(e) ==
  add_headers_to_reqwest(Key, Unsigned("POST", "webhook", <<>>, <<e>>), now)

(* prepare_webhook_events and build_future.  The limit counts the events   *)
(* the query returns, among them those that are in flight already.         *)
PrepareWebhookEvents ==
  LET limit == MaxRequests - Cardinality(processing)
      new == get_webhook_events_to_send(limit) \ processing
  IN
  /\ mode = "running"
  /\ limit > 0
  /\ new # {}
  /\ processing' = processing \cup new
  /\ flight' = [e \in DOMAIN flight |->
                  IF e \notin new THEN flight[e]
                  ELSE [phase |-> IF url THEN "out" ELSE "ok", since |-> now]]
  /\ transit' = IF url THEN transit \cup {[event |-> e, request |-> build_request(e)] : e \in new}
                ELSE transit
  /\ UNCHANGED <<now, faults, rows, url, mode, inbox>>

(* send_webhook gives up: the request may still arrive.                    *)
RequestTimesOut(e) ==
  /\ flight[e].phase = "out"
  /\ now >= flight[e].since + Patience
  /\ flight' = [flight EXCEPT ![e].phase = "failed"]
  /\ UNCHANGED <<now, faults, rows, url, mode, processing, transit, inbox>>

(* Mutant: an event counts as sent as soon as the request is over.         *)
HandleAnyResult(e) ==
  /\ flight[e].phase \in {"ok", "failed"}
  /\ processing' = processing \ {e}
  /\ rows' = [rows EXCEPT ![e].sent = TRUE]
  /\ flight' = [flight EXCEPT ![e] = NotFlying]
  /\ mode' = IF mode = "draining" /\ processing' = {} THEN "stopped" ELSE mode
  /\ UNCHANGED <<now, faults, url, transit, inbox>>

(* Mutant: a failed request stays among the ones being processed.          *)
HandleOnlySuccess(e) ==
  /\ flight[e].phase = "ok"
  /\ processing' = processing \ {e}
  /\ rows' = [rows EXCEPT ![e].sent = TRUE]
  /\ flight' = [flight EXCEPT ![e] = NotFlying]
  /\ mode' = IF mode = "draining" /\ processing' = {} THEN "stopped" ELSE mode
  /\ UNCHANGED <<now, faults, url, transit, inbox>>

(* handle_send_webhook_result: mark_webhook_event_as_sent, and when that   *)
(* fails the event will be sent again.                                     *)
HandleSendWebhookResult(e) ==
  /\ flight[e].phase \in {"ok", "failed"}
  /\ processing' = processing \ {e}
  /\ \/ /\ rows' = IF flight[e].phase = "ok"
                     THEN [rows EXCEPT ![e].sent = TRUE] ELSE rows
        /\ UNCHANGED faults
     \/ flight[e].phase = "ok" /\ Fault /\ UNCHANGED rows
  /\ flight' = [flight EXCEPT ![e] = NotFlying]
  /\ mode' = IF mode = "draining" /\ processing' = {} THEN "stopped" ELSE mode
  /\ UNCHANGED <<now, url, transit, inbox>>

(* The token is cancelled: nothing new is prepared, and what is in flight  *)
(* is waited for.                                                          *)
Shutdown ==
  /\ mode = "running"
  /\ Fault
  /\ mode' = IF processing = {} THEN "stopped" ELSE "draining"
  /\ UNCHANGED <<now, rows, url, processing, flight, transit, inbox>>

(* The daemon starts again after a shutdown, or crashes and starts again.  *)
Restart ==
  /\ \/ mode = "stopped" /\ UNCHANGED faults
     \/ mode # "stopped" /\ Fault
  /\ mode' = "running"
  /\ processing' = {}
  /\ flight' = [e \in DOMAIN flight |-> NotFlying]
  /\ UNCHANGED <<now, rows, url, transit, inbox>>

SenderStep ==
  \/ PrepareWebhookEvents
  \/ \E e \in DOMAIN flight : RequestTimesOut(e) \/ HandleSendWebhookResult(e)
=============================================================================
