------------------------------ MODULE Merchant ------------------------------
(***************************************************************************)
(* The daemon and the shop talking to each other over a network that loses *)
(* and delays: the shop's calls of the private API, made with the client   *)
(* library, and the webhooks of the daemon.  An answer that is lost leaves *)
(* the caller in the dark about what has been done.                        *)
(***************************************************************************)
EXTENDS WebhookSender

CONSTANT
  Refused        \* orders the shop's webhook handler always fails on

ASSUME RefusedAssumption == Refused \subseteq Orders

VARIABLES
  calls,         \* API requests on their way to the daemon, as [order, request]
  waiting,       \* orders the shop is waiting for an answer about
  known          \* orders whose invoice the shop has heard of

shopVars == <<calls, waiting, known>>
merchantVars == <<now, faults, rows, url, mode, processing, flight, transit, inbox, calls, waiting, known>>

MerchantTypeOK ==
  /\ SenderTypeOK
  /\ \A c \in calls : c.order \in Orders
  /\ waiting \subseteq Orders
  /\ known \subseteq Orders

MerchantInit ==
  /\ SenderInit
  /\ calls = {}
  /\ waiting = {}
  /\ known = {}

HasInvoice(o) == \E e \in DOMAIN rows : rows[e].entity = o

-----------------------------------------------------------------------------
(* KalatoriClient: create_invoice is a POST by order; update_invoice and   *)
(* cancel_invoice are POSTs, and get_invoice is a GET, by invoice.         *)
Methods == {"create", "change", "get"}

BuildRequest(o, what) ==
  add_headers_to_reqwest(Key,
    IF what = "get" THEN Unsigned("GET", what, << <<"invoice_id", o>> >>, <<>>)
                    ELSE Unsigned("POST", what, <<>>, <<o>>),
    now)

(* The shop needs the id of an invoice for anything but its creation.  It  *)
(* may send a call again when the first one was not answered.              *)
Call(o, what) ==
  /\ o \notin waiting
  /\ what # "create" => o \in known
  /\ IF what = "create" /\ o \notin known /\ ~HasInvoice(o) /\ ~\E c \in calls : c.order = o
       THEN UNCHANGED faults
       ELSE Fault
  /\ calls' = calls \cup {[order |-> o, request |-> BuildRequest(o, what)]}
  /\ waiting' = waiting \cup {o}
  /\ UNCHANGED <<now, senderVars, known>>

(* REQUEST_TIMEOUT of the client.                                          *)
CallTimesOut(o) ==
  /\ o \in waiting
  /\ ~\E c \in calls : c.order = o
  /\ waiting' = waiting \ {o}
  /\ UNCHANGED <<now, faults, senderVars, calls, known>>

(* What the routes of /private make of a call: the validator comes first;  *)
(* order_id is UNIQUE; get_invoice answers what is in the database.        *)
Outcome(c) ==
  IF validate_request(Key, c.request, now) # "Ok" THEN "rejected"
  ELSE IF c.request.path = "create"
    THEN IF HasInvoice(c.order) THEN "DuplicateOrderId" ELSE "created"
  ELSE IF c.request.path = "change" THEN "changed"
  ELSE "found"

(* The daemon works on a call.  Creation and change insert an event in the *)
(* same database transaction.  The answer arrives if somebody still waits. *)
HandleCall(c) ==
  LET outcome == Outcome(c) IN
  /\ c \in calls
  /\ mode # "stopped"
  /\ calls' = calls \ {c}
  /\ IF outcome \in {"created", "changed"}
       THEN Len(rows) < MaxEvents /\ create_webhook_event(c.order)
       ELSE UNCHANGED rows
  /\ \/ /\ waiting' = waiting \ {c.order}
        /\ known' = IF c.order \in waiting /\ outcome \in {"created", "changed", "found"}
                      THEN known \cup {c.order} ELSE known
        /\ UNCHANGED faults
     \/ /\ Fault
        /\ UNCHANGED <<waiting, known>>
  /\ UNCHANGED <<now, url, mode, processing, flight, transit, inbox>>

LoseCall(c) ==
  /\ c \in calls
  /\ Fault
  /\ calls' = calls \ {c}
  /\ UNCHANGED <<now, senderVars, waiting, known>>

(* The tasks of the daemon insert events too: an invoice is paid, expires. *)
SomethingHappens(o) ==
  /\ HasInvoice(o)
  /\ Len(rows) < MaxEvents
  /\ create_webhook_event(o)
  /\ UNCHANGED <<now, faults, url, mode, processing, flight, transit, inbox, shopVars>>

-----------------------------------------------------------------------------
(* The shop's webhook handler behind axum_hmac_validator.  It learns of an *)
(* invoice by any of its events.                                           *)
Accepts(m) ==
  /\ validate_request(Key, m.request, now) = "Ok"
  /\ rows[m.event].entity \notin Refused

Accepted(e) == \E n \in DOMAIN inbox : inbox[n] = e

(* The answer to the request that is out now, not to an earlier one.       *)
Answer(m, phase) ==
  IF flight[m.event].phase = "out" /\ flight[m.event].since = m.request.timestamp
    THEN [flight EXCEPT ![m.event].phase = phase] ELSE flight

Deliver(m) ==
  /\ m \in transit
  /\ transit' = transit \ {m}
  /\ inbox' = IF Accepts(m) /\ ~Accepted(m.event) THEN Append(inbox, m.event) ELSE inbox
  /\ known' = IF Accepts(m) THEN known \cup {rows[m.event].entity} ELSE known
  /\ \/ flight' = Answer(m, IF Accepts(m) THEN "ok" ELSE "failed") /\ UNCHANGED faults
     \/ Fault /\ UNCHANGED flight
  /\ UNCHANGED <<now, rows, url, mode, processing, calls, waiting>>

LoseWebhook(m) ==
  /\ m \in transit
  /\ Fault
  /\ transit' = transit \ {m}
  /\ UNCHANGED <<now, rows, url, mode, processing, flight, inbox, shopVars>>

-----------------------------------------------------------------------------
DaemonNext == (SenderStep \/ Restart) /\ UNCHANGED shopVars

NetworkNext ==
  \/ \E m \in transit : Deliver(m)
  \/ \E c \in calls : HandleCall(c)

MerchantNext ==
  \/ DaemonNext
  \/ Shutdown /\ UNCHANGED shopVars
  \/ Tick /\ UNCHANGED shopVars
  \/ NetworkNext
  \/ \E m \in transit : LoseWebhook(m)
  \/ \E c \in calls : LoseCall(c)
  \/ \E o \in Orders : \/ \E what \in Methods : Call(o, what)
                       \/ CallTimesOut(o)
                       \/ SomethingHappens(o)

(* The sender's loop goes on, what is in transit arrives unless it is lost *)
(* and time passes.                                                        *)
MerchantSpec ==
  /\ MerchantInit
  /\ [][MerchantNext]_merchantVars
  /\ WF_merchantVars(PrepareWebhookEvents /\ UNCHANGED shopVars)
  /\ WF_merchantVars(Restart /\ mode = "stopped" /\ UNCHANGED shopVars)
  /\ WF_merchantVars(Tick /\ UNCHANGED <<faults, shopVars>>)
  /\ \A e \in 1 .. MaxEvents :
       /\ WF_merchantVars((RequestTimesOut(e) \/ HandleSendWebhookResult(e)) /\ UNCHANGED shopVars)
       /\ WF_merchantVars(\E m \in transit : m.event = e /\ Deliver(m))

-----------------------------------------------------------------------------
(* The shop hears of the events of an invoice in the order they happened:  *)
(* before an event is accepted for the first time, every earlier one of    *)
(* the same invoice has been, through lost answers, timeouts, late         *)
(* arrivals, failed marks and restarts.                                    *)
FirstDeliveriesInOrder ==
  \A n \in DOMAIN inbox : \A d \in DOMAIN rows :
    d < inbox[n] /\ rows[d].entity = rows[inbox[n]].entity =>
      \E k \in 1 .. n - 1 : inbox[k] = d

(* Nothing is lost: an event that is marked as sent was accepted by the    *)
(* shop, if there is a webhook url at all.                                 *)
SentIsAccepted == url => \A e \in DOMAIN rows : rows[e].sent => Accepted(e)

(* Every event of an invoice that the shop does not refuse is accepted in  *)
(* the end.                                                                *)
EveryEventArrives ==
  url /\ 2 * Cardinality(Refused) < MaxRequests =>
    \A e \in 1 .. MaxEvents :
      (e \in DOMAIN rows /\ rows[e].entity \notin Refused) ~> Accepted(e)
=============================================================================
