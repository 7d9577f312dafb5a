--------------------------- MODULE MerchantProofs ---------------------------
(***************************************************************************)
(* What the shop hears of its invoices, for any number of orders, events   *)
(* and faults, any limit on concurrent requests and any timeout.           *)
(***************************************************************************)
EXTENDS Merchant, SequenceTheorems, TLAPS

Row == [entity : Orders, sent : BOOLEAN]

(* What the shop has confirmed, or the table says, it has accepted.        *)
ConfirmedIsAccepted ==
  url => /\ \A e \in DOMAIN rows : rows[e].sent => Accepted(e)
         /\ \A e \in 1 .. MaxEvents : flight[e].phase = "ok" => Accepted(e)

(* A webhook on its way is not overtaken: every earlier event of its       *)
(* invoice is marked as sent.                                              *)
TransitIsNext ==
  \A m \in transit :
    /\ url
    /\ \A d \in DOMAIN rows :
         d < m.event /\ rows[d].entity = rows[m.event].entity => rows[d].sent

(* The strengthening that makes the properties inductive.                  *)
MerchantInv ==
  /\ MerchantTypeOK
  /\ ConfirmedIsAccepted
  /\ TransitIsNext
  /\ FirstDeliveriesInOrder

(* What the assumptions say of each bound.                                 *)
LEMMA Bounds ==
  MaxRequests \in Nat /\ Patience \in Nat /\ MaxEvents \in Nat /\ Faults \in Nat
BY SenderAssumption

(* It holds initially.                                                     *)
LEMMA InitInv == MerchantInit => MerchantInv
<1> SUFFICES ASSUME MerchantInit PROVE MerchantInv
  OBVIOUS
<1> USE DEF MerchantInit, SenderInit
<1>1. MerchantTypeOK
  BY Bounds DEF MerchantTypeOK, SenderTypeOK, Flight, NotFlying
<1>2. ConfirmedIsAccepted
  BY DEF ConfirmedIsAccepted, NotFlying
<1>3. TransitIsNext /\ FirstDeliveriesInOrder
  BY DEF TransitIsNext, FirstDeliveriesInOrder
<1> QED
  BY <1>1, <1>2, <1>3 DEF MerchantInv

(* A fault is taken from the bound on faults.                              *)
LEMMA FaultType ==
  ASSUME faults \in 0 .. Faults, Fault
  PROVE  faults' \in 0 .. Faults
BY Bounds DEF Fault

-----------------------------------------------------------------------------
(* A step that leaves the table, the url, the requests in transit and the  *)
(* inbox alone keeps the invariant if it confirms nothing.                 *)
LEMMA QuietInv ==
  ASSUME MerchantInv, MerchantTypeOK',
         UNCHANGED <<rows, url, inbox>>,
         transit' \subseteq transit,
         \A e \in 1 .. MaxEvents : flight'[e].phase = "ok" => flight[e].phase = "ok" \/ ~url
  PROVE  MerchantInv'
<1>1. ConfirmedIsAccepted'
  BY DEF MerchantInv, ConfirmedIsAccepted, Accepted
<1>2. TransitIsNext'
  BY DEF MerchantInv, TransitIsNext
<1>3. FirstDeliveriesInOrder'
  BY DEF MerchantInv, FirstDeliveriesInOrder
<1> QED
  BY <1>1, <1>2, <1>3 DEF MerchantInv

(* A new event is younger than all that is in transit or in the inbox.     *)
LEMMA EventInv ==
  ASSUME MerchantInv, MerchantTypeOK', NEW o \in Orders,
         create_webhook_event(o),
         UNCHANGED <<url, flight, transit, inbox>>
  PROVE  MerchantInv'
<1>1. /\ rows \in Seq([entity : Orders, sent : BOOLEAN])
      /\ inbox \in Seq(DOMAIN rows)
      /\ \A m \in transit : m.event \in DOMAIN rows
  BY DEF MerchantInv, MerchantTypeOK, SenderTypeOK
<1>2. /\ DOMAIN rows = 1 .. Len(rows)
      /\ DOMAIN rows' = 1 .. Len(rows) + 1
      /\ Len(rows) \in Nat
      /\ \A e \in DOMAIN rows : rows'[e] = rows[e]
      /\ rows'[Len(rows) + 1] = [entity |-> o, sent |-> FALSE]
  BY <1>1 DEF create_webhook_event
<1>3. ConfirmedIsAccepted'
  BY <1>2 DEF MerchantInv, ConfirmedIsAccepted, Accepted
<1>4. TransitIsNext'
  BY <1>1, <1>2 DEF MerchantInv, TransitIsNext
<1>5. \A n \in DOMAIN inbox : inbox[n] \in DOMAIN rows
  BY <1>1
<1>6. FirstDeliveriesInOrder'
  BY <1>2, <1>5 DEF MerchantInv, FirstDeliveriesInOrder
<1> QED
  BY <1>3, <1>4, <1>6 DEF MerchantInv

-----------------------------------------------------------------------------
(* The sender.                                                             *)
LEMMA PrepareInv ==
  ASSUME MerchantInv, PrepareWebhookEvents, UNCHANGED shopVars
  PROVE  MerchantInv'
<1> DEFINE limit == MaxRequests - Cardinality(processing)
           new == get_webhook_events_to_send(limit) \ processing
<1>1. /\ mode = "running"
      /\ processing' = processing \cup new
      /\ flight' = [e \in DOMAIN flight |->
                      IF e \notin new THEN flight[e]
                      ELSE [phase |-> IF url THEN "out" ELSE "ok", since |-> now]]
      /\ transit' = IF url THEN transit \cup {[event |-> e, request |-> build_request(e)] : e \in new}
                    ELSE transit
      /\ UNCHANGED <<now, faults, rows, url, mode, inbox>>
  BY DEF PrepareWebhookEvents
<1>2. new \subseteq RankedFirst
  BY DEF get_webhook_events_to_send
<1> HIDE DEF new
<1>3. RankedFirst \subseteq DOMAIN rows
  BY DEF RankedFirst, Unsent
<1>4. \A m \in transit' : m \in transit \/ (url /\ m.event \in new)
  BY <1>1
<1>5. MerchantTypeOK'
  BY <1>1, <1>2, <1>3, <1>4
     DEF MerchantInv, MerchantTypeOK, SenderTypeOK, Flight, shopVars
<1>6. ConfirmedIsAccepted'
  BY <1>1 DEF MerchantInv, MerchantTypeOK, SenderTypeOK, ConfirmedIsAccepted, Accepted
<1>7. TransitIsNext'
  <2> SUFFICES ASSUME NEW m \in transit', NEW d \in DOMAIN rows, d < m.event,
                      rows[d].entity = rows[m.event].entity
               PROVE  rows[d].sent
    BY <1>1, <1>4 DEF TransitIsNext, MerchantInv
  <2>1. CASE m \in transit
    BY <2>1 DEF MerchantInv, TransitIsNext
  <2>2. CASE m.event \in new
    <3>1. /\ m.event \in Nat
          /\ d \in Nat
      BY <2>2, <1>2, <1>3 DEF MerchantInv, MerchantTypeOK, SenderTypeOK
    <3> QED
      BY <2>2, <3>1, <1>2 DEF RankedFirst, Unsent
  <2> QED
    BY <2>1, <2>2, <1>4
<1>8. FirstDeliveriesInOrder'
  BY <1>1 DEF MerchantInv, FirstDeliveriesInOrder
<1> QED
  BY <1>5, <1>6, <1>7, <1>8 DEF MerchantInv

(* A timeout confirms nothing.                                             *)
LEMMA TimeoutInv ==
  ASSUME MerchantInv, UNCHANGED shopVars, NEW e \in DOMAIN flight, RequestTimesOut(e)
  PROVE  MerchantInv'
<1>1. MerchantTypeOK'
  BY DEF RequestTimesOut, MerchantInv, MerchantTypeOK, SenderTypeOK, Flight, shopVars
<1>2. \A d \in 1 .. MaxEvents : flight'[d].phase = "ok" => flight[d].phase = "ok"
  BY DEF RequestTimesOut, MerchantInv, MerchantTypeOK, SenderTypeOK, Flight
<1> QED
  BY <1>1, <1>2, QuietInv DEF RequestTimesOut

(* A row is marked only for a request the shop has confirmed.              *)
LEMMA ResultInv ==
  ASSUME MerchantInv, UNCHANGED shopVars,
         NEW e \in DOMAIN flight, HandleSendWebhookResult(e)
  PROVE  MerchantInv'
<1>1. UNCHANGED <<now, url, transit, inbox, calls, waiting, known>>
  BY DEF HandleSendWebhookResult, shopVars
<1>2. rows \in Seq([entity : Orders, sent : BOOLEAN]) /\ inbox \in Seq(DOMAIN rows)
  BY DEF MerchantInv, MerchantTypeOK, SenderTypeOK
<1>3. /\ rows' \in Seq([entity : Orders, sent : BOOLEAN])
      /\ DOMAIN rows' = DOMAIN rows
      /\ \A d \in DOMAIN rows : rows'[d].entity = rows[d].entity
      /\ \A d \in DOMAIN rows : rows[d].sent => rows'[d].sent
      /\ \A d \in DOMAIN rows : rows'[d].sent => rows[d].sent \/ (d = e /\ flight[e].phase = "ok")
  <2>1. CASE UNCHANGED rows
    BY <2>1, <1>2
  <2>2. CASE flight[e].phase = "ok" /\ rows' = [rows EXCEPT ![e].sent = TRUE]
    <3>1. rows[e] \in Row => [rows[e] EXCEPT !.sent = TRUE] \in Row
      BY DEF Row
    <3>2. rows \in Seq(Row)
      BY <1>2 DEF Row
    <3>3. DOMAIN rows = 1 .. Len(rows) /\ \A d \in DOMAIN rows : rows[d] \in Row
      BY <3>2, LenProperties
    <3>4. CASE e \in DOMAIN rows
      <4>1. rows' = [rows EXCEPT ![e] = [rows[e] EXCEPT !.sent = TRUE]]
        BY <2>2
      <4>2. /\ rows' \in Seq(Row)
            /\ Len(rows') = Len(rows)
            /\ \A d \in DOMAIN rows :
                 rows'[d] = IF d = e THEN [rows[e] EXCEPT !.sent = TRUE] ELSE rows[d]
        BY <3>1, <3>2, <3>3, <3>4, <4>1, ExceptSeq
      <4>3. DOMAIN rows' = DOMAIN rows
        BY <3>3, <4>1
      <4> QED
        BY <2>2, <3>3, <4>2, <4>3 DEF Row
    <3>5. CASE e \notin DOMAIN rows
      <4>1. rows' = [d \in DOMAIN rows |-> rows[d]]
        BY <2>2, <3>5
      <4>2. rows = [d \in DOMAIN rows |-> rows[d]]
        BY <3>2, LenProperties
      <4> QED
        BY <4>1, <4>2, <1>2
    <3> QED
      BY <3>4, <3>5
  <2> QED
    BY <2>1, <2>2 DEF HandleSendWebhookResult
<1>4. e \in 1 .. MaxEvents
  BY DEF MerchantInv, MerchantTypeOK, SenderTypeOK
<1>5. flight' = [flight EXCEPT ![e] = NotFlying]
  BY DEF HandleSendWebhookResult
<1>6. MerchantTypeOK'
  <2>1. processing' \subseteq DOMAIN rows /\ (mode' = "stopped" => processing' = {})
    BY DEF HandleSendWebhookResult, MerchantInv, MerchantTypeOK, SenderTypeOK
  <2>2. mode' \in {"running", "draining", "stopped"}
    BY DEF HandleSendWebhookResult, MerchantInv, MerchantTypeOK, SenderTypeOK
  <2>3. faults' \in 0 .. Faults
    BY FaultType DEF HandleSendWebhookResult, MerchantInv, MerchantTypeOK, SenderTypeOK
  <2>4. flight' \in [1 .. MaxEvents -> Flight]
    BY <1>5 DEF MerchantInv, MerchantTypeOK, SenderTypeOK, Flight, NotFlying
  <2> QED
    BY <1>1, <1>3, <2>1, <2>2, <2>3, <2>4 DEF MerchantInv, MerchantTypeOK, SenderTypeOK
<1>7. ConfirmedIsAccepted'
  <2>1. \A d \in 1 .. MaxEvents : flight'[d].phase = "ok" => flight[d].phase = "ok"
    BY <1>5 DEF NotFlying, MerchantInv, MerchantTypeOK, SenderTypeOK
  <2> QED
    BY <1>1, <1>3, <1>4, <2>1 DEF MerchantInv, ConfirmedIsAccepted, Accepted
<1>8. TransitIsNext'
  BY <1>1, <1>3 DEF MerchantInv, MerchantTypeOK, SenderTypeOK, TransitIsNext
<1>9. FirstDeliveriesInOrder'
  <2>1. \A n \in DOMAIN inbox : inbox[n] \in DOMAIN rows
    BY <1>2
  <2> QED
    BY <1>1, <1>3, <2>1 DEF MerchantInv, FirstDeliveriesInOrder
<1> QED
  BY <1>6, <1>7, <1>8, <1>9 DEF MerchantInv

(* Shutdown, a crash and the clock forget flights and confirm nothing.     *)
LEMMA DisturbanceInv ==
  ASSUME MerchantInv, UNCHANGED shopVars, Restart \/ Shutdown \/ Tick
  PROVE  MerchantInv'
<1>1. CASE Restart
  <2>1. faults' \in 0 .. Faults
    BY <1>1, FaultType DEF Restart, MerchantInv, MerchantTypeOK, SenderTypeOK
  <2>2. MerchantTypeOK'
    BY <1>1, <2>1 DEF Restart, MerchantInv, MerchantTypeOK, SenderTypeOK, Flight,
         NotFlying, shopVars
  <2>3. \A d \in 1 .. MaxEvents : flight'[d].phase # "ok"
    BY <1>1 DEF Restart, NotFlying, MerchantInv, MerchantTypeOK, SenderTypeOK
  <2> QED
    BY <1>1, <2>2, <2>3, QuietInv DEF Restart
<1>2. CASE Shutdown
  <2>1. faults' \in 0 .. Faults
    BY <1>2, FaultType DEF Shutdown, MerchantInv, MerchantTypeOK, SenderTypeOK
  <2>2. MerchantTypeOK'
    BY <1>2, <2>1 DEF Shutdown, MerchantInv, MerchantTypeOK, SenderTypeOK, shopVars
  <2> QED
    BY <1>2, <2>2, QuietInv DEF Shutdown
<1>3. CASE Tick
  <2>1. faults' \in 0 .. Faults
    BY <1>3, FaultType DEF Tick, MerchantInv, MerchantTypeOK, SenderTypeOK
  <2>2. MerchantTypeOK'
    BY <1>3, <2>1 DEF Tick, MerchantInv, MerchantTypeOK, SenderTypeOK, shopVars, senderVars
  <2> QED
    BY <1>3, <2>2, QuietInv DEF Tick, senderVars
<1> QED
  BY <1>1, <1>2, <1>3

-----------------------------------------------------------------------------
(* A webhook arrives: what it confirms it has put into the inbox, and all  *)
(* that had to be there before is there.                                   *)
LEMMA DeliverInv ==
  ASSUME MerchantInv, NEW m \in transit, Deliver(m)
  PROVE  MerchantInv'
<1>1. /\ rows \in Seq([entity : Orders, sent : BOOLEAN])
      /\ inbox \in Seq(DOMAIN rows)
      /\ m.event \in DOMAIN rows
      /\ flight \in [1 .. MaxEvents -> Flight]
      /\ faults \in 0 .. Faults
  BY DEF MerchantInv, MerchantTypeOK, SenderTypeOK
<1>2. /\ transit' \subseteq transit
      /\ UNCHANGED <<now, rows, url, mode, processing, calls, waiting>>
  BY DEF Deliver
<1>3. \/ inbox' = inbox /\ (Accepts(m) => Accepted(m.event))
      \/ inbox' = Append(inbox, m.event) /\ Accepts(m) /\ ~Accepted(m.event)
  BY DEF Deliver
<1>4. /\ Len(inbox) \in Nat
      /\ DOMAIN inbox = 1 .. Len(inbox)
      /\ inbox' \in Seq(DOMAIN rows)
      /\ DOMAIN inbox \subseteq DOMAIN inbox'
      /\ \A n \in DOMAIN inbox : inbox'[n] = inbox[n]
  <2>1. CASE inbox' = inbox
    BY <2>1, <1>1
  <2>2. CASE inbox' = Append(inbox, m.event)
    BY <2>2, <1>1
  <2> QED
    BY <2>1, <2>2, <1>3
<1>5. \A d : Accepted(d) => Accepted(d)'
  BY <1>4 DEF Accepted
<1>6. Accepts(m) => Accepted(m.event)'
  BY <1>1, <1>3, <1>5 DEF Accepted
<1>7. faults' \in 0 .. Faults
  BY <1>1, FaultType DEF Deliver
<1>8. /\ flight' \in [1 .. MaxEvents -> Flight]
      /\ \A d \in 1 .. MaxEvents : flight'[d].phase = "ok" =>
           flight[d].phase = "ok" \/ (d = m.event /\ Accepts(m))
  <2>1. CASE UNCHANGED flight
    BY <2>1, <1>1
  <2>2. CASE flight' = Answer(m, IF Accepts(m) THEN "ok" ELSE "failed")
    BY <2>2, <1>1 DEF Answer, Flight
  <2> QED
    BY <2>1, <2>2 DEF Deliver
<1>9. known' \subseteq Orders
  <2>1. rows[m.event] \in Row
    <3>1. rows \in Seq(Row)
      BY <1>1 DEF Row
    <3> QED
      BY <3>1, <1>1, LenProperties
  <2> QED
    BY <2>1 DEF Row, Deliver, MerchantInv, MerchantTypeOK
<1>10. MerchantTypeOK'
  BY <1>2, <1>4, <1>7, <1>8, <1>9 DEF MerchantInv, MerchantTypeOK, SenderTypeOK
<1>11. ConfirmedIsAccepted'
  BY <1>2, <1>5, <1>6, <1>8 DEF MerchantInv, ConfirmedIsAccepted
<1>12. TransitIsNext'
  BY <1>2 DEF MerchantInv, TransitIsNext
<1>13. FirstDeliveriesInOrder'
  <2>1. CASE inbox' = inbox
    BY <2>1, <1>2 DEF MerchantInv, FirstDeliveriesInOrder
  <2>2. CASE inbox' = Append(inbox, m.event)
    <3>1. DOMAIN inbox' = 1 .. Len(inbox) + 1 /\ inbox'[Len(inbox) + 1] = m.event
      BY <2>2, <1>1
    <3>2. \A d \in DOMAIN rows : d < m.event /\ rows[d].entity = rows[m.event].entity
            => \E k \in 1 .. Len(inbox) : inbox[k] = d
      BY <1>4 DEF MerchantInv, TransitIsNext, ConfirmedIsAccepted, Accepted
    <3> SUFFICES ASSUME NEW n \in DOMAIN inbox', NEW d \in DOMAIN rows,
                        d < inbox'[n] /\ rows[d].entity = rows[inbox'[n]].entity
                 PROVE  \E k \in 1 .. n - 1 : inbox'[k] = d
      BY <1>2 DEF FirstDeliveriesInOrder
    <3>3. CASE n = Len(inbox) + 1
      BY <3>1, <3>2, <3>3, <1>4
    <3>4. CASE n \in DOMAIN inbox
      <4>1. PICK k \in 1 .. n - 1 : inbox[k] = d
        BY <3>4, <1>4 DEF MerchantInv, FirstDeliveriesInOrder
      <4> QED
        BY <4>1, <3>4, <1>4
    <3> QED
      BY <3>1, <3>3, <3>4, <1>4
  <2> QED
    BY <2>1, <2>2, <1>3
<1> QED
  BY <1>10, <1>11, <1>12, <1>13 DEF MerchantInv

(* A webhook that is lost confirms nothing.                                *)
LEMMA LoseInv ==
  ASSUME MerchantInv, NEW m \in transit, LoseWebhook(m)
  PROVE  MerchantInv'
<1>1. faults' \in 0 .. Faults
  BY FaultType DEF LoseWebhook, MerchantInv, MerchantTypeOK, SenderTypeOK
<1>2. MerchantTypeOK'
  BY <1>1 DEF LoseWebhook, MerchantInv, MerchantTypeOK, SenderTypeOK, shopVars
<1> QED
  BY <1>2, QuietInv DEF LoseWebhook

-----------------------------------------------------------------------------
(* The daemon works on a call: it may insert one event.                    *)
LEMMA HandleCallInv ==
  ASSUME MerchantInv, NEW c \in calls, HandleCall(c)
  PROVE  MerchantInv'
<1>1. c.order \in Orders /\ faults \in 0 .. Faults
  BY DEF MerchantInv, MerchantTypeOK, SenderTypeOK
<1>2. /\ calls' \subseteq calls
      /\ waiting' \subseteq Orders
      /\ known' \subseteq Orders
      /\ faults' \in 0 .. Faults
  BY <1>1, FaultType DEF HandleCall, MerchantInv, MerchantTypeOK
<1>3. UNCHANGED <<now, url, mode, processing, flight, transit, inbox>>
  BY DEF HandleCall
<1>4. CASE UNCHANGED rows
  <2>1. MerchantTypeOK'
    BY <1>2, <1>3, <1>4 DEF MerchantInv, MerchantTypeOK, SenderTypeOK
  <2> QED
    BY <2>1, <1>3, <1>4, QuietInv
<1>5. CASE create_webhook_event(c.order)
  <2>1. /\ rows' \in Seq([entity : Orders, sent : BOOLEAN])
        /\ DOMAIN rows \subseteq DOMAIN rows'
    BY <1>1, <1>5 DEF create_webhook_event, MerchantInv, MerchantTypeOK, SenderTypeOK
  <2>2. inbox' \in Seq(DOMAIN rows')
    BY <2>1, <1>3 DEF MerchantInv, MerchantTypeOK, SenderTypeOK
  <2>3. MerchantTypeOK'
    BY <1>2, <1>3, <2>1, <2>2 DEF MerchantInv, MerchantTypeOK, SenderTypeOK
  <2> QED
    BY <2>3, <1>1, <1>3, <1>5, EventInv
<1> QED
  BY <1>4, <1>5 DEF HandleCall

(* So does a task of the daemon.                                           *)
LEMMA HappensInv ==
  ASSUME MerchantInv, NEW o \in Orders, SomethingHappens(o)
  PROVE  MerchantInv'
<1>1. /\ create_webhook_event(o)
      /\ UNCHANGED <<now, faults, url, mode, processing, flight, transit, inbox, calls, waiting, known>>
  BY DEF SomethingHappens, shopVars
<1>2. /\ rows' \in Seq([entity : Orders, sent : BOOLEAN])
      /\ DOMAIN rows \subseteq DOMAIN rows'
  BY <1>1 DEF create_webhook_event, MerchantInv, MerchantTypeOK, SenderTypeOK
<1>3. inbox' \in Seq(DOMAIN rows')
  BY <1>1, <1>2 DEF MerchantInv, MerchantTypeOK, SenderTypeOK
<1>4. MerchantTypeOK'
  BY <1>1, <1>2, <1>3 DEF MerchantInv, MerchantTypeOK, SenderTypeOK
<1> QED
  BY <1>1, <1>4, EventInv

(* What the shop does with its calls is no business of the sender.         *)
LEMMA CallInv ==
  ASSUME MerchantInv,
         \/ \E c \in calls : LoseCall(c)
         \/ \E o \in Orders : (\E what \in Methods : Call(o, what)) \/ CallTimesOut(o)
  PROVE  MerchantInv'
<1>1. UNCHANGED <<now, rows, url, mode, processing, flight, transit, inbox, known>>
  BY DEF LoseCall, Call, CallTimesOut, senderVars
<1>2. faults' \in 0 .. Faults
  BY FaultType DEF LoseCall, Call, CallTimesOut, MerchantInv, MerchantTypeOK, SenderTypeOK
<1>3. (\A c \in calls' : c.order \in Orders) /\ waiting' \subseteq Orders
  BY DEF LoseCall, Call, CallTimesOut, MerchantInv, MerchantTypeOK
<1>4. MerchantTypeOK'
  BY <1>1, <1>2, <1>3 DEF MerchantInv, MerchantTypeOK, SenderTypeOK
<1> QED
  BY <1>1, <1>4, QuietInv

-----------------------------------------------------------------------------
(* The invariant is inductive.                                             *)
LEMMA NextInv ==
  MerchantInv /\ [MerchantNext]_merchantVars => MerchantInv'
<1> SUFFICES ASSUME MerchantInv, [MerchantNext]_merchantVars PROVE MerchantInv'
  OBVIOUS
<1>1. CASE DaemonNext
  BY <1>1, PrepareInv, TimeoutInv, ResultInv, DisturbanceInv DEF DaemonNext, SenderStep
<1>2. CASE (Shutdown \/ Tick) /\ UNCHANGED shopVars
  BY <1>2, DisturbanceInv
<1>3. CASE NetworkNext
  BY <1>3, DeliverInv, HandleCallInv DEF NetworkNext
<1>4. CASE \E m \in transit : LoseWebhook(m)
  BY <1>4, LoseInv
<1>5. CASE \/ \E c \in calls : LoseCall(c)
           \/ \E o \in Orders : (\E what \in Methods : Call(o, what)) \/ CallTimesOut(o)
  BY <1>5, CallInv
<1>6. CASE \E o \in Orders : SomethingHappens(o)
  BY <1>6, HappensInv
<1>7. CASE UNCHANGED merchantVars
  <2>1. UNCHANGED <<now, faults, rows, url, mode, processing, flight, transit, inbox,
                    calls, waiting, known>>
    BY <1>7 DEF merchantVars
  <2>2. MerchantTypeOK'
    BY <2>1 DEF MerchantInv, MerchantTypeOK, SenderTypeOK
  <2> QED
    BY <2>1, <2>2, QuietInv
<1> QED
  BY <1>1, <1>2, <1>3, <1>4, <1>5, <1>6, <1>7 DEF MerchantNext

(* Every reachable state satisfies it.                                     *)
LEMMA Invariance == MerchantSpec => []MerchantInv
BY InitInv, NextInv, PTL DEF MerchantSpec

(* The shop hears of the events of each invoice in the order in which they *)
(* happened.                                                               *)
THEOREM FirstDeliveriesInOrderAlways == MerchantSpec => []FirstDeliveriesInOrder
<1>1. MerchantInv => FirstDeliveriesInOrder
  BY DEF MerchantInv
<1> QED
  BY <1>1, Invariance, PTL

(* An event that is marked as sent was accepted by the shop.               *)
THEOREM SentIsAcceptedAlways == MerchantSpec => []SentIsAccepted
<1>1. MerchantInv => SentIsAccepted
  BY DEF MerchantInv, ConfirmedIsAccepted, SentIsAccepted
<1> QED
  BY <1>1, Invariance, PTL
=============================================================================
