----------------------------- MODULE Monitoring -----------------------------
(***************************************************************************)
(* From the configuration to the transfers the daemon sees: the daemon is  *)
(* started with a configuration, its chain clients connect to endpoints    *)
(* and learn about assets, and per chain a TransfersTracker subscribes,    *)
(* backs off when that fails, and is sound again when an event comes.      *)
(***************************************************************************)
EXTENDS Configuration

CONSTANTS
  Configs,       \* the configurations the daemon may be started with
  Urls,          \* of all their endpoints
  Invoices,
  OneEndpoint,   \* the chains whose client has one endpoint for everything
  InitialDelay,  \* INITIAL_RETRY_DELAY
  MaxDelay,      \* MAX_RETRY_DELAY
  MaxFailures,   \* consecutive failures that are told apart
  MaxOutages     \* how often an endpoint stops answering

(* PaymentsConfig and ChainsConfig, as they are read: for some chains S a  *)
(* default asset, for some chains T endpoints.                             *)
IsConfig(c) ==
  \E S, T \in SUBSET Chains :
    c \in [chain : Chains,
           default : [S -> AssetIds],
           assets : [Chains -> SUBSET AssetIds],
           recipients : SUBSET Chains,
           endpoints : [T -> SUBSET ChainEndpoints(Urls)]]

ASSUME MonitoringAssumption ==
  /\ \A c \in Configs : IsConfig(c)
  /\ OneEndpoint \subseteq Chains
  /\ InitialDelay \in Nat \ {0}
  /\ MaxDelay \in Nat
  /\ MaxDelay >= InitialDelay
  /\ MaxFailures \in Nat \ {0}
  \* by then the delay has reached its maximum
  /\ InitialDelay * 2^(MaxFailures - 1) >= MaxDelay

VARIABLES
  up,            \* the daemon runs
  conf,          \* its configuration, once extended
  invoices,      \* per invoice, its state, chain and asset
  store,         \* per chain, the assets the client has information on
  client,        \* per chain, the endpoint the tracker's client is connected to
  tracker,       \* per chain, the tracker
  reachable,     \* the urls that answer
  outages        \* how often one of them stopped

vars == <<up, conf, invoices, store, client, tracker, reachable, outages>>

NoInvoice == [state |-> "none", chain |-> "none", asset |-> "none"]

(* RetryState, and where perform is.  failures and slept are not in the    *)
(* code: how many failures there were since the last event, and how long   *)
(* the tracker has slept since the last of them.                           *)
NewTracker(where) ==
  [pc |-> where, delay |-> InitialDelay, degraded |-> FALSE, left |-> 0,
   failures |-> 0, slept |-> 0]

Init ==
  /\ up = FALSE
  /\ conf = [chain |-> "none"]
  /\ invoices = [i \in Invoices |-> NoInvoice]
  /\ store = [ch \in Chains |-> {}]
  /\ client = [ch \in Chains |-> "none"]
  /\ tracker = [ch \in Chains |-> NewTracker("off")]
  /\ reachable = Urls
  /\ outages = 0

Active(i) == invoices[i].state = "active"

(* used_asset_ids of the registry that init_invoice_registry has filled.   *)
UsedAssets ==
  [ch \in Chains |->
     {invoices[i].asset : i \in {j \in Invoices : /\ Active(j)
                                                  /\ invoices[j].chain = ch}}]

-----------------------------------------------------------------------------
(* from_config: a random endpoint for requests and one for subscriptions,  *)
(* which may be the same.  The Asset Hub client uses the first for both.   *)
Streams(ch) == IF ch \in OneEndpoint THEN "Requests" ELSE "Subscriptions"

Connects(c, ch, url) ==
  /\ url \in reachable
  /\ \E e \in EndpointsFor(c, ch, "Requests") : e.url \in reachable
  /\ \E e \in EndpointsFor(c, ch, Streams(ch)) : e.url = url

(* init_asset_info: the ids are parsed, so the store has canonical ids.    *)
Parsed(ids) == {Canonical[a] : a \in ids}

(* async_try_main as far as chains are concerned.  A configuration that is *)
(* not acceptable, or a chain that no client can connect to, ends it.      *)
Start(c, urls) ==
  LET loaded == Loaded(c)
      extended == Extended(loaded, UsedAssets)
  IN
  /\ ~up
  /\ Acceptable(loaded, UsedAssets)
  /\ \A ch \in Chains : Connects(extended, ch, urls[ch])
  /\ up' = TRUE
  /\ conf' = extended
  /\ store' = [ch \in Chains |-> Parsed(extended.assets[ch])]
  /\ client' = urls
  /\ tracker' = [ch \in Chains |-> NewTracker("subscribe")]
  /\ UNCHANGED <<invoices, reachable, outages>>

Stop ==
  /\ up
  /\ up' = FALSE
  /\ conf' = [chain |-> "none"]
  /\ store' = [ch \in Chains |-> {}]
  /\ client' = [ch \in Chains |-> "none"]
  /\ tracker' = [ch \in Chains |-> NewTracker("off")]
  /\ UNCHANGED <<invoices, reachable, outages>>

(* create_invoice: on the default chain, in its default asset.             *)
CreateInvoice(i) ==
  /\ up
  /\ invoices[i] = NoInvoice
  /\ invoices' = [invoices EXCEPT ![i] =
       [state |-> "active", chain |-> conf.chain,
        asset |-> conf.default[conf.chain]]]
  /\ UNCHANGED <<up, conf, store, client, tracker, reachable, outages>>

(* An invoice is paid, expires or is cancelled.                            *)
CloseInvoice(i) ==
  /\ up
  /\ Active(i)
  /\ invoices' = [invoices EXCEPT ![i].state = "closed"]
  /\ UNCHANGED <<up, conf, store, client, tracker, reachable, outages>>

-----------------------------------------------------------------------------
Doubled(t) == IF 2 * t > MaxDelay THEN MaxDelay ELSE 2 * t
Capped(n) == IF n > MaxFailures THEN MaxFailures ELSE n

(* record_failure_at, and the sleep that follows it.                       *)
RecordFailure(t) ==
  [pc |-> "sleep", delay |-> Doubled(t.delay), degraded |-> TRUE,
   left |-> t.delay, failures |-> Capped(t.failures + 1), slept |-> 0]

(* record_health_at                                                        *)
RecordHealth(t) ==
  [t EXCEPT !.delay = IF t.degraded THEN InitialDelay ELSE @,
            !.degraded = FALSE, !.failures = 0]

Keeps(ch, t) ==
  /\ tracker' = [tracker EXCEPT ![ch] = t]
  /\ UNCHANGED <<up, conf, invoices, store, reachable, outages>>

(* subscribe_transfers checks that every asset is known.                   *)
CanSubscribe(ch) ==
  /\ client[ch] \in reachable
  /\ Parsed(conf.assets[ch]) \subseteq store[ch]

(* Mutant: a new subscription counts as health.                            *)
SubscribeIsHealth(ch) ==
  /\ tracker[ch].pc = "subscribe"
  /\ CanSubscribe(ch)
  /\ Keeps(ch, [tracker[ch] EXCEPT !.pc = "poll", !.delay = InitialDelay])
  /\ UNCHANGED client

Subscribe(ch) ==
  /\ tracker[ch].pc = "subscribe"
  /\ CanSubscribe(ch)
  /\ Keeps(ch, [tracker[ch] EXCEPT !.pc = "poll"])
  /\ UNCHANGED client

(* Mutant: the client is never replaced.                                   *)
RetrySameEndpoint(ch, url) ==
  /\ tracker[ch].pc = "subscribe"
  /\ ~CanSubscribe(ch)
  /\ Keeps(ch, RecordFailure(tracker[ch]))
  /\ UNCHANGED client

(* The subscription fails: the tracker replaces its client by one that is  *)
(* connected to some endpoint.                                             *)
SwitchEndpoint(ch, url) ==
  /\ tracker[ch].pc = "subscribe"
  /\ ~CanSubscribe(ch)
  /\ Connects(conf, ch, url)
  /\ client' = [client EXCEPT ![ch] = url]
  /\ Keeps(ch, RecordFailure(tracker[ch]))

(* The endpoint it picked does not answer: it keeps the client it has.     *)
SwitchFails(ch) ==
  /\ tracker[ch].pc = "subscribe"
  /\ ~CanSubscribe(ch)
  /\ \E op \in {"Requests", Streams(ch)} :
       \E e \in EndpointsFor(conf, ch, op) : e.url \notin reachable
  /\ Keeps(ch, RecordFailure(tracker[ch]))
  /\ UNCHANGED client

(* The stream ends, with an error or without: the connection was closed, a *)
(* block or a log could not be processed, or nothing came from Polygon for *)
(* WS_MESSAGES_TIMEOUT_DURATION.  The same client subscribes again.        *)
StreamEnds(ch) ==
  /\ tracker[ch].pc = "poll"
  /\ Keeps(ch, RecordFailure(tracker[ch]))
  /\ UNCHANGED client

SleepOn(ch) ==
  LET t == tracker[ch] IN
  /\ t.pc = "sleep"
  /\ t.left > 0
  /\ Keeps(ch, [t EXCEPT !.left = @ - 1, !.slept = @ + 1])
  /\ UNCHANGED client

WakeUp(ch) ==
  LET t == tracker[ch] IN
  /\ t.pc = "sleep"
  /\ t.left = 0
  /\ Keeps(ch, [t EXCEPT !.pc = "subscribe", !.slept = 0])
  /\ UNCHANGED client

-----------------------------------------------------------------------------
Listening(ch) == tracker[ch].pc = "poll" /\ client[ch] \in reachable

(* An event: a transfer of a watched asset, in a log of a new Polygon      *)
(* block or in a finalized block of Asset Hub.  Whether it pays an invoice *)
(* is told in TransfersTracker.                                            *)
ReceiveEvent(ch) ==
  /\ Listening(ch)
  /\ Keeps(ch, RecordHealth(tracker[ch]))
  /\ UNCHANGED client

EndpointFails(url) ==
  /\ url \in reachable
  /\ outages < MaxOutages
  /\ outages' = outages + 1
  /\ reachable' = reachable \ {url}
  /\ UNCHANGED <<up, conf, invoices, store, client, tracker>>

EndpointReturns(url) ==
  /\ url \notin reachable
  /\ reachable' = reachable \cup {url}
  /\ UNCHANGED <<up, conf, invoices, store, client, tracker, outages>>

-----------------------------------------------------------------------------
TrackerStep(ch) ==
  \/ Subscribe(ch)
  \/ SwitchFails(ch)
  \/ \E url \in Urls : SwitchEndpoint(ch, url)
  \/ SleepOn(ch)
  \/ WakeUp(ch)

Next ==
  \/ \E c \in Configs, urls \in [Chains -> Urls] : Start(c, urls)
  \/ Stop
  \/ \E i \in Invoices :
       \/ CreateInvoice(i)
       \/ CloseInvoice(i)
  \/ \E ch \in Chains :
       up /\ (TrackerStep(ch) \/ StreamEnds(ch) \/ ReceiveEvent(ch))
  \/ \E url \in Urls : EndpointFails(url) \/ EndpointReturns(url)

(* The tracker is a task with timers; an endpoint is picked at random, and *)
(* not always one that does not answer.                                    *)
Fairness ==
  \A ch \in Chains :
    /\ WF_vars(up /\ TrackerStep(ch))
    /\ SF_vars(up /\ \E url \in Urls : SwitchEndpoint(ch, url))

Spec == Init /\ [][Next]_vars /\ Fairness

-----------------------------------------------------------------------------
(* While the daemon runs, every active invoice is served, however the      *)
(* configuration was changed since it was created: its asset is watched    *)
(* and known to the client, and its chain has a recipient for the payout.  *)
ServedWhileUp ==
  up => \A i \in Invoices :
    Active(i) =>
      LET ch == invoices[i].chain IN
      /\ ch \in conf.recipients
      /\ invoices[i].asset \in conf.assets[ch]
      /\ Canonical[invoices[i].asset] \in store[ch]

(* How long a tracker must have slept after n failures in a row.           *)
Pace(n) ==
  LET t == InitialDelay * 2^(n - 1) IN IF t > MaxDelay THEN MaxDelay ELSE t

(* Endpoints are not asked more often than the back-off allows: between    *)
(* the last of n failures in a row and the next attempt the tracker slept  *)
(* for the n-th delay, whatever the mix of failed subscriptions and        *)
(* streams that ended without an event was.                                *)
AttemptsArePaced ==
  [][\A ch \in Chains :
       (tracker[ch].pc = "sleep" /\ tracker'[ch].pc = "subscribe") =>
         tracker[ch].slept = Pace(tracker[ch].failures)]_vars

(* An endpoint that is gone for good is left for one that answers: if a    *)
(* chain keeps a usable endpoint, its tracker is subscribed again and      *)
(* again.                                                                  *)
TrackingResumes ==
  \A ch \in Chains :
    <>[](up /\ \E url \in Urls : Connects(conf, ch, url))
      => []<>(tracker[ch].pc = "poll")
=============================================================================
