-------------------------- MODULE MonitoringProofs --------------------------
(***************************************************************************)
(* Proofs about the way from the configuration to the transfers the daemon *)
(* sees, for any chains, assets, endpoints and configurations: every       *)
(* active invoice is served, and endpoints are not asked more often than   *)
(* the back-off allows.                                                    *)
(***************************************************************************)
EXTENDS Monitoring, FiniteSetTheorems, TLAPS

USE ConfigurationAssumption, MonitoringAssumption

Invoice == [state : {"none", "active", "closed"}, chain : Chains \cup {"none"},
            asset : AssetIds \cup {"none"}]

InvoicesFit ==
  /\ invoices \in [Invoices -> Invoice]
  /\ \A i \in Invoices : Active(i) => invoices[i].chain \in Chains /\ invoices[i].asset \in AssetIds

(* A new invoice would be served too, and the clients know every asset     *)
(* that is watched.                                                        *)
ConfigurationFits ==
  up => /\ conf.chain \in Chains
        /\ conf.chain \in conf.recipients
        /\ conf.default[conf.chain] \in AssetIds
        /\ conf.default[conf.chain] \in conf.assets[conf.chain]
        /\ \A ch \in Chains : \A a \in conf.assets[ch] : Canonical[a] \in store[ch]

(* The inductive invariant.                                                *)
MonitoringInv ==
  /\ InvoicesFit
  /\ ConfigurationFits
  /\ ServedWhileUp

-----------------------------------------------------------------------------
(* The configuration.                                                      *)

(* What a configuration is once it is loaded: its chain, its recipients    *)
(* and its assets are as they were read, and every chain has an asset.     *)
LEMMA LoadedIs ==
  ASSUME NEW c, IsConfig(c)
  PROVE  /\ Loaded(c).chain = c.chain
         /\ Loaded(c).recipients = c.recipients
         /\ Loaded(c).assets = c.assets
         /\ Loaded(c).default \in [Chains -> AssetIds]
         /\ \E e : Loaded(c) = [chain |-> c.chain, default |-> Loaded(c).default,
                                assets |-> c.assets, recipients |-> c.recipients,
                                endpoints |-> e]
<1> DEFINE d == [ch \in Chains |-> IF ch \in DOMAIN c.default THEN c.default[ch]
                                     ELSE BuiltinAsset[ch]]
           n == [ch \in Chains |-> IF ch \in DOMAIN c.endpoints /\ c.endpoints[ch] # {}
                                     THEN c.endpoints[ch] ELSE BuiltinEndpoints[ch]]
<1>1. d \in [Chains -> AssetIds]
  <2>1. PICK S \in SUBSET Chains : c.default \in [S -> AssetIds]
    BY DEF IsConfig
  <2> QED
    BY <2>1
<1>2. c = [chain |-> c.chain, default |-> c.default, assets |-> c.assets,
           recipients |-> c.recipients, endpoints |-> c.endpoints]
  BY DEF IsConfig
<1>3. set_default_asset_id_if_missing(c) =
        [chain |-> c.chain, default |-> d, assets |-> c.assets,
         recipients |-> c.recipients, endpoints |-> c.endpoints]
  <2>1. set_default_asset_id_if_missing(c) = [c EXCEPT !.default = d]
    BY DEF set_default_asset_id_if_missing
  <2> HIDE DEF d
  <2> QED
    BY <1>2, <2>1
<1>4. Loaded(c) = [chain |-> c.chain, default |-> d, assets |-> c.assets,
                   recipients |-> c.recipients, endpoints |-> n]
  <2> DEFINE b == set_default_asset_id_if_missing(c)
  <2>1. b.endpoints = c.endpoints
    BY <1>3
  <2>2. Loaded(c) = [b EXCEPT !.endpoints = n]
    BY <2>1 DEF Loaded, set_default_chains_if_missing
  <2> HIDE DEF d, n, b
  <2>3. b = [chain |-> c.chain, default |-> d, assets |-> c.assets,
             recipients |-> c.recipients, endpoints |-> c.endpoints]
    BY <1>3 DEF b
  <2> QED
    BY <2>2, <2>3
<1> HIDE DEF d, n
<1>5. /\ Loaded(c).chain = c.chain /\ Loaded(c).recipients = c.recipients
      /\ Loaded(c).assets = c.assets /\ Loaded(c).default = d
  BY <1>4
<1> QED
  BY <1>1, <1>4, <1>5

(* What it is once it is extended: nothing is taken away, and the default  *)
(* assets and those in use are watched.                                    *)
LEMMA ExtendedIs ==
  ASSUME NEW c, IsConfig(c), NEW STATE used
  PROVE  LET x == Extended(Loaded(c), used) IN
         /\ x.chain = c.chain
         /\ x.recipients = c.recipients
         /\ x.default = Loaded(c).default
         /\ \A ch \in Chains :
              x.assets[ch] = c.assets[ch] \cup {Loaded(c).default[ch]} \cup used[ch]
<1> DEFINE l == Loaded(c)
           a1 == [ch \in Chains |-> c.assets[ch] \cup {l.default[ch]}]
           a2 == [ch \in Chains |-> a1[ch] \cup used[ch]]
<1>1. PICK e : l = [chain |-> c.chain, default |-> l.default, assets |-> c.assets,
                    recipients |-> c.recipients, endpoints |-> e]
  BY LoadedIs
<1>2. l.assets = c.assets
  BY LoadedIs
<1>3. add_default_asset_ids(l) = [l EXCEPT !.assets = a1]
  BY <1>2 DEF add_default_asset_ids
<1>4. \A ch \in Chains : a2[ch] = c.assets[ch] \cup {l.default[ch]} \cup used[ch]
  OBVIOUS
<1> DEFINE m == add_default_asset_ids(l)
<1> HIDE DEF a1
<1>5. m = [chain |-> c.chain, default |-> l.default, assets |-> a1,
           recipients |-> c.recipients, endpoints |-> e]
  <2> HIDE DEF l
  <2> QED
    BY <1>1, <1>3
<1>6. Extended(l, used) = [m EXCEPT !.assets = a2]
  <2>1. m.assets = a1
    BY <1>5
  <2> QED
    BY <2>1 DEF Extended, add_restored_asset_ids
<1> HIDE DEF a2, m, l
<1>7. Extended(l, used) = [chain |-> c.chain, default |-> l.default, assets |-> a2,
                           recipients |-> c.recipients, endpoints |-> e]
  BY <1>5, <1>6
<1>8. /\ Extended(l, used).chain = c.chain
      /\ Extended(l, used).recipients = c.recipients
      /\ Extended(l, used).default = l.default
      /\ Extended(l, used).assets = a2
  BY <1>7
<1> QED
  BY <1>4, <1>8 DEF l

-----------------------------------------------------------------------------
(* Nothing is active at first.                                             *)
LEMMA InitHasInv == Init => MonitoringInv
  BY DEF Init, NoInvoice, MonitoringInv, InvoicesFit, Invoice, Active,
         ConfigurationFits, ServedWhileUp

(* A start serves the invoices it finds: their chains are required to have *)
(* a recipient, and their assets are added to those that are watched.      *)
LEMMA StartKeepsInv ==
  ASSUME MonitoringInv, NEW c \in Configs, NEW urls, Start(c, urls)
  PROVE  MonitoringInv'
<1> DEFINE x == Extended(Loaded(c), UsedAssets)
<1>1. IsConfig(c)
  OBVIOUS
<1>2. /\ x.chain = c.chain
      /\ x.recipients = c.recipients
      /\ x.default = Loaded(c).default
      /\ \A ch \in Chains :
           x.assets[ch] = c.assets[ch] \cup {Loaded(c).default[ch]} \cup UsedAssets[ch]
  BY <1>1, ExtendedIs
<1>3. /\ Loaded(c).chain = c.chain /\ Loaded(c).recipients = c.recipients
      /\ Loaded(c).default \in [Chains -> AssetIds]
  BY <1>1, LoadedIs
<1>4. c.chain \in Chains
  BY <1>1 DEF IsConfig
<1>5. {c.chain} \cup {ch \in Chains : UsedAssets[ch] # {}} \subseteq c.recipients
  BY <1>3 DEF Start, Acceptable, validate_recipients, RequiredChains
<1>6. /\ up' = TRUE /\ conf' = x
      /\ store' = [ch \in Chains |-> Parsed(x.assets[ch])]
      /\ UNCHANGED invoices
  BY DEF Start
<1>7. \A ch \in Chains : \A a \in x.assets[ch] : Canonical[a] \in store'[ch]
  BY <1>6 DEF Parsed
<1>8. \A i \in Invoices : Active(i) =>
        /\ invoices[i].chain \in Chains
        /\ invoices[i].asset \in UsedAssets[invoices[i].chain]
  BY DEF UsedAssets, MonitoringInv, InvoicesFit
<1> HIDE DEF x
<1>9. ConfigurationFits'
  BY <1>2, <1>3, <1>4, <1>5, <1>6, <1>7 DEF ConfigurationFits
<1>10. ServedWhileUp'
  <2> SUFFICES ASSUME NEW i \in Invoices, Active(i)'
               PROVE  (LET ch == invoices[i].chain IN
                       /\ ch \in conf.recipients
                       /\ invoices[i].asset \in conf.assets[ch]
                       /\ Canonical[invoices[i].asset] \in store[ch])'
    BY DEF ServedWhileUp
  <2>1. /\ invoices[i].chain \in Chains
        /\ invoices[i].asset \in UsedAssets[invoices[i].chain]
    BY <1>6, <1>8 DEF Active
  <2>2. invoices[i].chain \in c.recipients
    BY <1>5, <2>1
  <2>3. invoices[i].asset \in x.assets[invoices[i].chain]
    BY <1>2, <2>1
  <2> QED
    BY <1>2, <1>6, <1>7, <2>1, <2>2, <2>3
<1> QED
  BY <1>6, <1>9, <1>10
     DEF MonitoringInv, InvoicesFit, Active

(* A stop leaves the database alone.                                       *)
LEMMA StopKeepsInv ==
  ASSUME MonitoringInv, Stop
  PROVE  MonitoringInv'
  BY DEF Stop, MonitoringInv, InvoicesFit, Active, ConfigurationFits,
         ServedWhileUp

(* A new invoice is in an asset that is watched.                           *)
LEMMA CreateInvoiceKeepsInv ==
  ASSUME MonitoringInv, NEW i \in Invoices, CreateInvoice(i)
  PROVE  MonitoringInv'
<1> DEFINE r == [state |-> "active", chain |-> conf.chain,
                 asset |-> conf.default[conf.chain]]
<1>1. /\ up /\ invoices[i] = NoInvoice
      /\ invoices' = [invoices EXCEPT ![i] = r]
      /\ UNCHANGED <<up, conf, store>>
  BY DEF CreateInvoice
<1>2. /\ conf.chain \in Chains /\ conf.chain \in conf.recipients
      /\ conf.default[conf.chain] \in AssetIds
      /\ conf.default[conf.chain] \in conf.assets[conf.chain]
      /\ Canonical[conf.default[conf.chain]] \in store[conf.chain]
  BY <1>1 DEF MonitoringInv, ConfigurationFits
<1>3. /\ r \in Invoice /\ r.state = "active" /\ r.chain = conf.chain
      /\ r.asset = conf.default[conf.chain]
  BY <1>2 DEF Invoice
<1> HIDE DEF r
<1>4. /\ invoices' \in [Invoices -> Invoice]
      /\ \A j \in Invoices : invoices'[j] = IF j = i THEN r ELSE invoices[j]
  BY <1>1, <1>3 DEF MonitoringInv, InvoicesFit
<1>5. InvoicesFit'
  BY <1>1, <1>2, <1>3, <1>4 DEF MonitoringInv, InvoicesFit, Active
<1>6. ConfigurationFits'
  BY <1>1 DEF MonitoringInv, ConfigurationFits
<1>7. ServedWhileUp'
  BY <1>1, <1>2, <1>3, <1>4 DEF MonitoringInv, ServedWhileUp, Active
<1> QED
  BY <1>5, <1>6, <1>7 DEF MonitoringInv

(* An invoice that is closed needs no service any more.                    *)
LEMMA CloseInvoiceKeepsInv ==
  ASSUME MonitoringInv, NEW i \in Invoices, CloseInvoice(i)
  PROVE  MonitoringInv'
<1> DEFINE r == [state |-> "closed", chain |-> invoices[i].chain,
                 asset |-> invoices[i].asset]
<1>1. UNCHANGED <<up, conf, store>>
  BY DEF CloseInvoice
<1>2. invoices[i] \in Invoice
  BY DEF MonitoringInv, InvoicesFit
<1>3. invoices' = [invoices EXCEPT ![i] = r]
  <2>1. [invoices[i] EXCEPT !.state = "closed"] = r
    BY <1>2 DEF Invoice
  <2>2. invoices' = [invoices EXCEPT ![i] = [invoices[i] EXCEPT !.state = "closed"]]
    BY DEF CloseInvoice
  <2> QED
    BY <2>1, <2>2
<1>4. r \in Invoice /\ r.state = "closed" /\ r.chain = invoices[i].chain
  BY <1>2 DEF Invoice
<1> HIDE DEF r
<1>5. /\ invoices' \in [Invoices -> Invoice]
      /\ \A j \in Invoices : invoices'[j] = IF j = i THEN r ELSE invoices[j]
  BY <1>3, <1>4 DEF MonitoringInv, InvoicesFit
<1>6. InvoicesFit' /\ ConfigurationFits' /\ ServedWhileUp'
  BY <1>1, <1>4, <1>5
     DEF MonitoringInv, InvoicesFit, Active, ConfigurationFits, ServedWhileUp
<1> QED
  BY <1>6 DEF MonitoringInv

-----------------------------------------------------------------------------
(* The other steps leave all of it alone.                                  *)
LEMMA ElsewhereKeepsInv ==
  ASSUME MonitoringInv,
         UNCHANGED <<up, conf, invoices, store>>
  PROVE  MonitoringInv'
  BY DEF MonitoringInv, InvoicesFit, Active, ConfigurationFits, ServedWhileUp

(* Every step keeps the invariant.                                         *)
LEMMA StepKeepsInv == MonitoringInv /\ [Next]_vars => MonitoringInv'
<1> SUFFICES ASSUME MonitoringInv, [Next]_vars
             PROVE  MonitoringInv'
  OBVIOUS
<1>1. CASE \E c \in Configs, urls \in [Chains -> Urls] : Start(c, urls)
  BY <1>1, StartKeepsInv
<1>2. CASE Stop
  BY <1>2, StopKeepsInv
<1>3. ASSUME NEW i \in Invoices,
             CreateInvoice(i) \/ CloseInvoice(i)
      PROVE  MonitoringInv'
  BY <1>3, CreateInvoiceKeepsInv, CloseInvoiceKeepsInv
<1>4. ASSUME NEW ch \in Chains, TrackerStep(ch) \/ StreamEnds(ch) \/ ReceiveEvent(ch)
      PROVE  MonitoringInv'
  <2>1. UNCHANGED <<up, conf, invoices, store>>
    BY <1>4 DEF TrackerStep, Subscribe, SwitchFails, SwitchEndpoint, SleepOn,
                WakeUp, StreamEnds, ReceiveEvent, Keeps
  <2> QED
    BY <2>1, ElsewhereKeepsInv
<1>5. ASSUME NEW url \in Urls, EndpointFails(url) \/ EndpointReturns(url)
      PROVE  MonitoringInv'
  BY <1>5, ElsewhereKeepsInv DEF EndpointFails, EndpointReturns
<1>6. CASE UNCHANGED vars
  BY <1>6, ElsewhereKeepsInv DEF vars
<1> QED
  BY <1>1, <1>2, <1>3, <1>4, <1>5, <1>6 DEF Next

(* It holds always.                                                        *)
LEMMA InvAlways == Spec => []MonitoringInv
  BY InitHasInv, StepKeepsInv, PTL DEF Spec

-----------------------------------------------------------------------------
(* While the daemon runs, every active invoice is served, however often it *)
(* was restarted and whatever configurations it was restarted with: the    *)
(* check of the recipients and the assets of the restored invoices in      *)
(* validate_and_extend_configs are enough.                                 *)
THEOREM ServedWhileUpAlways == Spec => []ServedWhileUp
<1>1. MonitoringInv => ServedWhileUp
  BY DEF MonitoringInv
<1> QED
  BY <1>1, InvAlways, PTL

-----------------------------------------------------------------------------
(* The back-off.                                                           *)

(* A power of two is a positive number and the next one is twice as large: *)
(* counted as the subsets of 1 .. n + 1, with n + 1 and without it.        *)
LEMMA PowerDoubles ==
  ASSUME NEW n \in Nat
  PROVE  /\ 2^n \in Nat
         /\ 2^n >= 1
         /\ 2^(n + 1) = 2 * 2^n
<1> DEFINE S == 1 .. n
           T == 1 .. n + 1
           With == {s \in SUBSET T : n + 1 \in s}
           f == [s \in SUBSET S |-> s \cup {n + 1}]
<1>1. /\ IsFiniteSet(S) /\ Cardinality(S) = n
      /\ IsFiniteSet(T) /\ Cardinality(T) = n + 1
  BY FS_Interval
<1>2. /\ IsFiniteSet(SUBSET S) /\ Cardinality(SUBSET S) = 2^n
      /\ IsFiniteSet(SUBSET T) /\ Cardinality(SUBSET T) = 2^(n + 1)
  <2>1. /\ IsFiniteSet(SUBSET S) /\ Cardinality(SUBSET S) = 2^Cardinality(S)
        /\ IsFiniteSet(SUBSET T) /\ Cardinality(SUBSET T) = 2^Cardinality(T)
    BY <1>1, FS_SUBSET
  <2> QED
    BY <1>1, <2>1
<1>3. f \in Bijection(SUBSET S, With)
  <2>1. \A s \in SUBSET S : s \cup {n + 1} \in With
    OBVIOUS
  <2>2. \A s \in With : s \ {n + 1} \in SUBSET S /\ (s \ {n + 1}) \cup {n + 1} = s
    OBVIOUS
  <2>3. \A s, t \in SUBSET S : s \cup {n + 1} = t \cup {n + 1} => s = t
    <3>1. n + 1 \notin S
      OBVIOUS
    <3> HIDE DEF S
    <3> QED
      BY ONLY <3>1
  <2> HIDE DEF S, With
  <2>4. f \in [SUBSET S -> With]
    BY <2>1
  <2>5. IsInjective(f)
    BY <2>3 DEF IsInjective
  <2>6. \A t \in With : \E s \in SUBSET S : f[s] = t
    BY <2>2
  <2> QED
    BY <2>4, <2>5, <2>6 DEF Bijection, Injection, Surjection
<1>4. IsFiniteSet(With) /\ Cardinality(With) = 2^n
  BY <1>2, <1>3, FS_Bijection DEF ExistsBijection
<1>5. (SUBSET S) \cup With = SUBSET T /\ (SUBSET S) \cap With = {}
  <2>1. T = S \cup {n + 1} /\ n + 1 \notin S
    OBVIOUS
  <2> HIDE DEF S, T
  <2> QED
    BY <2>1
<1> HIDE DEF S, T, With
<1>6. Cardinality(SUBSET T) = Cardinality(SUBSET S) + Cardinality(With) - 0
  <2>1. Cardinality((SUBSET S) \cup With) =
          Cardinality(SUBSET S) + Cardinality(With) - Cardinality((SUBSET S) \cap With)
    BY <1>2, <1>4, FS_Union
  <2> QED
    BY <1>5, <2>1, FS_EmptySet
<1>7. Cardinality(SUBSET S) \in Nat /\ Cardinality(SUBSET S) # 0
  BY <1>2, FS_CardinalityType, FS_EmptySet
<1> QED
  BY <1>2, <1>4, <1>6, <1>7

(* The next pace is the doubled one, the first is InitialDelay, and once   *)
(* all failures that are told apart have happened it is MaxDelay.          *)
LEMMA PaceDoubles ==
  /\ Pace(1) = InitialDelay
  /\ \A n \in Nat \ {0} : Pace(n) \in Nat /\ Pace(n + 1) = Doubled(Pace(n))
  /\ Pace(MaxFailures) = MaxDelay
  /\ Doubled(MaxDelay) = MaxDelay
<1>1. Pace(1) = InitialDelay
  <2>1. 2^(1 - 1) = 1
    OBVIOUS
  <2> QED
    BY <2>1 DEF Pace
<1>2. ASSUME NEW n \in Nat \ {0}
      PROVE  Pace(n) \in Nat /\ Pace(n + 1) = Doubled(Pace(n))
  <2> DEFINE w == 2^(n - 1)
             v == InitialDelay * w
  <2>1. w \in Nat /\ 2^n = 2 * w
    <3>1. n - 1 \in Nat /\ (n - 1) + 1 = n
      OBVIOUS
    <3> QED
      BY <3>1, PowerDoubles
  <2>2. v \in Nat
    BY <2>1
  <2>3. InitialDelay * 2^((n + 1) - 1) = 2 * v
    <3>1. (n + 1) - 1 = n
      OBVIOUS
    <3> HIDE DEF w
    <3>2. InitialDelay * (2 * w) = 2 * (InitialDelay * w)
      BY <2>1
    <3> QED
      BY <2>1, <3>1, <3>2
  <2>4. Pace(n) = IF v > MaxDelay THEN MaxDelay ELSE v
    BY DEF Pace
  <2>5. Pace(n + 1) = IF 2 * v > MaxDelay THEN MaxDelay ELSE 2 * v
    BY <2>3 DEF Pace
  <2> HIDE DEF v
  <2> QED
    BY <2>2, <2>4, <2>5 DEF Doubled
<1>3. Pace(MaxFailures) = MaxDelay
  <2>1. 2^(MaxFailures - 1) \in Nat
    BY PowerDoubles
  <2>2. InitialDelay * 2^(MaxFailures - 1) \in Nat
    BY <2>1
  <2> QED
    BY <2>2 DEF Pace
<1>4. Doubled(MaxDelay) = MaxDelay
  BY DEF Doubled
<1> QED
  BY <1>1, <1>2, <1>3, <1>4

Tracker ==
  [pc : {"off", "subscribe", "poll", "sleep"}, delay : Nat, degraded : BOOLEAN,
   left : Nat, failures : 0 .. MaxFailures, slept : Nat]

(* A tracker is in step with its back-off: the delay it holds is the one   *)
(* after the next failure, it is degraded after a failure, and what it has *)
(* slept and has left to sleep is the delay of the last failure.           *)
InStep(t) ==
  /\ t.delay = Pace(t.failures + 1)
  /\ ~t.degraded => t.failures = 0
  /\ t.pc = "sleep" => t.failures > 0 /\ t.left + t.slept = Pace(t.failures)

(* The inductive invariant of the back-off.                                *)
BackoffInv ==
  /\ tracker \in [Chains -> Tracker]
  /\ \A ch \in Chains : InStep(tracker[ch]) /\ (~up => tracker[ch].pc = "off")

(* A new tracker is in step.                                               *)
LEMMA NewTrackerInStep ==
  ASSUME NEW where \in {"off", "subscribe"}
  PROVE  /\ NewTracker(where) \in Tracker
         /\ InStep(NewTracker(where))
         /\ NewTracker(where).pc = where
<1>1. Pace(0 + 1) = InitialDelay
  BY PaceDoubles
<1> QED
  BY <1>1 DEF NewTracker, Tracker, InStep

(* A failure leaves a tracker in step, whether or not it is one of those   *)
(* that are told apart.                                                    *)
LEMMA FailureInStep ==
  ASSUME NEW t \in Tracker, InStep(t)
  PROVE  /\ RecordFailure(t) \in Tracker
         /\ InStep(RecordFailure(t))
         /\ RecordFailure(t).pc = "sleep"
<1> DEFINE n == t.failures
<1>1. n \in 0 .. MaxFailures /\ t.delay = Pace(n + 1)
  BY DEF Tracker, InStep
<1>2. /\ Pace(n + 1) \in Nat
      /\ Pace((n + 1) + 1) = Doubled(Pace(n + 1)) /\ Pace((n + 1) + 1) \in Nat
  BY <1>1, PaceDoubles
<1>3. /\ Capped(n + 1) \in 1 .. MaxFailures
      /\ Pace(Capped(n + 1)) = Pace(n + 1)
      /\ Pace(Capped(n + 1) + 1) = Doubled(Pace(n + 1))
  <2>1. CASE n < MaxFailures
    <3>1. Capped(n + 1) = n + 1
      BY <1>1, <2>1 DEF Capped
    <3> QED
      BY <1>1, <1>2, <2>1, <3>1
  <2>2. CASE n = MaxFailures
    <3>1. Capped(n + 1) = MaxFailures
      BY <2>2 DEF Capped
    <3>2. Pace(n + 1) = MaxDelay
      BY <2>2, PaceDoubles
    <3> QED
      BY <2>2, <3>1, <3>2, PaceDoubles
  <2> QED
    BY <1>1, <2>1, <2>2
<1> DEFINE c == Capped(n + 1)
<1>4. RecordFailure(t) = [pc |-> "sleep", delay |-> Doubled(Pace(n + 1)), degraded |-> TRUE,
                          left |-> Pace(n + 1), failures |-> c, slept |-> 0]
  BY <1>1 DEF RecordFailure
<1> HIDE DEF n, c
<1> QED
  BY <1>2, <1>3, <1>4 DEF Tracker, InStep, c

(* An event leaves a tracker in step.                                      *)
LEMMA HealthInStep ==
  ASSUME NEW t \in Tracker, InStep(t), t.pc = "poll"
  PROVE  /\ RecordHealth(t) \in Tracker
         /\ InStep(RecordHealth(t))
         /\ RecordHealth(t).pc = "poll"
<1>1. Pace(0 + 1) = InitialDelay
  BY PaceDoubles
<1>2. RecordHealth(t) = [pc |-> "poll", delay |-> InitialDelay, degraded |-> FALSE,
                         left |-> t.left, failures |-> 0, slept |-> t.slept]
  <2>1. t.delay = InitialDelay \/ t.degraded
    BY <1>1 DEF InStep, Tracker
  <2>2. RecordHealth(t) = [t EXCEPT !.delay = InitialDelay, !.degraded = FALSE, !.failures = 0]
    BY <2>1 DEF RecordHealth
  <2> QED
    BY <2>2 DEF Tracker
<1> QED
  BY <1>1, <1>2 DEF Tracker, InStep

(* A step of one tracker that leaves it in step, and does not end a sleep  *)
(* that is not over, is paced and keeps the invariant.                     *)
Paced(ch) ==
  (tracker[ch].pc = "sleep" /\ tracker'[ch].pc = "subscribe") =>
    tracker[ch].slept = Pace(tracker[ch].failures)

LEMMA OneTrackerSteps ==
  ASSUME BackoffInv, up' = up, NEW ch \in Chains, NEW ACTION t, t \in Tracker, InStep(t),
         ~up => t.pc = "off",
         tracker[ch].pc = "sleep" /\ t.pc = "subscribe" =>
           tracker[ch].slept = Pace(tracker[ch].failures),
         tracker' = [tracker EXCEPT ![ch] = t]
  PROVE  BackoffInv' /\ \A d \in Chains : Paced(d)
  BY DEF BackoffInv, Paced

(* No tracker moves, and the daemon neither starts nor stops.              *)
LEMMA NoTrackerSteps ==
  ASSUME BackoffInv, UNCHANGED <<up, tracker>>
  PROVE  BackoffInv' /\ \A d \in Chains : Paced(d)
  BY DEF BackoffInv, Paced

(* A failure of one tracker.                                               *)
LEMMA FailureKeepsPace ==
  ASSUME BackoffInv, up, NEW ch \in Chains, Keeps(ch, RecordFailure(tracker[ch]))
  PROVE  BackoffInv' /\ \A d \in Chains : Paced(d)
<1>1. tracker[ch] \in Tracker /\ InStep(tracker[ch])
  BY DEF BackoffInv
<1> QED
  BY <1>1, FailureInStep, OneTrackerSteps DEF Keeps

(* The steps of a tracker.                                                 *)
LEMMA TrackerKeepsPace ==
  ASSUME BackoffInv, up, NEW ch \in Chains,
         TrackerStep(ch) \/ StreamEnds(ch) \/ ReceiveEvent(ch)
  PROVE  BackoffInv' /\ \A d \in Chains : Paced(d)
<1> DEFINE t == tracker[ch]
<1>1. t \in Tracker /\ InStep(t)
  BY DEF BackoffInv
<1>2. CASE Subscribe(ch)
  <2>1. [t EXCEPT !.pc = "poll"] \in Tracker /\ InStep([t EXCEPT !.pc = "poll"])
    BY <1>1 DEF Tracker, InStep
  <2>2. [t EXCEPT !.pc = "poll"].pc = "poll"
    BY <1>1 DEF Tracker
  <2> QED
    BY <1>2, <2>1, <2>2, OneTrackerSteps DEF Subscribe, Keeps
<1>3. CASE \/ SwitchFails(ch) \/ StreamEnds(ch)
           \/ \E url \in Urls : SwitchEndpoint(ch, url)
  BY <1>3, FailureKeepsPace DEF SwitchFails, SwitchEndpoint, StreamEnds
<1>4. CASE SleepOn(ch)
  <2> DEFINE u == [t EXCEPT !.left = t.left - 1, !.slept = t.slept + 1]
  <2>1. t.pc = "sleep" /\ t.left > 0 /\ tracker' = [tracker EXCEPT ![ch] = u] /\ up' = up
    BY <1>4 DEF SleepOn, Keeps
  <2>2. t.left \in Nat /\ t.slept \in Nat /\ t.left - 1 \in Nat /\ t.slept + 1 \in Nat
    BY <1>1, <2>1 DEF Tracker
  <2>3. u \in Tracker /\ InStep(u) /\ u.pc = "sleep"
    <3>1. u \in Tracker
      BY <1>1, <2>2 DEF Tracker
    <3>2. /\ u.pc = t.pc /\ u.delay = t.delay /\ u.degraded = t.degraded
          /\ u.left = t.left - 1 /\ u.failures = t.failures /\ u.slept = t.slept + 1
      BY <1>1 DEF Tracker
    <3>3. u.left + u.slept = t.left + t.slept
      BY <2>2, <3>2
    <3> HIDE DEF u
    <3> QED
      BY <1>1, <2>1, <3>1, <3>2, <3>3 DEF InStep
  <2> HIDE DEF u
  <2> QED
    BY <2>1, <2>3, OneTrackerSteps
<1>5. CASE WakeUp(ch)
  <2> DEFINE u == [t EXCEPT !.pc = "subscribe", !.slept = 0]
  <2>1. t.pc = "sleep" /\ t.left = 0 /\ tracker' = [tracker EXCEPT ![ch] = u] /\ up' = up
    BY <1>5 DEF WakeUp, Keeps
  <2>2. t.slept = Pace(t.failures)
    BY <1>1, <2>1 DEF Tracker, InStep
  <2>3. u \in Tracker /\ InStep(u)
    BY <1>1 DEF Tracker, InStep
  <2> QED
    BY <2>1, <2>2, <2>3, OneTrackerSteps
<1>6. CASE ReceiveEvent(ch)
  BY <1>1, <1>6, HealthInStep, OneTrackerSteps DEF ReceiveEvent, Listening, Keeps
<1> QED
  BY <1>2, <1>3, <1>4, <1>5, <1>6 DEF TrackerStep

(* A start and a stop make all trackers new; none of them slept before a   *)
(* start.                                                                  *)
LEMMA RestartKeepsPace ==
  ASSUME BackoffInv,
         \/ \E c \in Configs, urls \in [Chains -> Urls] : Start(c, urls)
         \/ Stop
  PROVE  BackoffInv' /\ \A d \in Chains : Paced(d)
<1>1. CASE \E c \in Configs, urls \in [Chains -> Urls] : Start(c, urls)
  <2>1. ~up /\ up' = TRUE /\ tracker' = [ch \in Chains |-> NewTracker("subscribe")]
    BY <1>1 DEF Start
  <2> QED
    BY <2>1, NewTrackerInStep DEF BackoffInv, Paced
<1>2. CASE Stop
  <2>1. up' = FALSE /\ tracker' = [ch \in Chains |-> NewTracker("off")]
    BY <1>2 DEF Stop
  <2> QED
    BY <2>1, NewTrackerInStep DEF BackoffInv, Paced
<1> QED
  BY <1>1, <1>2

(* Every step keeps the trackers in step and is paced.                     *)
LEMMA StepKeepsPace ==
  ASSUME BackoffInv, [Next]_vars
  PROVE  BackoffInv' /\ \A d \in Chains : Paced(d)
<1>1. CASE \/ \E c \in Configs, urls \in [Chains -> Urls] : Start(c, urls)
           \/ Stop
  BY <1>1, RestartKeepsPace
<1>2. CASE \E i \in Invoices : CreateInvoice(i) \/ CloseInvoice(i)
  BY <1>2, NoTrackerSteps DEF CreateInvoice, CloseInvoice
<1>3. CASE \E ch \in Chains : up /\ (TrackerStep(ch) \/ StreamEnds(ch) \/ ReceiveEvent(ch))
  BY <1>3, TrackerKeepsPace
<1>4. CASE \E url \in Urls : EndpointFails(url) \/ EndpointReturns(url)
  BY <1>4, NoTrackerSteps DEF EndpointFails, EndpointReturns
<1>5. CASE UNCHANGED vars
  BY <1>5, NoTrackerSteps DEF vars
<1> QED
  BY <1>1, <1>2, <1>3, <1>4, <1>5 DEF Next

(* Endpoints are not asked more often than the back-off allows, for any    *)
(* delays, any number of failures and any mix of failed subscriptions and  *)
(* ended streams: what record_failure_at doubles and caps step by step is  *)
(* the closed form of the n-th delay.                                      *)
THEOREM AttemptsArePacedAlways == Spec => AttemptsArePaced
<1>1. Init => BackoffInv
  BY NewTrackerInStep DEF Init, BackoffInv
<1>2. BackoffInv /\ [Next]_vars
        => BackoffInv' /\ [\A ch \in Chains :
             (tracker[ch].pc = "sleep" /\ tracker'[ch].pc = "subscribe") =>
               tracker[ch].slept = Pace(tracker[ch].failures)]_vars
  BY StepKeepsPace DEF Paced
<1> QED
  BY <1>1, <1>2, PTL DEF Spec, AttemptsArePaced
=============================================================================
