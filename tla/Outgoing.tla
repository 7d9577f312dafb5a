------------------------------ MODULE Outgoing ------------------------------
(***************************************************************************)
(* Money on its way out: the transfers executor, its futures, the swaps    *)
(* tracker, the bundler and the swap provider, working on the same orders, *)
(* with crashes and restarts of the daemon in between.                     *)
(***************************************************************************)
EXTENDS SwapsTracker

outVars == <<order, txs, swaps, ops, nonce, mishaps, pc, room, todo, draft,
             futures, provider, watched>>

OutTypeOK ==
  /\ OrdersTypeOK
  /\ BundlerTypeOK
  /\ ExecutorTypeOK
  /\ watched \in SUBSET SwapIds

OutInit ==
  /\ OrdersInit
  /\ BundlerInit
  /\ ExecutorInit
  /\ watched = {}

(* An order is created: by the recorder or the expiration detector (see    *)
(* Payments), or as a payout by initiate_payout of the API.                *)
CreateOrder(o) ==
  /\ create_order(o)
  /\ UNCHANGED <<txs, swaps, bundlerVars, taskVars, futures, provider, watched>>

(* next_retry_at of an order has come.                                     *)
RetryComesDue(o) ==
  /\ order[o].status = "FailedRetriable"
  /\ ~order[o].due
  /\ order' = [order EXCEPT ![o].due = TRUE]
  /\ UNCHANGED <<txs, swaps, bundlerVars, taskVars, futures, provider, watched>>

(* Mutant: the pending swaps are not loaded.                               *)
StopAndForget ==
  /\ Mishap("crash")
  /\ pc' = "idle"
  /\ room' = 0
  /\ todo' = {}
  /\ draft' = NoDraft
  /\ futures' = [id \in TxIds |-> "none"]
  /\ watched' = {}
  /\ UNCHANGED <<ordersVars, ops, nonce, provider>>

(* The daemon stops and starts again.  The futures are gone; the swaps     *)
(* tracker loads the pending swaps before its loop begins.                 *)
StopAndStart ==
  /\ Mishap("crash")
  /\ pc' = "idle"
  /\ room' = 0
  /\ todo' = {}
  /\ draft' = NoDraft
  /\ futures' = [id \in TxIds |-> "none"]
  /\ watched' = WithStatus("Pending")
  /\ UNCHANGED <<ordersVars, ops, nonce, provider>>

ChainStep ==
  /\ \/ \E S \in SUBSET {id \in TxIds : ops[id].state = "pending"} : ExecuteBundle(S)
     \/ \E id \in TxIds : RevertOperation(id)
  /\ UNCHANGED <<ordersVars, taskVars, futures, provider, watched>>

CustomerStep(s) ==
  \/ CreateIncomingSwap(s)
  \/ CustomerSubmits(s)
  \/ UpdateSwapSubmitted(s)

OutNext ==
  \/ TaskStep /\ UNCHANGED watched
  \/ \E id \in TxIds : FutureStep(id) /\ UNCHANGED watched
  \/ SwapsTrackerStep
  \/ \E s \in SwapIds : CustomerStep(s) \/ ProviderEnds(s) \/ GetOutdatedSwaps(s)
  \/ ChainStep
  \/ \E o \in Orders : CreateOrder(o) \/ RetryComesDue(o)
  \/ StopAndStart

OutSpec == OutInit /\ [][OutNext]_outVars

(* Every await of the two tasks and of the futures returns; the chain and  *)
(* the provider get round to what they have accepted; time passes.         *)
OutFairness ==
  /\ WF_outVars(TaskStep /\ UNCHANGED watched)
  /\ \A id \in TxIds : WF_outVars(FutureStep(id) /\ UNCHANGED watched)
  /\ WF_outVars(SwapsTrackerStep)
  /\ \A s \in SwapIds : WF_outVars(ProviderEnds(s))
  /\ WF_outVars(ChainStep)
  /\ \A o \in Orders : WF_outVars(RetryComesDue(o))

OutFairSpec == OutSpec /\ OutFairness

-----------------------------------------------------------------------------
(* The attempts at an order, by transfer or by swap.  An attempt is live   *)
(* when the database says that it is under way or has succeeded.           *)
LiveTxs(o) ==
  {id \in TxIds : txs[id].order = o /\ txs[id].status \in {"InProgress", "Completed"}}

LiveSwaps(o) ==
  {s \in SwapIds :
     swaps[s].order = o /\ swaps[s].status \in {"Submitted", "Pending", "Completed"}}

ExecutedTxs(o) == {id \in TxIds : txs[id].order = o /\ ops[id].state = "executed"}

ExecutedSwaps(o) == {s \in SwapIds : swaps[s].order = o /\ provider[s] = "executed"}

(* An order is never pursued twice at a time: through retries, restarts    *)
(* and the hand-over to a swap it has at most one live attempt, and none   *)
(* while it waits or after it has failed.  So money that leaves twice has  *)
(* left through an attempt that the daemon had written off.                *)
OneLiveAttempt ==
  \A o \in Orders :
    /\ \A x, y \in LiveTxs(o) \cup LiveSwaps(o) : x = y
    /\ order[o].status \in {Absent, "Waiting", "FailedRetriable", "Failed"} =>
         LiveTxs(o) \cup LiveSwaps(o) = {}

(* An order is Completed only when one of its attempts was executed, and   *)
(* an order that has failed for good has not moved any money.              *)
OutcomeIsTrue ==
  \A o \in Orders :
    /\ order[o].status = "Completed" =>
         (LiveTxs(o) \cap ExecutedTxs(o)) \cup (LiveSwaps(o) \cap ExecutedSwaps(o)) # {}
    /\ order[o].status = "Failed" => ExecutedTxs(o) \cup ExecutedSwaps(o) = {}

(* The executor never has more on its hands than MAX_CONCURRENT_TRANSFERS: *)
(* what it has claimed and not sent, and what is in flight.                *)
WithinLimit == Cardinality(InFlight) + Cardinality(todo) <= Limit

(* An order that is InProgress is being worked on, as long as the daemon   *)
(* has not crashed and the database has not failed.                        *)
Disturbed == mishaps["crash"] < Mishaps["crash"] \/ mishaps["database"] < Mishaps["database"]

NobodyWaitsInVain ==
  Disturbed \/ \A o \in Orders : order[o].status = "InProgress" =>
    \/ o \in todo
    \/ draft.order = o
    \/ \E id \in InFlight : txs[id].order = o
    \/ \E s \in SwapIds : /\ swaps[s].order = o
                          /\ \/ swaps[s].status = "Submitted"
                             \/ swaps[s].status = "Pending" /\ s \in watched

(* The swaps tracker watches exactly the swaps that are Pending, after a   *)
(* restart too: none of them is forgotten, and none is asked about again.  *)
PendingIsWatched == watched = WithStatus("Pending")

(* A swap that was submitted comes to an end, whatever crashes, except for *)
(* an order's trade that fails at the provider and is never reported.      *)
FailsUnreported(s) == provider[s] = "failed" /\ ~ReportsFailure(s)

EverySwapEnds ==
  \A s \in SwapIds :
    (swaps[s].status = "Submitted") ~>
      (swaps[s].status \in {"Completed", "Failed"} \/ FailsUnreported(s))

(* TxIds bounds the number of attempts.  An operation that was taken and   *)
(* not reported blocks its nonce until the chain gets round to it, and the *)
(* attempts made meanwhile are rejected; the bound may cut them short.     *)
OutOfIds == pc = "store" /\ \A id \in TxIds : txs[id].status # Absent

=============================================================================
