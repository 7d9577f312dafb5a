--------------------------- MODULE OutgoingProofs ---------------------------
(***************************************************************************)
(* The safety of Outgoing, for any number of orders, accounts,             *)
(* transactions and swaps, any limit on concurrent transfers, bundles of   *)
(* any size (of one operation, for NobodyWaitsInVain) and any number of    *)
(* mishaps of each kind.                                                   *)
(***************************************************************************)
EXTENDS Outgoing, FiniteSetTheorems, TLAPS

Shape ==
  /\ OrdersTypeOK
  /\ BundlerTypeOK
  /\ todo \subseteq Orders
  /\ draft \in [order : Orders \cup {NoOrder}, nonce : Nat,
                swap : SwapIds \cup {NoOrder}]
  /\ futures \in [TxIds -> FuturePhase \cup {"none"}]
  /\ provider \in [SwapIds -> ProviderState]
  /\ watched \subseteq SwapIds

LiveTx == {"InProgress", "Completed"}
LiveSwap == {"Submitted", "Pending", "Completed"}

(* An attempt is made at an order that has a destination, along its route. *)
Fits(o, route) == o \in Orders /\ Route[o] = route /\ order[o].dest

AttemptsFit ==
  /\ \A id \in TxIds : /\ txs[id].order # NoOrder => Fits(txs[id].order, "transfer")
                       /\ txs[id].status # Absent => txs[id].order # NoOrder
  /\ \A s \in SwapIds : swaps[s].order # NoOrder =>
       Fits(swaps[s].order, "swap") /\ s \notin Incoming

(* What a future knows of its transaction: it has one that is InProgress,  *)
(* it has not submitted it before it did, and a success is an execution.   *)
FuturesAreTrue ==
  \A id \in TxIds :
    /\ futures[id] # "none" => txs[id].status = "InProgress"
    /\ futures[id] \in {"new", "submit"} \/ txs[id].status = Absent =>
         ops[id].state = "none"
    /\ futures[id] = "ok" \/ txs[id].status = "Completed" => ops[id].state = "executed"

(* An order and its live attempts have the same status.                    *)
StatusesAgree ==
  /\ \A id \in TxIds : txs[id].status \in LiveTx =>
       order[txs[id].order].status = txs[id].status
  /\ \A s \in SwapIds : swaps[s].order # NoOrder =>
       /\ swaps[s].status \in {"Submitted", "Pending"} =>
            order[swaps[s].order].status = "InProgress"
       /\ swaps[s].status = "Completed" => order[swaps[s].order].status = "Completed"
  /\ \A s \in SwapIds : swaps[s].status = "Completed" => provider[s] = "executed"

OneAttempt ==
  /\ \A x, y \in TxIds :
       txs[x].status \in LiveTx /\ txs[y].status \in LiveTx /\ txs[x].order = txs[y].order
         => x = y
  /\ \A s, t \in SwapIds :
       swaps[s].status \in LiveSwap /\ swaps[t].status \in LiveSwap
         /\ swaps[s].order = swaps[t].order /\ swaps[s].order # NoOrder
         => s = t

(* An order has no live attempt.                                           *)
Unattempted(o) ==
  /\ \A id \in TxIds : txs[id].order = o => txs[id].status \notin LiveTx
  /\ \A s \in SwapIds : swaps[s].order = o => swaps[s].status \notin LiveSwap

(* What the task has in its hands is InProgress and has no live attempt.   *)
Held(o) == order[o].status = "InProgress" /\ Unattempted(o)

HandsAreClean ==
  /\ \A o \in todo : Held(o)
  /\ draft.order # NoOrder => Held(draft.order)
  /\ draft.order \notin todo
  /\ pc = "store" => Fits(draft.order, "transfer")
  /\ pc \in {"swap", "submitted"} =>
       /\ Fits(draft.order, "swap")
       /\ draft.swap \in SwapIds \ Incoming
       /\ swaps[draft.swap].order = draft.order
       /\ swaps[draft.swap].status \in {"Created", "Abandoned"}

(* How an order comes to an end.                                           *)
EndsAreDue ==
  \A o \in Orders :
    /\ order[o].status = "Failed" => ~order[o].dest \/ Route[o] = "unsupported"
    /\ order[o].status = "Completed" =>
         \/ \E id \in TxIds : txs[id].order = o /\ txs[id].status = "Completed"
         \/ \E s \in SwapIds : swaps[s].order = o /\ swaps[s].status = "Completed"

(* The strengthening that makes the properties inductive.                  *)
OutInv ==
  /\ Shape
  /\ AttemptsFit
  /\ FuturesAreTrue
  /\ StatusesAgree
  /\ OneAttempt
  /\ HandsAreClean
  /\ EndsAreDue
  /\ PendingIsWatched
-----------------------------------------------------------------------------
(* It holds initially.                                                     *)
LEMMA InitInv == OutInit => OutInv
<1> SUFFICES ASSUME OutInit PROVE OutInv
  OBVIOUS
<1> USE DEF OutInit, OrdersInit, BundlerInit, ExecutorInit
<1>1. OrdersTypeOK
  BY OrdersAssumption DEF OrdersTypeOK, OpHash
<1>2. BundlerTypeOK
  BY BundlerAssumption DEF BundlerTypeOK, OpState
<1>3. draft.order = NoOrder /\ draft.swap = NoOrder /\ draft.nonce = 0
  BY DEF NoDraft
<1>4. Shape
  BY <1>1, <1>2 DEF Shape, NoDraft, ProviderState
<1>5. AttemptsFit /\ FuturesAreTrue /\ StatusesAgree /\ OneAttempt
  BY DEF AttemptsFit, FuturesAreTrue, StatusesAgree, OneAttempt, Absent, LiveTx, LiveSwap
<1>6. HandsAreClean /\ EndsAreDue /\ PendingIsWatched
  BY <1>3 DEF HandsAreClean, EndsAreDue, PendingIsWatched, WithStatus, Absent
<1> QED
  BY <1>4, <1>5, <1>6 DEF OutInv

(* NoDraft holds nothing.                                                  *)
LEMMA NoDraftType ==
  /\ NoDraft \in [order : Orders \cup {NoOrder}, nonce : Nat, swap : SwapIds \cup {NoOrder}]
  /\ NoDraft.order = NoOrder
BY DEF NoDraft

(* A mishap is taken from the bound on its kind.                           *)
LEMMA MishapType ==
  ASSUME BundlerTypeOK, NEW k \in MishapKinds, Mishap(k)
  PROVE  mishaps' \in [MishapKinds -> Nat]
BY DEF BundlerTypeOK, Mishap

(* An order that waits, or is to be tried again, has no live attempt.      *)
LEMMA RestingIsUnattempted ==
  ASSUME OutInv, NEW o \in Orders, order[o].status \notin {"InProgress", "Completed"}
  PROVE  Unattempted(o)
BY OrdersAssumption DEF OutInv, StatusesAgree, Unattempted, LiveTx, LiveSwap

(* Nor has an order for which a transaction or a swap has just ended.      *)
LEMMA RoutesExclude ==
  ASSUME OutInv, NEW id \in TxIds, NEW s \in SwapIds, txs[id].order = swaps[s].order
  PROVE  txs[id].order = NoOrder
BY DEF OutInv, AttemptsFit, Fits

-----------------------------------------------------------------------------
(* Steps of the futures, the bundler and the chain: the rows, and what the *)
(* task has in its hands, are left alone.                                  *)
LEMMA ChainInv ==
  ASSUME OutInv, Shape', FuturesAreTrue',
         UNCHANGED <<order, txs, swaps, todo, draft, provider, watched>>,
         pc' = pc \/ pc' \in {"idle", "refunds", "send"}
  PROVE  OutInv'
<1>1. AttemptsFit' /\ StatusesAgree' /\ OneAttempt'
  BY DEF OutInv, AttemptsFit, Fits, StatusesAgree, OneAttempt
<1>2. HandsAreClean'
  BY DEF OutInv, HandsAreClean, Held, Unattempted, Fits
<1>3. EndsAreDue' /\ PendingIsWatched'
  BY DEF OutInv, EndsAreDue, PendingIsWatched, WithStatus
<1> QED
  BY <1>1, <1>2, <1>3 DEF OutInv

(* Steps that change the status of orders without a live attempt.          *)
LEMMA OrdersInv ==
  ASSUME OutInv, Shape', HandsAreClean',
         UNCHANGED <<txs, swaps, ops, futures, provider, watched>>,
         \A o \in Orders :
           /\ order[o].dest => order'[o].dest
           /\ \/ order'[o].status = order[o].status
              \/ Unattempted(o) /\ "Completed" \notin {order[o].status, order'[o].status}
           /\ order'[o].status = "Failed" => ~order'[o].dest \/ Route[o] = "unsupported"
  PROVE  OutInv'
<1>1. AttemptsFit'
  BY DEF OutInv, AttemptsFit, Fits
<1>2. FuturesAreTrue' /\ OneAttempt' /\ PendingIsWatched'
  BY DEF OutInv, FuturesAreTrue, OneAttempt, PendingIsWatched, WithStatus
<1>3. StatusesAgree'
  <2>1. ASSUME NEW id \in TxIds, txs[id].status \in LiveTx
        PROVE  order'[txs[id].order].status = txs[id].status
    <3>1. txs[id].order \in Orders
      BY <2>1 DEF OutInv, AttemptsFit, Fits, LiveTx, Absent
    <3>2. ~Unattempted(txs[id].order)
      BY <2>1 DEF Unattempted
    <3> QED
      BY <2>1, <3>1, <3>2 DEF OutInv, StatusesAgree
  <2>2. ASSUME NEW s \in SwapIds, swaps[s].order # NoOrder, swaps[s].status \in LiveSwap
        PROVE  order'[swaps[s].order].status = order[swaps[s].order].status
    <3>1. swaps[s].order \in Orders
      BY <2>2 DEF OutInv, AttemptsFit, Fits
    <3>2. ~Unattempted(swaps[s].order)
      BY <2>2 DEF Unattempted
    <3> QED
      BY <3>1, <3>2
  <2> QED
    BY <2>1, <2>2 DEF OutInv, StatusesAgree, LiveSwap
<1>4. EndsAreDue'
  BY DEF OutInv, EndsAreDue
<1> QED
  BY <1>1, <1>2, <1>3, <1>4 DEF OutInv

(* The task claims orders that have no live attempt.                       *)
LEMMA ClaimInv ==
  ASSUME OutInv, NEW S \in SUBSET Orders,
         \A o \in S : order[o].status \in {"Waiting", "FailedRetriable"},
         MarkInProgress(S),
         todo' \in {S, todo \cup S},
         pc' \in {"refunds", "send"},
         UNCHANGED <<txs, swaps, bundlerVars, draft, futures, provider, watched>>
  PROVE  OutInv'
<1>1. order' \in [Orders -> [status : TransferStatus \cup {Absent}, due : BOOLEAN, dest : BOOLEAN]]
  BY DEF MarkInProgress, OutInv, Shape, OrdersTypeOK, TransferStatus
<1>2. \A o \in Orders : /\ order'[o].dest = order[o].dest
                        /\ order'[o].status = IF o \in S THEN "InProgress" ELSE order[o].status
  BY DEF MarkInProgress, OutInv, Shape, OrdersTypeOK
<1>3. Shape'
  BY <1>1 DEF OutInv, Shape, OrdersTypeOK, BundlerTypeOK, bundlerVars
<1>4. \A o \in S : Unattempted(o)
  BY RestingIsUnattempted
<1>5. \A o \in Orders : Unattempted(o) => Unattempted(o)'
  BY DEF Unattempted
<1>6. HandsAreClean'
  <2>1. draft.order \notin S /\ (draft.order # NoOrder => draft.order \in Orders)
    BY OrdersAssumption DEF OutInv, Shape, HandsAreClean, Held
  <2>2. (\A o \in todo' : Held(o)') /\ (draft.order # NoOrder => Held(draft.order)')
    BY <1>2, <1>4, <1>5, <2>1 DEF OutInv, Shape, HandsAreClean, Held
  <2> QED
    BY <1>2, <2>1, <2>2 DEF OutInv, HandsAreClean
<1> QED
  BY <1>2, <1>3, <1>4, <1>6, OrdersInv DEF bundlerVars, OutInv, EndsAreDue

(* The task lets go of an order without an attempt: it has failed for      *)
(* good, is to be tried again, or the database does not even take that.    *)
LEMMA ReleaseInv ==
  ASSUME OutInv, NEW o \in Orders, Held(o),
         \/ Postpone(o) \/ TryAgain(o)
         \/ GiveUp(o) /\ (~order[o].dest \/ Route[o] = "unsupported"),
         todo' = todo \ {o},
         \/ draft' = draft /\ draft.order # o
         \/ draft' = NoDraft,
         pc' = "send",
         UNCHANGED <<txs, swaps, ops, nonce, futures, provider, watched>>
  PROVE  OutInv'
<1>1. \/ order' = order
      \/ \E s \in {"FailedRetriable", "Failed"} :
           /\ order' = [order EXCEPT ![o].status = s, ![o].due = FALSE]
           /\ s = "Failed" => ~order[o].dest \/ Route[o] = "unsupported"
  BY DEF Postpone, TryAgain, GiveUp, update_retry, RetryStatus
<1>2. order' \in [Orders -> [status : TransferStatus \cup {Absent}, due : BOOLEAN, dest : BOOLEAN]]
  BY <1>1 DEF OutInv, Shape, OrdersTypeOK, TransferStatus
<1>3. \A p \in Orders : /\ order'[p].dest = order[p].dest
                        /\ p # o => order'[p].status = order[p].status
  BY <1>1 DEF OutInv, Shape, OrdersTypeOK
<1>4. /\ order'[o].status \in {order[o].status, "FailedRetriable", "Failed"}
      /\ order'[o].status = "Failed" /\ order[o].status # "Failed" =>
           ~order[o].dest \/ Route[o] = "unsupported"
  BY <1>1 DEF OutInv, Shape, OrdersTypeOK
<1>5. mishaps' \in [MishapKinds -> Nat]
  <2>1. "outage" \in MishapKinds /\ "database" \in MishapKinds
    BY DEF MishapKinds
  <2> QED
    BY <2>1, MishapType DEF Postpone, TryAgain, GiveUp, OutInv, Shape, BundlerTypeOK
<1>6. Shape'
  BY <1>2, <1>5, NoDraftType DEF OutInv, Shape, OrdersTypeOK, BundlerTypeOK
<1>7. HandsAreClean'
  <2>1. \A p \in Orders : p # o /\ Held(p) => Held(p)'
    BY <1>3 DEF Held, Unattempted
  <2>2. \A p \in todo' : Held(p)'
    BY <2>1 DEF OutInv, Shape, HandsAreClean
  <2>3. CASE draft' = draft /\ draft.order # o
    <3>1. draft.order # NoOrder => Held(draft.order)'
      BY <2>1, <2>3 DEF OutInv, Shape, HandsAreClean
    <3> QED
      BY <2>2, <2>3, <3>1 DEF OutInv, HandsAreClean
  <2>4. CASE draft' = NoDraft
    <3>1. draft'.order = NoOrder
      BY <2>4, NoDraftType
    <3>2. NoOrder \notin todo'
      BY OrdersAssumption DEF OutInv, Shape
    <3> QED
      BY <2>2, <3>1, <3>2 DEF HandsAreClean
  <2> QED
    BY <2>3, <2>4
<1> QED
  BY <1>3, <1>4, <1>6, <1>7, OrdersInv DEF Held, OutInv, EndsAreDue

-----------------------------------------------------------------------------
(* The task claims its orders.                                             *)
LEMMA ScheduleInv ==
  ASSUME OutInv, UNCHANGED watched,
         SchedulePayouts \/ ScheduleRefunds \/ ScheduleRefundsFails \/ ScheduleDone
  PROVE  OutInv'
<1>1. \A n : \A kind : Oldest(Pending(kind), n) \subseteq {o \in Orders : order[o].status \in {"Waiting", "FailedRetriable"}}
  BY DEF Oldest, Pending
<1>2. CASE SchedulePayouts
  BY <1>1, <1>2, ClaimInv DEF SchedulePayouts
<1>3. CASE ScheduleRefunds
  BY <1>1, <1>3, ClaimInv DEF ScheduleRefunds
<1>4. CASE ScheduleRefundsFails
  <2>1. mishaps' \in [MishapKinds -> Nat]
    BY <1>4, MishapType DEF ScheduleRefundsFails, MishapKinds, OutInv, Shape
  <2>2. Shape' /\ FuturesAreTrue'
    BY <1>4, <2>1 DEF ScheduleRefundsFails, OutInv, Shape, OrdersTypeOK, BundlerTypeOK,
         FuturesAreTrue, ordersVars
  <2> QED
    BY <1>4, <2>2, ChainInv DEF ScheduleRefundsFails, ordersVars
<1>5. CASE ScheduleDone
  <2>1. Shape' /\ FuturesAreTrue'
    BY <1>5 DEF ScheduleDone, OutInv, Shape, OrdersTypeOK, BundlerTypeOK,
         FuturesAreTrue, ordersVars, bundlerVars
  <2> QED
    BY <1>5, <2>1, ChainInv DEF ScheduleDone, ordersVars
<1> QED
  BY <1>2, <1>3, <1>4, <1>5

(* A refund gets its destination, or not; an order is given up or put off. *)
LEMMA DestinationInv ==
  ASSUME OutInv, UNCHANGED watched, NEW o \in Orders,
         \/ FindDestination(o)
         \/ FindDestinationFails(o)
         \/ SendUnsupported(o)
         \/ PrepareFails(o) \/ FeeTakesAll(o)
  PROVE  OutInv'
<1>1. pc = "send" /\ o \in todo
  BY DEF FindDestination, FindDestinationFails, SendUnsupported, PrepareFails, FeeTakesAll, Sends
<1>2. Held(o) /\ draft.order # o
  BY <1>1 DEF OutInv, HandsAreClean
<1>3. UNCHANGED <<txs, swaps, ops, nonce, pc, draft, futures, provider>>
  BY DEF FindDestination, FindDestinationFails, SendUnsupported, PrepareFails, FeeTakesAll
<1>4. CASE order' = [order EXCEPT ![o].dest = TRUE] /\ UNCHANGED <<mishaps, todo>>
  <2>1. /\ order' \in [Orders -> [status : TransferStatus \cup {Absent}, due : BOOLEAN, dest : BOOLEAN]]
        /\ \A p \in Orders : /\ order'[p].status = order[p].status
                             /\ order[p].dest => order'[p].dest
                             /\ p # o => order'[p].dest = order[p].dest
    <3>1. \A p \in Orders :
            /\ order[p] \in [status : TransferStatus \cup {Absent}, due : BOOLEAN, dest : BOOLEAN]
            /\ order'[p] = IF p = o THEN [order[p] EXCEPT !.dest = TRUE] ELSE order[p]
      BY <1>4 DEF OutInv, Shape, OrdersTypeOK
    <3>2. \A p \in Orders :
            /\ order'[p] \in [status : TransferStatus \cup {Absent}, due : BOOLEAN, dest : BOOLEAN]
            /\ order'[p].status = order[p].status
            /\ order[p].dest => order'[p].dest
            /\ p # o => order'[p].dest = order[p].dest
      BY <3>1
    <3>3. order' \in [Orders -> [status : TransferStatus \cup {Absent}, due : BOOLEAN, dest : BOOLEAN]]
      BY <1>4, <3>2 DEF OutInv, Shape, OrdersTypeOK
    <3> QED
      BY <3>2, <3>3
  <2>2. Shape'
    BY <1>3, <1>4, <2>1 DEF OutInv, Shape, OrdersTypeOK, BundlerTypeOK
  <2>3. HandsAreClean'
    <3>1. \A p \in Orders : Held(p) => Held(p)'
      BY <1>3, <2>1 DEF Held, Unattempted
    <3> QED
      BY <1>1, <1>3, <1>4, <3>1 DEF OutInv, Shape, HandsAreClean
  <2> QED
    BY <1>2, <1>3, <2>1, <2>2, <2>3, OrdersInv DEF Held, OutInv, EndsAreDue
<1>5. CASE /\ \/ Postpone(o) \/ TryAgain(o)
              \/ GiveUp(o) /\ (~order[o].dest \/ Route[o] = "unsupported")
           /\ todo' = todo \ {o}
  BY <1>1, <1>2, <1>3, <1>5, ReleaseInv
<1> QED
  BY <1>4, <1>5 DEF FindDestination, FindDestinationFails, SendUnsupported,
       PrepareFails, FeeTakesAll, Sends

(* What is being sent cannot be stored or submitted.                       *)
LEMMA DraftFailsInv ==
  ASSUME OutInv, UNCHANGED watched, StoreBuiltTransferFails \/ SwapFails
  PROVE  OutInv'
<1>1. draft.order \in Orders
  BY DEF StoreBuiltTransferFails, SwapFails, OutInv, HandsAreClean, Fits
<1>2. Held(draft.order) /\ todo = todo \ {draft.order}
  BY <1>1, OrdersAssumption DEF OutInv, HandsAreClean
<1> QED
  BY <1>1, <1>2, ReleaseInv DEF StoreBuiltTransferFails, SwapFails

-----------------------------------------------------------------------------
OpRow == [nonce : Nat, state : OpState, bundle : TxIds]

(* The bundler takes an operation: only pending ones give way to it.       *)
LEMMA TakeOperationType ==
  ASSUME OutInv, NEW id \in TxIds, TakeOperation(id)
  PROVE  /\ ops' \in [TxIds -> OpRow]
         /\ \A x \in TxIds \ {id} : \/ ops'[x].state = ops[x].state
                                    \/ ops[x].state = "pending"
<1>1. \A x \in TxIds : ops[x] \in OpRow
  BY DEF OutInv, Shape, BundlerTypeOK, OpRow
<1>2. ops' = [r \in TxIds |->
                IF r = id THEN [ops[r] EXCEPT !.state = "pending"]
                ELSE IF r \in Rivals(id) THEN [ops[r] EXCEPT !.state = "dropped"]
                ELSE ops[r]]
  BY DEF TakeOperation
<1>3. \A x \in TxIds : ops'[x] \in OpRow
  BY <1>1, <1>2 DEF OpRow, OpState
<1>4. \A x \in TxIds \ {id} : ops'[x] = ops[x] \/ ops[x].state = "pending"
  BY <1>2 DEF Rivals
<1> QED
  BY <1>2, <1>3, <1>4

(* A bundle ends pending operations, and no others.                        *)
LEMMA BundleType ==
  ASSUME OutInv, NEW S \in SUBSET TxIds, NEW state \in {"executed", "reverted"},
         Bundle(S, state)
  PROVE  /\ ops' \in [TxIds -> OpRow]
         /\ nonce' \in [Accounts -> Nat]
         /\ \A x \in TxIds : \/ ops'[x].state = ops[x].state
                             \/ ops[x].state = "pending"
<1>1. \A x \in TxIds : ops[x] \in OpRow
  BY DEF OutInv, Shape, BundlerTypeOK, OpRow
<1>2. /\ S # {}
      /\ \A id \in S : ops[id].state = "pending"
      /\ ops' = [r \in TxIds |->
                   IF r \in S
                     THEN [ops[r] EXCEPT !.state = state,
                                         !.bundle = CHOOSE id \in S : TRUE]
                   ELSE IF \E id \in S : r \in Rivals(id)
                     THEN [ops[r] EXCEPT !.state = "dropped"]
                   ELSE ops[r]]
      /\ nonce' = [a \in Accounts |->
                     IF \E id \in S : AccountOf(id) = a THEN nonce[a] + 1
                                                        ELSE nonce[a]]
  BY DEF Bundle
<1> DEFINE first == CHOOSE id \in S : TRUE
<1>3. first \in TxIds
  BY <1>2
<1> HIDE DEF first
<1>4. \A x \in TxIds : \/ ops'[x] = [ops[x] EXCEPT !.state = state, !.bundle = first]
                       \/ ops'[x] = [ops[x] EXCEPT !.state = "dropped"]
                       \/ ops'[x] = ops[x]
  BY <1>2 DEF first
<1>5. \A x \in TxIds : ops'[x] \in OpRow
  BY <1>1, <1>3, <1>4 DEF OpRow, OpState
<1>6. \A x \in TxIds : ops'[x] = ops[x] \/ ops[x].state = "pending"
  BY <1>2 DEF Rivals
<1>7. nonce' \in [Accounts -> Nat]
  <2>1. \A a \in Accounts : nonce'[a] \in {nonce[a], nonce[a] + 1}
    BY <1>2
  <2>2. \A a \in Accounts : nonce[a] \in Nat
    BY DEF OutInv, Shape, BundlerTypeOK
  <2>3. \A a \in Accounts : nonce'[a] \in Nat
    BY <2>1, <2>2
  <2> QED
    BY <1>2, <2>3, Zenon
<1> QED
  BY <1>2, <1>5, <1>6, <1>7

(* A step of a future, or of the chain, that leaves alone what other       *)
(* futures rely on.                                                        *)
LEMMA OperationsInv ==
  ASSUME OutInv, UNCHANGED <<ordersVars, taskVars, provider, watched>>,
         ops' \in [TxIds -> OpRow],
         nonce' \in [Accounts -> Nat],
         mishaps' \in [MishapKinds -> Nat],
         futures' \in [TxIds -> FuturePhase \cup {"none"}],
         \A x \in TxIds :
           \/ /\ futures'[x] \in {futures[x], "none"}
              /\ ops'[x].state = ops[x].state \/ ops[x].state = "pending"
           \/ /\ futures[x] \in {"new", "submit", "watch"}
              /\ futures'[x] \in {"new", "submit"} => ops'[x].state = "none"
              /\ futures'[x] = "ok" => ops'[x].state = "executed"
  PROVE  OutInv'
<1>1. UNCHANGED <<order, txs, swaps, pc, todo, draft>>
  BY DEF ordersVars, taskVars
<1>2. Shape'
  BY <1>1 DEF OutInv, Shape, OrdersTypeOK, BundlerTypeOK, OpRow
<1>3. FuturesAreTrue'
  <2> SUFFICES ASSUME NEW x \in TxIds
               PROVE  /\ futures'[x] # "none" => txs[x].status = "InProgress"
                      /\ futures'[x] \in {"new", "submit"} \/ txs[x].status = Absent =>
                           ops'[x].state = "none"
                      /\ futures'[x] = "ok" \/ txs[x].status = "Completed" =>
                           ops'[x].state = "executed"
    BY <1>1 DEF FuturesAreTrue
  <2> QED
    BY DEF OutInv, FuturesAreTrue, Absent
<1> QED
  BY <1>1, <1>2, <1>3, ChainInv

(* Every step of a future.                                                 *)
LEMMA FutureInv ==
  ASSUME OutInv, UNCHANGED watched, NEW id \in TxIds, FutureStep(id)
  PROVE  OutInv'
<1> USE DEF FuturePhase
<1>1. /\ ops \in [TxIds -> OpRow]
      /\ nonce \in [Accounts -> Nat]
      /\ mishaps \in [MishapKinds -> Nat]
      /\ futures \in [TxIds -> FuturePhase \cup {"none"}]
  BY DEF OutInv, Shape, BundlerTypeOK, OpRow
<1>2. {"outage", "timeout", "database"} \subseteq MishapKinds
  BY DEF MishapKinds
<1>3. ops[id].state = "none" \/ futures[id] \notin {"new", "submit"}
  BY DEF OutInv, FuturesAreTrue
<1>4. CASE Begin(id)
  <2>1. /\ UNCHANGED <<ordersVars, ops, nonce, mishaps, taskVars, provider>>
        /\ futures[id] = "new"
        /\ futures' = [futures EXCEPT ![id] = "submit"]
    BY <1>4 DEF Begin, bundlerVars
  <2> QED
    BY <1>1, <1>3, <2>1, OperationsInv
<1>5. CASE Submit(id) \/ SubmitAnswerLost(id)
  <2>1. /\ UNCHANGED <<ordersVars, nonce, taskVars, provider>>
        /\ futures[id] = "submit"
        /\ futures' = [futures EXCEPT ![id] = "watch"] \/ futures' = [futures EXCEPT ![id] = "failed"]
        /\ TakeOperation(id)
        /\ UNCHANGED mishaps \/ Mishap("timeout")
    BY <1>5 DEF Submit, SubmitAnswerLost
  <2>2. mishaps' \in [MishapKinds -> Nat]
    BY <1>1, <1>2, <2>1, MishapType DEF OutInv, Shape
  <2>3. /\ ops' \in [TxIds -> OpRow]
        /\ \A x \in TxIds \ {id} : ops'[x].state = ops[x].state \/ ops[x].state = "pending"
    BY <2>1, TakeOperationType
  <2> QED
    BY <1>1, <2>1, <2>2, <2>3, OperationsInv
<1>6. CASE SubmitRejected(id)
  <2>1. /\ UNCHANGED <<ordersVars, nonce, taskVars, provider>>
        /\ futures[id] = "submit"
        /\ futures' = [futures EXCEPT ![id] = "failed"]
        /\ ops' = [ops EXCEPT ![id].state = "rejected"]
        /\ UNCHANGED mishaps \/ Mishap("outage")
    BY <1>6 DEF SubmitRejected
  <2>2. mishaps' \in [MishapKinds -> Nat]
    BY <1>1, <1>2, <2>1, MishapType DEF OutInv, Shape
  <2>3. /\ ops' \in [TxIds -> OpRow]
        /\ \A x \in TxIds \ {id} : ops'[x].state = ops[x].state
    BY <1>1, <2>1 DEF OpRow, OpState
  <2> QED
    BY <1>1, <2>1, <2>2, <2>3, OperationsInv
<1>7. CASE Receipt(id)
  <2>1. /\ UNCHANGED <<ordersVars, ops, nonce, mishaps, taskVars, provider>>
        /\ futures[id] = "watch"
        /\ \/ ops[id].state = "executed" /\ futures' = [futures EXCEPT ![id] = "ok"]
           \/ futures' = [futures EXCEPT ![id] = "failed"]
    BY <1>7 DEF Receipt, bundlerVars
  <2> QED
    BY <1>1, <2>1, OperationsInv
<1>8. CASE WatchTimesOut(id)
  <2>1. /\ UNCHANGED <<ordersVars, ops, nonce, taskVars, provider>>
        /\ futures[id] = "watch"
        /\ futures' = [futures EXCEPT ![id] = "unknown"]
        /\ UNCHANGED mishaps \/ Mishap("timeout")
    BY <1>8 DEF WatchTimesOut
  <2>2. mishaps' \in [MishapKinds -> Nat]
    BY <1>1, <1>2, <2>1, MishapType DEF OutInv, Shape
  <2> QED
    BY <1>1, <2>1, <2>2, OperationsInv
<1> QED
  BY <1>4, <1>5, <1>6, <1>7, <1>8 DEF FutureStep

(* The chain executes or reverts operations.                               *)
LEMMA ChainStepInv ==
  ASSUME OutInv, ChainStep
  PROVE  OutInv'
<1>1. /\ mishaps \in [MishapKinds -> Nat]
      /\ futures \in [TxIds -> FuturePhase \cup {"none"}]
  BY DEF OutInv, Shape, BundlerTypeOK
<1>2. PICK S \in SUBSET TxIds, state \in {"executed", "reverted"} :
        /\ Bundle(S, state)
        /\ UNCHANGED mishaps \/ Mishap("outage")
        /\ UNCHANGED <<ordersVars, taskVars, futures, provider, watched>>
  BY DEF ChainStep, ExecuteBundle, RevertOperation
<1>3. mishaps' \in [MishapKinds -> Nat]
  BY <1>1, <1>2, MishapType DEF MishapKinds, OutInv, Shape
<1> QED
  BY <1>1, <1>2, <1>3, BundleType, OperationsInv

(* The result of a future is dropped.                                      *)
LEMMA ResultFailsInv ==
  ASSUME OutInv, UNCHANGED watched, NEW id \in TxIds, HandleResultFails(id)
  PROVE  OutInv'
<1>1. /\ ops \in [TxIds -> OpRow]
      /\ nonce \in [Accounts -> Nat]
      /\ mishaps \in [MishapKinds -> Nat]
      /\ futures \in [TxIds -> FuturePhase \cup {"none"}]
  BY DEF OutInv, Shape, BundlerTypeOK, OpRow
<1>2. mishaps' \in [MishapKinds -> Nat]
  BY <1>1, MishapType DEF HandleResultFails, MishapKinds, OutInv, Shape
<1>3. /\ UNCHANGED <<ordersVars, ops, nonce, taskVars, provider>>
      /\ futures' = [futures EXCEPT ![id] = "none"]
  BY DEF HandleResultFails
<1> QED
  BY <1>1, <1>2, <1>3, OperationsInv

-----------------------------------------------------------------------------
OrderRow == [status : TransferStatus \cup {Absent}, due : BOOLEAN, dest : BOOLEAN]
TxRow == [order : Orders \cup {NoOrder}, status : TransactionStatus \cup {Absent},
          hash : TxIds \X {"op", "bundle"}]
SwapRow == [order : Orders \cup {NoOrder}, status : SwapStatus \cup {Absent}]

(* build_and_sign_transfer has an order of its own in its hands.           *)
LEMMA BuildInv ==
  ASSUME OutInv, UNCHANGED watched, NEW o \in Orders, BuildTransfer(o)
  PROVE  OutInv'
<1>1. /\ o \in todo
      /\ Fits(o, "transfer")
      /\ todo' = todo \ {o}
      /\ draft' = [order |-> o, nonce |-> getNonce(o), swap |-> NoOrder]
      /\ pc' = "store"
      /\ UNCHANGED <<order, txs, swaps, ops, nonce, mishaps, futures, provider>>
  BY DEF BuildTransfer, Sends, Fits, ordersVars, bundlerVars
<1>2. getNonce(o) \in Nat
  BY OrdersAssumption DEF getNonce, OutInv, Shape, BundlerTypeOK
<1>3. draft'.order = o /\ draft' \in [order : Orders \cup {NoOrder}, nonce : Nat,
                                      swap : SwapIds \cup {NoOrder}]
  BY <1>1, <1>2
<1>4. Shape'
  BY <1>1, <1>3 DEF OutInv, Shape, OrdersTypeOK, BundlerTypeOK
<1>5. AttemptsFit' /\ FuturesAreTrue' /\ StatusesAgree' /\ OneAttempt'
  BY <1>1 DEF OutInv, AttemptsFit, Fits, FuturesAreTrue, StatusesAgree, OneAttempt
<1>6. HandsAreClean'
  BY <1>1, <1>3 DEF OutInv, HandsAreClean, Held, Unattempted, Fits
<1>7. EndsAreDue' /\ PendingIsWatched'
  BY <1>1 DEF OutInv, EndsAreDue, PendingIsWatched, WithStatus
<1> QED
  BY <1>4, <1>5, <1>6, <1>7 DEF OutInv

(* store_built_transfer makes the first live attempt at the order.         *)
LEMMA StoreInv ==
  ASSUME OutInv, UNCHANGED watched, StoreBuiltTransfer
  PROVE  OutInv'
<1> DEFINE o == draft.order
<1>1. PICK id \in TxIds :
        /\ txs[id].status = Absent
        /\ txs' = [txs EXCEPT ![id] = [order |-> o, status |-> "InProgress",
                                       hash |-> OpHash(id)]]
        /\ ops' = [ops EXCEPT ![id].nonce = draft.nonce]
        /\ futures' = [futures EXCEPT ![id] = "new"]
  BY DEF StoreBuiltTransfer, create_transaction
<1>2. /\ pc' = "send"
      /\ draft' = NoDraft
      /\ UNCHANGED <<order, swaps, nonce, mishaps, todo, provider>>
  BY DEF StoreBuiltTransfer
<1>3. Fits(o, "transfer") /\ o \in Orders /\ o # NoOrder /\ Held(o) /\ o \notin todo
  BY OrdersAssumption DEF StoreBuiltTransfer, OutInv, HandsAreClean, Fits
<1>4. draft.nonce \in Nat
  BY DEF OutInv, Shape
<1> HIDE DEF o
<1>5. /\ txs' \in [TxIds -> TxRow]
      /\ \A x \in TxIds : /\ txs'[x].order = IF x = id THEN o ELSE txs[x].order
                          /\ txs'[x].status = IF x = id THEN "InProgress" ELSE txs[x].status
  BY <1>1, <1>3 DEF OutInv, Shape, OrdersTypeOK, TxRow, TransactionStatus, OpHash
<1>6. /\ ops' \in [TxIds -> OpRow]
      /\ \A x \in TxIds : ops'[x].state = ops[x].state
  BY <1>1, <1>4 DEF OutInv, Shape, BundlerTypeOK, OpRow
<1>7. /\ futures' \in [TxIds -> FuturePhase \cup {"none"}]
      /\ \A x \in TxIds : futures'[x] = IF x = id THEN "new" ELSE futures[x]
  BY <1>1 DEF OutInv, Shape, FuturePhase
<1>8. Shape'
  BY <1>2, <1>5, <1>6, <1>7, NoDraftType
     DEF OutInv, Shape, OrdersTypeOK, BundlerTypeOK, TxRow, OpRow
<1>9. AttemptsFit'
  BY <1>2, <1>3, <1>5 DEF OutInv, AttemptsFit, Fits
<1>10. FuturesAreTrue'
  BY <1>1, <1>5, <1>6, <1>7 DEF OutInv, FuturesAreTrue, Absent
<1>11. StatusesAgree'
  BY <1>2, <1>3, <1>5 DEF OutInv, StatusesAgree, Held
<1>12. OneAttempt'
  BY <1>2, <1>3, <1>5 DEF OutInv, OneAttempt, Held, Unattempted
<1>13. HandsAreClean'
  <2>1. draft'.order = NoOrder /\ NoOrder \notin todo'
    BY <1>2, NoDraftType, OrdersAssumption DEF OutInv, Shape
  <2>2. \A p \in todo' : Held(p)'
    BY <1>2, <1>3, <1>5 DEF OutInv, HandsAreClean, Held, Unattempted
  <2> QED
    BY <1>2, <2>1, <2>2 DEF HandsAreClean
<1>14. EndsAreDue' /\ PendingIsWatched'
  BY <1>1, <1>2, <1>5 DEF OutInv, EndsAreDue, PendingIsWatched, WithStatus, Absent
<1> QED
  BY <1>8, <1>9, <1>10, <1>11, <1>12, <1>13, <1>14 DEF OutInv

(* What a future has found out reaches the rows: the transaction and its   *)
(* order end together, or the order is to be tried again.                  *)
LEMMA ResultInv ==
  ASSUME OutInv, UNCHANGED watched, NEW id \in TxIds, HandleResult(id)
  PROVE  OutInv'
<1> DEFINE o == txs[id].order
<1>1. /\ futures[id] # "none"
      /\ futures' = [futures EXCEPT ![id] = "none"]
      /\ UNCHANGED <<swaps, ops, nonce, mishaps, pc, todo, draft, provider>>
  BY DEF HandleResult, Succeeded, Erred, bundlerVars, taskVars
<1>2. txs[id].status = "InProgress" /\ o # NoOrder /\ Fits(o, "transfer") /\ o \in Orders
  BY <1>1 DEF OutInv, FuturesAreTrue, AttemptsFit, Fits, Absent
<1>3. order[o].status = "InProgress"
  BY <1>2 DEF OutInv, StatusesAgree, LiveTx
<1>4. PICK result \in {"Completed", "Failed"}, h \in TxIds \X {"op", "bundle"},
           due \in BOOLEAN :
        /\ txs' = [txs EXCEPT ![id].status = result, ![id].hash = h]
        /\ order' = [order EXCEPT ![o].status = IF result = "Completed" THEN "Completed"
                                                ELSE "FailedRetriable",
                                  ![o].due = due]
        /\ result = "Completed" => ops[id].state = "executed"
  <2>1. /\ txs[id] \in TxRow
        /\ order[o] \in [status : TransferStatus \cup {Absent}, due : BOOLEAN, dest : BOOLEAN]
        /\ ops[id] \in OpRow
        /\ txs \in [TxIds -> TxRow]
        /\ order \in [Orders -> [status : TransferStatus \cup {Absent}, due : BOOLEAN,
                                 dest : BOOLEAN]]
    BY <1>2 DEF OutInv, Shape, OrdersTypeOK, BundlerTypeOK, TxRow, OpRow
  <2>2. CASE Succeeded(id)
    <3>1. ops[id].state = "executed"
      BY <2>2 DEF Succeeded, OutInv, FuturesAreTrue
    <3>2. BundleHash(ops[id].bundle) \in TxIds \X {"op", "bundle"}
      BY <2>1 DEF BundleHash, OpRow
    <3>3. /\ txs' = [txs EXCEPT ![id].status = "Completed",
                                ![id].hash = BundleHash(ops[id].bundle)]
          /\ order' = [order EXCEPT ![o].status = "Completed"]
      BY <2>2 DEF Succeeded, update_transaction_successful, update_status
    <3>4. order' = [order EXCEPT ![o].status = "Completed", ![o].due = order[o].due]
      BY <2>1, <3>3, <1>2
    <3>5. order[o].due \in BOOLEAN
      BY <2>1
    <3> QED
      BY <3>1, <3>2, <3>3, <3>4, <3>5
  <2>3. CASE Erred(id)
    <3>1. /\ txs' = [txs EXCEPT ![id].status = "Failed"]
          /\ order' = [order EXCEPT ![o].status = "FailedRetriable", ![o].due = FALSE]
      BY <2>3 DEF Erred, update_transaction_failed, update_retry, RetryStatus
    <3>2. txs' = [txs EXCEPT ![id].status = "Failed", ![id].hash = txs[id].hash]
      BY <2>1, <3>1
    <3>3. txs[id].hash \in TxIds \X {"op", "bundle"}
      BY <2>1 DEF TxRow
    <3> QED
      BY <3>1, <3>2, <3>3
  <2> QED
    BY <2>2, <2>3 DEF HandleResult
<1>5. /\ txs' \in [TxIds -> TxRow]
      /\ \A x \in TxIds : /\ txs'[x].order = txs[x].order
                          /\ txs'[x].status = IF x = id THEN result ELSE txs[x].status
  <2>1. txs \in [TxIds -> TxRow]
    BY DEF OutInv, Shape, OrdersTypeOK, TxRow
  <2>2. \A x \in TxIds :
          txs'[x] = IF x = id THEN [txs[x] EXCEPT !.status = result, !.hash = h] ELSE txs[x]
    BY <1>4, <2>1
  <2>3. \A x \in TxIds : /\ txs'[x] \in TxRow
                          /\ txs'[x].order = txs[x].order
                          /\ txs'[x].status = IF x = id THEN result ELSE txs[x].status
    BY <2>1, <2>2 DEF TxRow, TransactionStatus
  <2>4. txs' \in [TxIds -> TxRow]
    BY <1>4, <2>1, <2>3
  <2> QED
    BY <2>3, <2>4
<1> HIDE DEF o
<1>6. /\ order' \in [Orders -> [status : TransferStatus \cup {Absent}, due : BOOLEAN, dest : BOOLEAN]]
      /\ \A p \in Orders : /\ order'[p].dest = order[p].dest
                           /\ p # o => order'[p].status = order[p].status
      /\ order'[o].status = IF result = "Completed" THEN "Completed" ELSE "FailedRetriable"
  <2> DEFINE status == IF result = "Completed" THEN "Completed" ELSE "FailedRetriable"
  <2>1. order \in [Orders -> OrderRow]
    BY DEF OutInv, Shape, OrdersTypeOK, OrderRow
  <2>2. \A p \in Orders :
          order'[p] = IF p = o THEN [order[p] EXCEPT !.status = status, !.due = due]
                      ELSE order[p]
    BY <1>2, <1>4, <2>1
  <2>3. status \in TransferStatus
    BY DEF TransferStatus
  <2> HIDE DEF status
  <2>4. \A p \in Orders : /\ order'[p] \in OrderRow
                           /\ order'[p].dest = order[p].dest
                           /\ order'[p].status = IF p = o THEN status ELSE order[p].status
    BY <2>1, <2>2, <2>3 DEF OrderRow
  <2>5. order' \in [Orders -> OrderRow]
    BY <1>4, <2>1, <2>4
  <2> QED
    BY <1>2, <2>4, <2>5 DEF status, OrderRow
<1>7. /\ futures' \in [TxIds -> FuturePhase \cup {"none"}]
      /\ \A x \in TxIds : futures'[x] = IF x = id THEN "none" ELSE futures[x]
  BY <1>1 DEF OutInv, Shape
<1>8. Shape'
  BY <1>1, <1>5, <1>6, <1>7 DEF OutInv, Shape, OrdersTypeOK, BundlerTypeOK, TxRow
<1>9. AttemptsFit'
  BY <1>1, <1>2, <1>5, <1>6 DEF OutInv, AttemptsFit, Fits, Absent, o
<1>10. FuturesAreTrue'
  BY <1>1, <1>4, <1>5, <1>7 DEF OutInv, FuturesAreTrue, Absent
<1>11. /\ \A x \in TxIds \ {id} : txs[x].status \in LiveTx => txs[x].order # o
       /\ \A s \in SwapIds : swaps[s].order # o
  BY <1>2, RoutesExclude DEF OutInv, OneAttempt, LiveTx, o
<1>12. StatusesAgree'
  <2>1. \A x \in TxIds : txs[x].status \in LiveTx => txs[x].order \in Orders
    BY DEF OutInv, AttemptsFit, Fits, LiveTx, Absent
  <2>2. \A s \in SwapIds : swaps[s].order # NoOrder => swaps[s].order \in Orders
    BY DEF OutInv, AttemptsFit, Fits
  <2> QED
    BY <1>1, <1>5, <1>6, <1>11, <2>1, <2>2 DEF OutInv, StatusesAgree, LiveTx, o
<1>13. OneAttempt'
  BY <1>1, <1>2, <1>5 DEF OutInv, OneAttempt, LiveTx
<1>14. HandsAreClean'
  <2>1. o \notin todo /\ draft.order # o
    BY <1>2 DEF OutInv, HandsAreClean, Held, Unattempted, LiveTx, o
  <2>2. \A p \in Orders : p # o /\ Held(p) => Held(p)'
    BY <1>1, <1>2, <1>5, <1>6 DEF Held, Unattempted, o
  <2>3. todo \subseteq Orders /\ (draft.order # NoOrder => draft.order \in Orders)
    BY DEF OutInv, Shape
  <2>4. \A route : Fits(draft.order, route) => Fits(draft.order, route)'
    BY <1>1, <1>6 DEF Fits
  <2> QED
    BY <1>1, <2>1, <2>2, <2>3, <2>4 DEF OutInv, HandsAreClean
<1>15. EndsAreDue'
  <2>1. order'[o].status = "Completed" => txs'[id].order = o /\ txs'[id].status = "Completed"
    BY <1>2, <1>4, <1>5, <1>6 DEF o
  <2>2. order'[o].status # "Failed"
    BY <1>6
  <2> QED
    BY <1>1, <1>2, <1>5, <1>6, <2>1, <2>2 DEF OutInv, EndsAreDue
<1>16. PendingIsWatched'
  BY <1>1 DEF OutInv, PendingIsWatched, WithStatus
<1> QED
  BY <1>8, <1>9, <1>10, <1>12, <1>13, <1>14, <1>15, <1>16 DEF OutInv

-----------------------------------------------------------------------------
(* A swap changes its row, and neither was nor is followed by the tracker. *)
(* If it becomes live for an order, the task had that in its hands.        *)
LEMMA OneSwapInv ==
  ASSUME OutInv, NEW s \in SwapIds, NEW row \in SwapRow,
         swaps' = [swaps EXCEPT ![s] = row],
         {swaps[s].status, row.status} \cap {"Pending", "Completed"} = {},
         row.order # NoOrder => /\ Fits(row.order, "swap")
                                /\ s \notin Incoming
                                /\ row.status = "Submitted" => Held(row.order),
         todo' \subseteq Orders,
         draft' \in [order : Orders \cup {NoOrder}, nonce : Nat, swap : SwapIds \cup {NoOrder}],
         HandsAreClean',
         UNCHANGED <<order, txs, ops, nonce, mishaps, futures, provider, watched>>
  PROVE  OutInv'
<1>1. /\ swaps' \in [SwapIds -> SwapRow]
      /\ swaps'[s] = row
      /\ \A t \in SwapIds \ {s} : swaps'[t] = swaps[t]
  BY DEF OutInv, Shape, OrdersTypeOK, SwapRow
<1>2. Shape'
  BY <1>1 DEF OutInv, Shape, OrdersTypeOK, BundlerTypeOK, SwapRow
<1>3. AttemptsFit'
  BY <1>1 DEF OutInv, AttemptsFit, Fits
<1>4. FuturesAreTrue'
  BY DEF OutInv, FuturesAreTrue
<1>5. StatusesAgree'
  BY <1>1 DEF OutInv, StatusesAgree, Held
<1>6. OneAttempt'
  BY <1>1 DEF OutInv, OneAttempt, Held, Unattempted, LiveSwap
<1>7. EndsAreDue'
  <2>1. \A t \in SwapIds : swaps[t].status = "Completed" => swaps'[t] = swaps[t]
    BY <1>1
  <2> QED
    BY <2>1 DEF OutInv, EndsAreDue
<1>8. PendingIsWatched'
  BY <1>1 DEF OutInv, PendingIsWatched, WithStatus
<1> QED
  BY <1>2, <1>3, <1>4, <1>5, <1>6, <1>7, <1>8 DEF OutInv

(* The same when the task does not move: the swap is not live, or it is    *)
(* one of a customer.                                                      *)
LEMMA OtherSwapInv ==
  ASSUME OutInv, NEW s \in SwapIds, NEW row \in SwapRow,
         swaps' = [swaps EXCEPT ![s] = row],
         {swaps[s].status, row.status} \cap {"Pending", "Completed"} = {},
         row.order = swaps[s].order,
         \/ row.order = NoOrder
         \/ swaps[s].status = "Created" /\ row.status = "Abandoned",
         UNCHANGED <<order, txs, ops, nonce, mishaps, futures, provider, watched, pc, todo, draft>>
  PROVE  OutInv'
<1>1. /\ swaps'[s] = row
      /\ \A t \in SwapIds \ {s} : swaps'[t] = swaps[t]
  BY DEF OutInv, Shape, OrdersTypeOK
<1>2. \A o \in Orders : Held(o) => Held(o)'
  BY <1>1, OrdersAssumption DEF Held, Unattempted, LiveSwap
<1>3. todo \subseteq Orders /\ (draft.order # NoOrder => draft.order \in Orders)
  BY DEF OutInv, Shape
<1>4. pc \in {"swap", "submitted"} =>
        /\ swaps'[draft.swap].order = draft.order
        /\ swaps'[draft.swap].status \in {"Created", "Abandoned"}
  BY <1>1, OrdersAssumption DEF OutInv, HandsAreClean, Fits
<1>5. HandsAreClean'
  BY <1>2, <1>3, <1>4 DEF OutInv, HandsAreClean, Fits
<1>6. row.order # NoOrder => /\ Fits(row.order, "swap")
                             /\ s \notin Incoming
                             /\ row.status = "Submitted" => Held(row.order)
  BY DEF OutInv, AttemptsFit
<1> QED
  BY <1>5, <1>6, OneSwapInv DEF OutInv, Shape

(* schedule_swap, step by step.                                            *)
LEMMA CreateSwapInv ==
  ASSUME OutInv, UNCHANGED watched, NEW o \in Orders, CreateSwap(o)
  PROVE  OutInv'
<1>1. /\ o \in todo
      /\ Fits(o, "swap")
      /\ todo' = todo \ {o}
      /\ pc' = "swap"
      /\ UNCHANGED <<order, txs, ops, nonce, mishaps, futures, provider>>
  BY DEF CreateSwap, Sends, Fits, bundlerVars
<1>2. PICK s \in SwapIds \ Incoming :
        /\ swaps[s].status = Absent
        /\ swaps' = [swaps EXCEPT ![s] = [order |-> o, status |-> "Created"]]
        /\ draft' = [order |-> o, nonce |-> 0, swap |-> s]
  BY DEF CreateSwap, create_swap
<1> DEFINE row == [order |-> o, status |-> "Created"]
<1>3. row \in SwapRow /\ row.order = o /\ row.status = "Created"
  BY DEF SwapRow, SwapStatus
<1> HIDE DEF row
<1>4. /\ swaps'[s] = row
      /\ \A t \in SwapIds \ {s} : swaps'[t] = swaps[t]
  BY <1>2 DEF OutInv, Shape, OrdersTypeOK, row
<1>5. /\ draft'.order = o
      /\ draft'.swap = s
      /\ draft' \in [order : Orders \cup {NoOrder}, nonce : Nat, swap : SwapIds \cup {NoOrder}]
  BY <1>2
<1>6. HandsAreClean'
  <2>1. \A p \in todo : Held(p)'
    BY <1>1, <1>3, <1>4 DEF OutInv, HandsAreClean, Held, Unattempted, LiveSwap
  <2> QED
    BY <1>1, <1>2, <1>3, <1>4, <1>5, <2>1 DEF HandsAreClean, Fits
<1>7. todo' \subseteq Orders
  BY <1>1 DEF OutInv, Shape
<1> QED
  BY <1>1, <1>2, <1>3, <1>5, <1>6, <1>7, OneSwapInv DEF row, Absent

(* The row of the swap becomes the live attempt at the order.              *)
LEMMA SwapSubmittedInv ==
  ASSUME OutInv, UNCHANGED watched, SwapSubmitted
  PROVE  OutInv'
<1> DEFINE s == draft.swap
           o == draft.order
           row == [swaps[s] EXCEPT !.status = "Submitted"]
<1>1. /\ s \in SwapIds \ Incoming
      /\ swaps[s].order = o
      /\ swaps[s].status \in {"Created", "Abandoned"}
      /\ Fits(o, "swap")
      /\ o # NoOrder
      /\ Held(o)
      /\ o \notin todo
  BY OrdersAssumption DEF SwapSubmitted, OutInv, HandsAreClean, Fits
<1>2. /\ swaps' = [swaps EXCEPT ![s] = row]
      /\ pc' = "send"
      /\ draft' = NoDraft
      /\ UNCHANGED <<order, txs, ops, nonce, mishaps, todo, futures, provider>>
  BY DEF SwapSubmitted, update_swap, bundlerVars
<1>3. row \in SwapRow /\ row.order = o /\ row.status = "Submitted"
  BY <1>1 DEF OutInv, Shape, OrdersTypeOK, SwapRow, SwapStatus
<1> HIDE DEF row, s, o
<1>4. /\ swaps'[s] = row
      /\ \A t \in SwapIds \ {s} : swaps'[t] = swaps[t]
  BY <1>1, <1>2 DEF OutInv, Shape, OrdersTypeOK
<1>5. HandsAreClean'
  <2>1. draft'.order = NoOrder /\ NoOrder \notin todo
    BY <1>2, NoDraftType, OrdersAssumption DEF OutInv, Shape
  <2>2. \A p \in todo : Held(p)'
    BY <1>1, <1>2, <1>3, <1>4 DEF OutInv, HandsAreClean, Held, Unattempted
  <2> QED
    BY <1>2, <2>1, <2>2 DEF HandsAreClean
<1> QED
  BY <1>1, <1>2, <1>3, <1>5, NoDraftType, OneSwapInv DEF OutInv, Shape

(* What the provider does, as long as it takes back no execution.          *)
LEMMA ProviderInv ==
  ASSUME OutInv, provider' \in [SwapIds -> ProviderState],
         \A s \in SwapIds : swaps[s].status = "Completed" => provider'[s] = "executed",
         pc' = pc \/ (pc = "swap" /\ pc' = "submitted"),
         UNCHANGED <<order, txs, swaps, ops, nonce, mishaps, todo, draft, futures, watched>>
  PROVE  OutInv'
<1>1. Shape'
  BY DEF OutInv, Shape, OrdersTypeOK, BundlerTypeOK
<1>2. AttemptsFit' /\ FuturesAreTrue' /\ StatusesAgree' /\ OneAttempt'
  BY DEF OutInv, AttemptsFit, Fits, FuturesAreTrue, StatusesAgree, OneAttempt
<1>3. HandsAreClean'
  BY DEF OutInv, HandsAreClean, Held, Unattempted, Fits
<1>4. EndsAreDue' /\ PendingIsWatched'
  BY DEF OutInv, EndsAreDue, PendingIsWatched, WithStatus
<1> QED
  BY <1>1, <1>2, <1>3, <1>4 DEF OutInv

(* A swap is submitted by the executor or by its customer, or comes to an  *)
(* end at the provider.                                                    *)
LEMMA ProviderStepInv ==
  ASSUME OutInv,
         \/ SubmitSwap /\ UNCHANGED watched
         \/ \E s \in SwapIds : CustomerSubmits(s) \/ ProviderEnds(s)
  PROVE  OutInv'
<1>1. CASE SubmitSwap /\ UNCHANGED watched
  <2>1. draft.swap \in SwapIds /\ swaps[draft.swap].status # "Completed"
    BY <1>1 DEF SubmitSwap, OutInv, HandsAreClean
  <2>2. /\ provider' \in [SwapIds -> ProviderState]
        /\ \A s \in SwapIds : swaps[s].status = "Completed" => provider'[s] = "executed"
    BY <1>1, <2>1 DEF SubmitSwap, OutInv, Shape, StatusesAgree, ProviderState
  <2> QED
    BY <1>1, <2>2, ProviderInv DEF SubmitSwap, ordersVars, bundlerVars
<1>2. ASSUME NEW s \in SwapIds, CustomerSubmits(s) \/ ProviderEnds(s)
      PROVE  OutInv'
  <2>1. /\ provider' \in [SwapIds -> ProviderState]
        /\ \A t \in SwapIds : swaps[t].status = "Completed" => provider'[t] = "executed"
    BY <1>2 DEF CustomerSubmits, ProviderEnds, OutInv, Shape, StatusesAgree, ProviderState
  <2> QED
    BY <1>2, <2>1, ProviderInv
       DEF CustomerSubmits, ProviderEnds, ordersVars, bundlerVars, taskVars
<1> QED
  BY <1>1, <1>2

(* The swaps of customers, and swaps that are out of date.                 *)
LEMMA CustomerInv ==
  ASSUME OutInv, NEW s \in SwapIds,
         CreateIncomingSwap(s) \/ UpdateSwapSubmitted(s) \/ GetOutdatedSwaps(s)
  PROVE  OutInv'
<1>1. UNCHANGED <<order, txs, ops, nonce, mishaps, futures, provider, watched, pc, todo, draft>>
  BY DEF CreateIncomingSwap, UpdateSwapSubmitted, GetOutdatedSwaps, bundlerVars, taskVars
<1>2. swaps[s] \in SwapRow
  BY DEF OutInv, Shape, OrdersTypeOK, SwapRow
<1>3. s \in Incoming => swaps[s].order = NoOrder
  BY DEF OutInv, AttemptsFit
<1>4. CASE CreateIncomingSwap(s)
  <2> DEFINE row == [order |-> NoOrder, status |-> "Created"]
  <2>1. row \in SwapRow /\ row.order = NoOrder /\ row.status = "Created"
    BY DEF SwapRow, SwapStatus
  <2>2. s \in Incoming /\ swaps[s].status = Absent /\ swaps' = [swaps EXCEPT ![s] = row]
    BY <1>4 DEF CreateIncomingSwap, create_swap
  <2> HIDE DEF row
  <2> QED
    BY <1>1, <1>3, <2>1, <2>2, OtherSwapInv DEF Absent
<1>5. CASE UpdateSwapSubmitted(s)
  <2> DEFINE row == [swaps[s] EXCEPT !.status = "Submitted"]
  <2>1. row \in SwapRow /\ row.order = swaps[s].order /\ row.status = "Submitted"
    BY <1>2 DEF SwapRow, SwapStatus
  <2>2. /\ s \in Incoming
        /\ SwapTransition(swaps[s].status, "Submitted")
        /\ swaps' = [swaps EXCEPT ![s] = row]
    BY <1>5 DEF UpdateSwapSubmitted, update_swap
  <2>3. swaps[s].status \notin {"Pending", "Completed"}
    BY <2>2 DEF SwapTransition
  <2> HIDE DEF row
  <2> QED
    BY <1>1, <1>3, <2>1, <2>2, <2>3, OtherSwapInv
<1>6. CASE GetOutdatedSwaps(s)
  <2> DEFINE row == [swaps[s] EXCEPT !.status = "Abandoned"]
  <2>1. row \in SwapRow /\ row.order = swaps[s].order /\ row.status = "Abandoned"
    BY <1>2 DEF SwapRow, SwapStatus
  <2>2. swaps[s].status = "Created" /\ swaps' = [swaps EXCEPT ![s] = row]
    BY <1>6 DEF GetOutdatedSwaps, update_swap
  <2> HIDE DEF row
  <2> QED
    BY <1>1, <2>1, <2>2, OtherSwapInv
<1> QED
  BY <1>4, <1>5, <1>6

-----------------------------------------------------------------------------
(* The tracker begins to follow all that is submitted.                     *)
LEMMA TrackInv ==
  ASSUME OutInv, GetSubmittedSwaps
  PROVE  OutInv'
<1>1. UNCHANGED <<order, txs, ops, nonce, mishaps, futures, provider, pc, todo, draft>>
  BY DEF GetSubmittedSwaps, bundlerVars, taskVars
<1>2. \A s \in SwapIds :
        swaps'[s] = IF swaps[s].status = "Submitted"
                      THEN [swaps[s] EXCEPT !.status = "Pending"] ELSE swaps[s]
  BY DEF GetSubmittedSwaps, WithStatus
<1>3. \A s \in SwapIds :
        /\ swaps'[s] \in SwapRow
        /\ swaps'[s].order = swaps[s].order
        /\ swaps'[s].status = IF swaps[s].status = "Submitted" THEN "Pending"
                                                               ELSE swaps[s].status
  <2>1. \A s \in SwapIds : swaps[s] \in SwapRow
    BY DEF OutInv, Shape, OrdersTypeOK, SwapRow
  <2> QED
    BY <1>2, <2>1 DEF SwapRow, SwapStatus
<1>4. Shape'
  <2>1. swaps' \in [SwapIds -> SwapRow]
    BY <1>3 DEF GetSubmittedSwaps
  <2>2. watched' \subseteq SwapIds
    BY DEF GetSubmittedSwaps, WithStatus, OutInv, Shape
  <2> QED
    BY <1>1, <2>1, <2>2 DEF OutInv, Shape, OrdersTypeOK, BundlerTypeOK, SwapRow
<1>5. AttemptsFit' /\ FuturesAreTrue'
  BY <1>1, <1>3 DEF OutInv, AttemptsFit, Fits, FuturesAreTrue
<1>6. StatusesAgree'
  BY <1>1, <1>3 DEF OutInv, StatusesAgree
<1>7. OneAttempt'
  BY <1>1, <1>3 DEF OutInv, OneAttempt, LiveSwap
<1>8. HandsAreClean'
  <2>1. \A o \in Orders : Held(o) => Held(o)'
    BY <1>1, <1>3 DEF Held, Unattempted, LiveSwap
  <2>2. todo \subseteq Orders /\ (draft.order # NoOrder => draft.order \in Orders)
    BY DEF OutInv, Shape
  <2>3. pc \in {"swap", "submitted"} => /\ swaps'[draft.swap].order = draft.order
                                        /\ swaps'[draft.swap].status \in {"Created", "Abandoned"}
    BY <1>3 DEF OutInv, HandsAreClean
  <2> QED
    BY <1>1, <2>1, <2>2, <2>3 DEF OutInv, HandsAreClean, Fits
<1>9. EndsAreDue'
  <2>1. \A s \in SwapIds : swaps[s].status = "Completed" => swaps'[s] = swaps[s]
    BY <1>2
  <2> QED
    BY <1>1, <2>1 DEF OutInv, EndsAreDue
<1>10. PendingIsWatched'
  <2>1. watched' = watched \cup WithStatus("Submitted")
    BY DEF GetSubmittedSwaps
  <2> QED
    BY <1>3, <2>1 DEF OutInv, PendingIsWatched, WithStatus
<1> QED
  BY <1>4, <1>5, <1>6, <1>7, <1>8, <1>9, <1>10 DEF OutInv

(* The tracker has seen the end of a swap.                                 *)
LEMMA SwapEndsInv ==
  ASSUME OutInv, NEW s \in SwapIds, HandleSwapExecuted(s) \/ HandleSwapFailed(s)
  PROVE  OutInv'
<1> DEFINE o == swaps[s].order
<1>1. /\ s \in watched
      /\ watched' = watched \ {s}
      /\ UNCHANGED <<txs, ops, nonce, mishaps, futures, provider, pc, todo, draft>>
  BY DEF HandleSwapExecuted, HandleSwapFailed, bundlerVars, taskVars
<1>2. swaps[s].status = "Pending"
  BY <1>1 DEF OutInv, PendingIsWatched, WithStatus
<1>3. PICK result \in {"Completed", "Failed"} :
        /\ swaps' = [swaps EXCEPT ![s].status = result]
        /\ result = "Completed" => provider[s] = "executed"
        /\ o = NoOrder => UNCHANGED order
        /\ o # NoOrder /\ result = "Completed" => order' = [order EXCEPT ![o].status = "Completed"]
        /\ o # NoOrder /\ result = "Failed" =>
             order' = [order EXCEPT ![o].status = "FailedRetriable", ![o].due = FALSE]
  BY DEF HandleSwapExecuted, HandleSwapFailed, update_swap, update_status, update_retry,
       RetryStatus
<1>4. /\ swaps' \in [SwapIds -> SwapRow]
      /\ \A t \in SwapIds : /\ swaps'[t].order = swaps[t].order
                            /\ swaps'[t].status = IF t = s THEN result ELSE swaps[t].status
  <2>1. swaps \in [SwapIds -> SwapRow]
    BY DEF OutInv, Shape, OrdersTypeOK, SwapRow
  <2>2. \A t \in SwapIds :
          swaps'[t] = IF t = s THEN [swaps[t] EXCEPT !.status = result] ELSE swaps[t]
    BY <1>3, <2>1
  <2>3. \A t \in SwapIds : /\ swaps'[t] \in SwapRow
                           /\ swaps'[t].order = swaps[t].order
                           /\ swaps'[t].status = IF t = s THEN result ELSE swaps[t].status
    BY <2>1, <2>2 DEF SwapRow, SwapStatus
  <2>4. swaps' \in [SwapIds -> SwapRow]
    BY <1>3, <2>1, <2>3
  <2> QED
    BY <2>3, <2>4
<1>5. o # NoOrder => o \in Orders /\ order[o].status = "InProgress"
  BY <1>2 DEF OutInv, AttemptsFit, Fits, StatusesAgree
<1> HIDE DEF o
<1> DEFINE status == IF result = "Completed" THEN "Completed" ELSE "FailedRetriable"
<1>6. /\ order' \in [Orders -> OrderRow]
      /\ \A p \in Orders : /\ order'[p].dest = order[p].dest
                           /\ order'[p].status = IF p = o THEN status ELSE order[p].status
  <2>1. order \in [Orders -> OrderRow]
    BY DEF OutInv, Shape, OrdersTypeOK, OrderRow
  <2>2. CASE o = NoOrder
    BY <1>3, <2>1, <2>2, OrdersAssumption
  <2>3. CASE o # NoOrder
    <3>1. PICK due \in BOOLEAN :
            order' = [order EXCEPT ![o] = [order[o] EXCEPT !.status = status, !.due = due]]
      <4>1. order[o] \in OrderRow
        BY <1>5, <2>1, <2>3
      <4>2. CASE result = "Completed"
        <5>1. order' = [order EXCEPT ![o] = [order[o] EXCEPT !.status = "Completed",
                                                             !.due = order[o].due]]
          BY <1>3, <2>3, <4>1, <4>2 DEF OrderRow
        <5>2. order[o].due \in BOOLEAN
          BY <4>1 DEF OrderRow
        <5> QED
          BY <4>2, <5>1, <5>2
      <4>3. CASE result = "Failed"
        BY <1>3, <2>3, <4>3
      <4> QED
        BY <4>2, <4>3
    <3>2. status \in TransferStatus
      BY DEF TransferStatus
    <3> HIDE DEF status
    <3>3. \A p \in Orders :
            order'[p] = IF p = o THEN [order[p] EXCEPT !.status = status, !.due = due]
                        ELSE order[p]
      BY <1>5, <2>1, <2>3, <3>1
    <3>4. \A p \in Orders : /\ order'[p] \in OrderRow
                            /\ order'[p].dest = order[p].dest
                            /\ order'[p].status = IF p = o THEN status ELSE order[p].status
      BY <2>1, <3>2, <3>3 DEF OrderRow
    <3>5. order' \in [Orders -> OrderRow]
      BY <2>1, <3>1, <3>4
    <3> QED
      BY <3>4, <3>5
  <2> QED
    BY <2>2, <2>3
<1>7. Shape'
  BY <1>1, <1>4, <1>6 DEF OutInv, Shape, OrdersTypeOK, BundlerTypeOK, SwapRow, OrderRow
<1>8. AttemptsFit' /\ FuturesAreTrue'
  BY <1>1, <1>4, <1>6 DEF OutInv, AttemptsFit, Fits, FuturesAreTrue
<1>9. o \in Orders =>
        /\ \A t \in SwapIds \ {s} : swaps[t].status \in LiveSwap => swaps[t].order # o
        /\ \A x \in TxIds : txs[x].order # o
  <2>1. o \in Orders => o # NoOrder
    BY OrdersAssumption
  <2> QED
    BY <1>2, <2>1, RoutesExclude DEF OutInv, OneAttempt, LiveSwap, o
<1>10. StatusesAgree'
  <2>1. \A x \in TxIds : txs[x].status \in LiveTx => txs[x].order \in Orders
    BY DEF OutInv, AttemptsFit, Fits, LiveTx, Absent
  <2>2. \A t \in SwapIds : swaps[t].order # NoOrder => swaps[t].order \in Orders
    BY DEF OutInv, AttemptsFit, Fits
  <2>3. \A x \in TxIds : txs'[x].status \in LiveTx =>
          order'[txs'[x].order].status = txs'[x].status
    BY <1>1, <1>6, <1>9, <2>1 DEF OutInv, StatusesAgree
  <2>4. \A t \in SwapIds : swaps'[t].order # NoOrder =>
          /\ swaps'[t].status \in {"Submitted", "Pending"} =>
               order'[swaps'[t].order].status = "InProgress"
          /\ swaps'[t].status = "Completed" => order'[swaps'[t].order].status = "Completed"
    BY <1>4, <1>6, <1>9, <2>2 DEF OutInv, StatusesAgree, LiveSwap, o
  <2>5. \A t \in SwapIds : swaps'[t].status = "Completed" => provider'[t] = "executed"
    BY <1>1, <1>3, <1>4 DEF OutInv, StatusesAgree
  <2> QED
    BY <2>3, <2>4, <2>5 DEF StatusesAgree
<1>11. OneAttempt'
  BY <1>1, <1>2, <1>4 DEF OutInv, OneAttempt, LiveSwap
<1>12. HandsAreClean'
  <2>1. \A p \in Orders : Held(p) => p # o
    BY <1>2 DEF Held, Unattempted, LiveSwap, o
  <2>2. \A p \in Orders : Held(p) => Held(p)'
    BY <1>1, <1>4, <1>6, <2>1 DEF Held, Unattempted, o
  <2>3. todo \subseteq Orders /\ (draft.order # NoOrder => draft.order \in Orders)
    BY DEF OutInv, Shape
  <2>4. \A route : Fits(draft.order, route) => Fits(draft.order, route)'
    BY <1>1, <1>6 DEF Fits
  <2>5. pc \in {"swap", "submitted"} => /\ draft.swap \in SwapIds
                                        /\ swaps'[draft.swap] = swaps[draft.swap]
    <3>1. pc \in {"swap", "submitted"} => draft.swap \in SwapIds /\ draft.swap # s
      BY <1>2 DEF OutInv, HandsAreClean
    <3> QED
      BY <1>3, <3>1 DEF OutInv, Shape, OrdersTypeOK
  <2> QED
    BY <1>1, <2>2, <2>3, <2>4, <2>5 DEF OutInv, HandsAreClean
<1>13. EndsAreDue'
  <2>1. \A t \in SwapIds : swaps[t].status = "Completed" => swaps'[t].status = "Completed"
    BY <1>2, <1>4
  <2>2. result = "Completed" => swaps'[s].order = o /\ swaps'[s].status = "Completed"
    BY <1>4 DEF o
  <2> QED
    BY <1>1, <1>4, <1>6, <2>1, <2>2 DEF OutInv, EndsAreDue
<1>14. PendingIsWatched'
  BY <1>1, <1>2, <1>4 DEF OutInv, PendingIsWatched, WithStatus
<1> QED
  BY <1>7, <1>8, <1>10, <1>11, <1>12, <1>13, <1>14 DEF OutInv

-----------------------------------------------------------------------------
(* An order is created, or its next attempt has come due.                  *)
LEMMA OrderStepInv ==
  ASSUME OutInv, NEW o \in Orders, CreateOrder(o) \/ RetryComesDue(o)
  PROVE  OutInv'
<1>1. UNCHANGED <<txs, swaps, ops, nonce, mishaps, futures, provider, watched, pc, todo, draft>>
  BY DEF CreateOrder, RetryComesDue, bundlerVars, taskVars
<1>2. order \in [Orders -> OrderRow]
  BY DEF OutInv, Shape, OrdersTypeOK, OrderRow
<1>3. PICK status \in TransferStatus, due \in BOOLEAN :
        /\ order' = [order EXCEPT ![o] = [order[o] EXCEPT !.status = status, !.due = due]]
        /\ \/ status = order[o].status
           \/ order[o].status = Absent /\ status = "Waiting"
  <2>1. order[o] \in OrderRow
    BY <1>2
  <2>2. CASE CreateOrder(o)
    <3>1. order' = [order EXCEPT ![o] = [order[o] EXCEPT !.status = "Waiting", !.due = order[o].due]]
      BY <2>1, <2>2 DEF CreateOrder, create_order, OrderRow
    <3>2. order[o].due \in BOOLEAN /\ order[o].status = Absent
      BY <2>1, <2>2 DEF OrderRow, CreateOrder, create_order
    <3> QED
      BY <3>1, <3>2 DEF TransferStatus
  <2>3. CASE RetryComesDue(o)
    <3>1. order' = [order EXCEPT ![o] = [order[o] EXCEPT !.status = order[o].status, !.due = TRUE]]
      BY <2>1, <2>3 DEF RetryComesDue, OrderRow
    <3>2. order[o].status \in TransferStatus
      BY <2>3 DEF RetryComesDue, TransferStatus
    <3> QED
      BY <3>1, <3>2
  <2> QED
    BY <2>2, <2>3
<1>4. \A p \in Orders : /\ order'[p] \in OrderRow
                        /\ order'[p].dest = order[p].dest
                        /\ p # o => order'[p] = order[p]
  BY <1>2, <1>3 DEF OrderRow
<1>5. order' \in [Orders -> OrderRow]
  BY <1>2, <1>3, <1>4
<1>6. order'[o].status = status
  BY <1>2, <1>3 DEF OrderRow
<1>7. Shape'
  BY <1>1, <1>5 DEF OutInv, Shape, OrdersTypeOK, BundlerTypeOK, OrderRow
<1>8. HandsAreClean'
  <2>1. \A p \in Orders : Held(p) => Held(p)'
    BY <1>1, <1>3, <1>4, <1>6 DEF Held, Unattempted, Absent
  <2>2. todo \subseteq Orders /\ (draft.order # NoOrder => draft.order \in Orders)
    BY DEF OutInv, Shape
  <2>3. \A route : Fits(draft.order, route) => Fits(draft.order, route)'
    BY <1>1, <1>4 DEF Fits
  <2> QED
    BY <1>1, <2>1, <2>2, <2>3 DEF OutInv, HandsAreClean
<1>9. \A p \in Orders :
        /\ order[p].dest => order'[p].dest
        /\ \/ order'[p].status = order[p].status
           \/ Unattempted(p) /\ "Completed" \notin {order[p].status, order'[p].status}
        /\ order'[p].status = "Failed" => ~order'[p].dest \/ Route[p] = "unsupported"
  <2>1. order[o].status = Absent => Unattempted(o)
    BY RestingIsUnattempted DEF Absent
  <2> QED
    BY <1>3, <1>4, <1>6, <2>1 DEF OutInv, EndsAreDue, Absent
<1> QED
  BY <1>1, <1>7, <1>8, <1>9, OrdersInv

(* A crash empties the hands of the task and forgets the futures.          *)
LEMMA CrashInv ==
  ASSUME OutInv, StopAndStart
  PROVE  OutInv'
<1>1. /\ UNCHANGED <<order, txs, swaps, ops, nonce, provider>>
      /\ todo' = {}
      /\ draft' = NoDraft
      /\ pc' = "idle"
      /\ futures' = [id \in TxIds |-> "none"]
      /\ watched' = WithStatus("Pending")
  BY DEF StopAndStart, ordersVars
<1>2. mishaps' \in [MishapKinds -> Nat]
  BY MishapType DEF StopAndStart, MishapKinds, OutInv, Shape
<1>3. Shape'
  BY <1>1, <1>2, NoDraftType DEF OutInv, Shape, OrdersTypeOK, BundlerTypeOK, WithStatus
<1>4. AttemptsFit' /\ FuturesAreTrue' /\ StatusesAgree' /\ OneAttempt'
  BY <1>1 DEF OutInv, AttemptsFit, Fits, FuturesAreTrue, StatusesAgree, OneAttempt
<1>5. HandsAreClean'
  BY <1>1, NoDraftType DEF HandsAreClean
<1>6. EndsAreDue' /\ PendingIsWatched'
  BY <1>1 DEF OutInv, EndsAreDue, PendingIsWatched, WithStatus
<1> QED
  BY <1>3, <1>4, <1>5, <1>6 DEF OutInv

-----------------------------------------------------------------------------
(* The invariant is inductive.                                             *)
LEMMA NextInv ==
  OutInv /\ [OutNext]_outVars => OutInv'
<1> SUFFICES ASSUME OutInv, [OutNext]_outVars PROVE OutInv'
  OBVIOUS
<1>1. CASE TaskStep /\ UNCHANGED watched
  BY <1>1, ScheduleInv, DestinationInv, DraftFailsInv, BuildInv, StoreInv, CreateSwapInv,
     SwapSubmittedInv, ProviderStepInv, ResultInv, ResultFailsInv
     DEF TaskStep
<1>2. CASE \E id \in TxIds : FutureStep(id) /\ UNCHANGED watched
  BY <1>2, FutureInv
<1>3. CASE SwapsTrackerStep
  BY <1>3, TrackInv, SwapEndsInv DEF SwapsTrackerStep
<1>4. CASE \E s \in SwapIds : CustomerStep(s) \/ ProviderEnds(s) \/ GetOutdatedSwaps(s)
  BY <1>4, CustomerInv, ProviderStepInv DEF CustomerStep
<1>5. CASE ChainStep
  BY <1>5, ChainStepInv
<1>6. CASE \E o \in Orders : CreateOrder(o) \/ RetryComesDue(o)
  BY <1>6, OrderStepInv
<1>7. CASE StopAndStart
  BY <1>7, CrashInv
<1>8. CASE UNCHANGED outVars
  <2>1. UNCHANGED <<order, txs, swaps, ops, nonce, mishaps, pc, todo, draft, futures,
                    provider, watched>>
    BY <1>8 DEF outVars
  <2>2. Shape' /\ FuturesAreTrue'
    BY <2>1 DEF OutInv, Shape, OrdersTypeOK, BundlerTypeOK, FuturesAreTrue
  <2> QED
    BY <2>1, <2>2, ChainInv
<1> QED
  BY <1>1, <1>2, <1>3, <1>4, <1>5, <1>6, <1>7, <1>8 DEF OutNext

(* Every reachable state satisfies it.                                     *)
LEMMA Invariance == OutSpec => []OutInv
BY InitInv, NextInv, PTL DEF OutSpec

(* The swaps tracker follows exactly the pending swaps.                    *)
THEOREM PendingIsWatchedAlways == OutSpec => []PendingIsWatched
<1>1. OutInv => PendingIsWatched
  BY DEF OutInv
<1> QED
  BY <1>1, Invariance, PTL

(* An order never has two live attempts, and none while it rests.          *)
THEOREM OneLiveAttemptAlways == OutSpec => []OneLiveAttempt
<1>1. ASSUME OutInv PROVE OneLiveAttempt
  <2> SUFFICES ASSUME NEW o \in Orders
               PROVE  /\ \A x, y \in LiveTxs(o) \cup LiveSwaps(o) : x = y
                      /\ order[o].status \in {Absent, "Waiting", "FailedRetriable", "Failed"} =>
                           LiveTxs(o) \cup LiveSwaps(o) = {}
    BY DEF OneLiveAttempt
  <2>1. o # NoOrder
    BY OrdersAssumption
  <2>2. \A x, y \in LiveTxs(o) : x = y
    BY <1>1 DEF LiveTxs, OutInv, OneAttempt, LiveTx
  <2>3. \A x, y \in LiveSwaps(o) : x = y
    BY <1>1, <2>1 DEF LiveSwaps, OutInv, OneAttempt, LiveSwap
  <2>4. LiveTxs(o) = {} \/ LiveSwaps(o) = {}
    BY <1>1, <2>1, RoutesExclude DEF LiveTxs, LiveSwaps
  <2>5. ASSUME order[o].status \in {Absent, "Waiting", "FailedRetriable", "Failed"}
        PROVE  LiveTxs(o) \cup LiveSwaps(o) = {}
    <3>1. Unattempted(o)
      BY <1>1, <2>5, RestingIsUnattempted DEF Absent
    <3> QED
      BY <3>1 DEF Unattempted, LiveTxs, LiveSwaps, LiveTx, LiveSwap
  <2> QED
    BY <2>2, <2>3, <2>4, <2>5
<1> QED
  BY <1>1, Invariance, PTL

(* A completed order was executed, and one that failed for good was not.   *)
THEOREM OutcomeIsTrueAlways == OutSpec => []OutcomeIsTrue
<1>1. ASSUME OutInv PROVE OutcomeIsTrue
  <2> SUFFICES ASSUME NEW o \in Orders
               PROVE  /\ order[o].status = "Completed" =>
                           (LiveTxs(o) \cap ExecutedTxs(o)) \cup (LiveSwaps(o) \cap ExecutedSwaps(o)) # {}
                      /\ order[o].status = "Failed" => ExecutedTxs(o) \cup ExecutedSwaps(o) = {}
    BY DEF OutcomeIsTrue
  <2>1. \A id \in TxIds : txs[id].order = o /\ txs[id].status = "Completed" =>
          id \in LiveTxs(o) \cap ExecutedTxs(o)
    BY <1>1 DEF OutInv, FuturesAreTrue, LiveTxs, ExecutedTxs
  <2>2. \A s \in SwapIds : swaps[s].order = o /\ swaps[s].status = "Completed" =>
          s \in LiveSwaps(o) \cap ExecutedSwaps(o)
    BY <1>1 DEF OutInv, StatusesAgree, LiveSwaps, ExecutedSwaps
  <2>3. ASSUME order[o].status = "Failed"
        PROVE  ExecutedTxs(o) \cup ExecutedSwaps(o) = {}
    <3>1. ~order[o].dest \/ Route[o] = "unsupported"
      BY <1>1, <2>3 DEF OutInv, EndsAreDue
    <3>2. /\ \A id \in TxIds : txs[id].order # o
          /\ \A s \in SwapIds : swaps[s].order # o
      BY <1>1, <3>1, OrdersAssumption DEF OutInv, AttemptsFit, Fits
    <3> QED
      BY <3>2 DEF ExecutedTxs, ExecutedSwaps
  <2>4. ASSUME order[o].status = "Completed"
        PROVE  (LiveTxs(o) \cap ExecutedTxs(o)) \cup (LiveSwaps(o) \cap ExecutedSwaps(o)) # {}
    BY <1>1, <2>1, <2>2, <2>4 DEF OutInv, EndsAreDue
  <2> QED
    BY <2>3, <2>4
<1> QED
  BY <1>1, Invariance, PTL

-----------------------------------------------------------------------------
(* Nobody waits in vain.  What follows needs operations that are bundled   *)
(* one by one: a transaction that carries two of them has one hash, which  *)
(* the unique index accepts once.                                          *)

(* Mishaps are only used up.                                               *)
MishapsFall == \A k \in MishapKinds : mishaps[k] <= Mishaps[k]

(* No step gives a mishap back, so a disturbance is remembered.            *)
LEMMA MishapStep ==
  ASSUME OutInv, MishapsFall, [OutNext]_outVars
  PROVE  MishapsFall' /\ (Disturbed => Disturbed')
<1>1. /\ mishaps \in [MishapKinds -> Nat]
      /\ MishapKinds = {"outage", "timeout", "database", "crash"}
      /\ Mishaps \in [MishapKinds -> Nat]
  BY BundlerAssumption DEF OutInv, Shape, BundlerTypeOK, MishapKinds
<1>2. mishaps' = mishaps \/ \E k \in MishapKinds : Mishap(k)
  <2>1. CASE TaskStep
    <3>1. ASSUME NEW o, Postpone(o) \/ TryAgain(o) \/ GiveUp(o)
          PROVE  mishaps' = mishaps \/ \E k \in MishapKinds : Mishap(k)
      BY <1>1, <3>1 DEF Postpone, TryAgain, GiveUp
    <3>2. CASE SchedulePayouts \/ ScheduleRefunds \/ ScheduleDone \/ StoreBuiltTransfer
               \/ SubmitSwap \/ SwapSubmitted
      BY <3>2 DEF SchedulePayouts, ScheduleRefunds, ScheduleDone, StoreBuiltTransfer,
           SubmitSwap, SwapSubmitted, bundlerVars
    <3>3. CASE ScheduleRefundsFails
      BY <1>1, <3>3 DEF ScheduleRefundsFails
    <3>4. ASSUME NEW o \in Orders, BuildTransfer(o) \/ CreateSwap(o)
          PROVE  mishaps' = mishaps
      BY <3>4 DEF BuildTransfer, CreateSwap, bundlerVars
    <3>5. ASSUME NEW o \in Orders, FindDestination(o) \/ FindDestinationFails(o)
                                   \/ SendUnsupported(o) \/ PrepareFails(o) \/ FeeTakesAll(o)
          PROVE  mishaps' = mishaps \/ \E k \in MishapKinds : Mishap(k)
      BY <3>1, <3>5 DEF FindDestination, FindDestinationFails, SendUnsupported,
           PrepareFails, FeeTakesAll
    <3>6. CASE StoreBuiltTransferFails \/ SwapFails
      BY <3>1, <3>6 DEF StoreBuiltTransferFails, SwapFails
    <3>7. ASSUME NEW id \in TxIds, HandleResult(id) \/ HandleResultFails(id)
          PROVE  mishaps' = mishaps \/ \E k \in MishapKinds : Mishap(k)
      BY <1>1, <3>7 DEF HandleResult, HandleResultFails, bundlerVars
    <3> QED
      BY <2>1, <3>2, <3>3, <3>4, <3>5, <3>6, <3>7 DEF TaskStep
  <2>2. ASSUME NEW id \in TxIds, FutureStep(id)
        PROVE  mishaps' = mishaps \/ \E k \in MishapKinds : Mishap(k)
    BY <1>1, <2>2 DEF FutureStep, Begin, Submit, SubmitRejected, SubmitAnswerLost,
         Receipt, WatchTimesOut, bundlerVars
  <2>3. CASE SwapsTrackerStep
    BY <2>3 DEF SwapsTrackerStep, GetSubmittedSwaps, HandleSwapExecuted,
         HandleSwapFailed, bundlerVars
  <2>4. ASSUME NEW s \in SwapIds, CustomerStep(s) \/ ProviderEnds(s) \/ GetOutdatedSwaps(s)
        PROVE  mishaps' = mishaps
    BY <2>4 DEF CustomerStep, CreateIncomingSwap, CustomerSubmits,
         UpdateSwapSubmitted, ProviderEnds, GetOutdatedSwaps, bundlerVars
  <2>5. CASE ChainStep
    BY <1>1, <2>5 DEF ChainStep, ExecuteBundle, RevertOperation
  <2>6. ASSUME NEW o \in Orders, CreateOrder(o) \/ RetryComesDue(o)
        PROVE  mishaps' = mishaps
    BY <2>6 DEF CreateOrder, RetryComesDue, bundlerVars
  <2>7. CASE StopAndStart \/ UNCHANGED outVars
    BY <1>1, <2>7 DEF StopAndStart, outVars
  <2> QED
    BY <2>1, <2>2, <2>3, <2>4, <2>5, <2>6, <2>7 DEF OutNext
<1>3. \A k \in MishapKinds : mishaps'[k] <= mishaps[k] /\ mishaps'[k] \in Int
  BY <1>1, <1>2 DEF Mishap
<1>4. MishapsFall'
  BY <1>1, <1>3 DEF MishapsFall
<1>5. Disturbed => Disturbed'
  BY <1>1, <1>3 DEF Disturbed
<1> QED
  BY <1>4, <1>5

(* A crash and an error of the database are disturbances.                  *)
LEMMA MishapDisturbs ==
  ASSUME OutInv, MishapsFall, NEW k \in {"database", "crash"}, Mishap(k)
  PROVE  Disturbed'
<1>1. /\ mishaps \in [MishapKinds -> Nat] /\ k \in MishapKinds
      /\ Mishaps \in [MishapKinds -> Nat]
  BY BundlerAssumption DEF OutInv, Shape, BundlerTypeOK, MishapKinds
<1>2. mishaps'[k] = mishaps[k] - 1
  BY <1>1 DEF Mishap
<1>3. mishaps'[k] < Mishaps[k]
  BY <1>1, <1>2 DEF MishapsFall
<1> QED
  BY <1>3 DEF Disturbed

-----------------------------------------------------------------------------
(* Where the task is, and what it has in its hands there.                  *)
Places ==
  /\ pc \in {"idle", "refunds", "send"} => draft.order = NoOrder
  /\ pc = "idle" => todo = {}

(* Every step keeps the places.                                            *)
LEMMA PlacesStep ==
  ASSUME OutInv, Places, [OutNext]_outVars
  PROVE  Places'
<1>1. ASSUME UNCHANGED taskVars
      PROVE  Places'
  BY <1>1 DEF Places, taskVars
<1>2. ASSUME TaskStep
      PROVE  Places'
  <2>1. CASE SchedulePayouts \/ ScheduleRefunds \/ ScheduleRefundsFails \/ ScheduleDone
    BY <2>1 DEF SchedulePayouts, ScheduleRefunds, ScheduleRefundsFails, ScheduleDone, Places
  <2>2. CASE StoreBuiltTransfer \/ StoreBuiltTransferFails \/ SwapSubmitted \/ SwapFails
    BY <2>2, NoDraftType
       DEF StoreBuiltTransfer, StoreBuiltTransferFails, SwapSubmitted, SwapFails, Places
  <2>3. CASE SubmitSwap
    BY <2>3 DEF SubmitSwap, Places
  <2>4. ASSUME NEW o \in Orders, BuildTransfer(o) \/ CreateSwap(o)
        PROVE  Places'
    BY <2>4 DEF BuildTransfer, CreateSwap, Places
  <2>5. ASSUME NEW o \in Orders, FindDestination(o) \/ FindDestinationFails(o)
                                 \/ SendUnsupported(o) \/ PrepareFails(o) \/ FeeTakesAll(o)
        PROVE  Places'
    BY <2>5 DEF FindDestination, FindDestinationFails, SendUnsupported, PrepareFails, FeeTakesAll,
         Sends, Places
  <2>6. ASSUME NEW id \in TxIds, HandleResult(id) \/ HandleResultFails(id)
        PROVE  Places'
    BY <1>1, <2>6 DEF HandleResult, HandleResultFails
  <2> QED
    BY <1>2, <2>1, <2>2, <2>3, <2>4, <2>5, <2>6 DEF TaskStep
<1>3. ASSUME NEW id \in TxIds, FutureStep(id)
      PROVE  Places'
  BY <1>1, <1>3 DEF FutureStep, Begin, Submit, SubmitRejected, SubmitAnswerLost,
       Receipt, WatchTimesOut
<1>4. CASE SwapsTrackerStep
  BY <1>1, <1>4 DEF SwapsTrackerStep, GetSubmittedSwaps, HandleSwapExecuted,
       HandleSwapFailed
<1>5. ASSUME NEW s \in SwapIds, CustomerStep(s) \/ ProviderEnds(s) \/ GetOutdatedSwaps(s)
      PROVE  Places'
  BY <1>1, <1>5 DEF CustomerStep, CreateIncomingSwap, CustomerSubmits,
       UpdateSwapSubmitted, ProviderEnds, GetOutdatedSwaps
<1>6. CASE ChainStep
  BY <1>1, <1>6 DEF ChainStep
<1>7. ASSUME NEW o \in Orders, CreateOrder(o) \/ RetryComesDue(o)
      PROVE  Places'
  BY <1>1, <1>7 DEF CreateOrder, RetryComesDue
<1>8. CASE StopAndStart
  BY <1>8, NoDraftType DEF StopAndStart, Places
<1>9. CASE UNCHANGED outVars
  BY <1>1, <1>9 DEF outVars, taskVars
<1> QED
  BY <1>2, <1>3, <1>4, <1>5, <1>6, <1>7, <1>8, <1>9 DEF OutNext

-----------------------------------------------------------------------------
(* No two transactions ever have the same hash.                            *)
OwnHashes ==
  \A id \in TxIds : /\ txs[id].hash \in {OpHash(id), BundleHash(id)}
                    /\ ops[id].bundle = id

(* Then the hash of a bundle is free.                                      *)
LEMMA OwnHashIsFree ==
  ASSUME OwnHashes, NEW id \in TxIds
  PROVE  ~HashTaken(id, BundleHash(ops[id].bundle))
BY DEF OwnHashes, HashTaken, OpHash, BundleHash

(* A bundle of one operation has the hash of that operation.               *)
LEMMA BundleOfOne ==
  ASSUME OutInv, OwnHashes, NEW id \in TxIds, NEW state \in {"executed", "reverted"},
         Bundle({id}, state), UNCHANGED txs
  PROVE  OwnHashes'
<1>1. \A x \in TxIds : ops[x] \in OpRow
  BY DEF OutInv, Shape, BundlerTypeOK, OpRow
<1> DEFINE first == CHOOSE x \in {id} : TRUE
<1>2. first = id
  OBVIOUS
<1>3. ops' = [r \in TxIds |->
                IF r \in {id} THEN [ops[r] EXCEPT !.state = state, !.bundle = first]
                ELSE IF \E x \in {id} : r \in Rivals(x)
                  THEN [ops[r] EXCEPT !.state = "dropped"]
                ELSE ops[r]]
  BY DEF Bundle
<1> HIDE DEF first
<1>4. \A x \in TxIds : \/ x = id /\ ops'[x] = [ops[x] EXCEPT !.state = state, !.bundle = id]
                       \/ ops'[x] = [ops[x] EXCEPT !.state = "dropped"]
                       \/ ops'[x] = ops[x]
  BY <1>2, <1>3
<1>5. \A x \in TxIds : ops'[x].bundle = x
  BY <1>1, <1>4 DEF OwnHashes, OpRow
<1> QED
  BY <1>5 DEF OwnHashes

(* Every step keeps the hashes apart.                                      *)
LEMMA OwnHashesStep ==
  ASSUME BundleSize <= 1, OutInv, OwnHashes, [OutNext]_outVars
  PROVE  OwnHashes'
<1>0. /\ ops \in [TxIds -> OpRow] /\ txs \in [TxIds -> TxRow]
      /\ \A r \in OpRow : /\ r.bundle \in TxIds
                          /\ \A n : [r EXCEPT !.nonce = n].bundle = r.bundle
                          /\ \A st : [r EXCEPT !.state = st].bundle = r.bundle
  BY DEF OutInv, Shape, OrdersTypeOK, BundlerTypeOK, OpRow, TxRow
<1>1. ASSUME UNCHANGED txs, \A x \in TxIds : ops'[x].bundle = ops[x].bundle
      PROVE  OwnHashes'
  BY <1>1 DEF OwnHashes
<1>2. ASSUME UNCHANGED <<txs, ops>>
      PROVE  OwnHashes'
  BY <1>2 DEF OwnHashes
<1>3. ASSUME TaskStep
      PROVE  OwnHashes'
  <2>1. CASE StoreBuiltTransfer
    <3>1. PICK id \in TxIds :
            /\ create_transaction(id, draft.order)
            /\ ops' = [ops EXCEPT ![id].nonce = draft.nonce]
      BY <2>1 DEF StoreBuiltTransfer
    <3>2. \A x \in TxIds : ops'[x].bundle = ops[x].bundle
      BY <1>0, <3>1
    <3>3. \A x \in TxIds : txs'[x].hash = IF x = id THEN OpHash(id) ELSE txs[x].hash
      BY <1>0, <3>1 DEF create_transaction
    <3> QED
      BY <3>2, <3>3 DEF OwnHashes
  <2>2. ASSUME NEW id \in TxIds, HandleResult(id)
        PROVE  OwnHashes'
    <3>1. ops' = ops /\ (Succeeded(id) \/ Erred(id))
      BY <2>2 DEF HandleResult, bundlerVars
    <3>2. \E st \in TransactionStatus, h \in {txs[id].hash, BundleHash(id)} :
            txs' = [txs EXCEPT ![id] = [txs[id] EXCEPT !.status = st, !.hash = h]]
      <4>1. CASE Succeeded(id)
        <5>1. ops[id].bundle = id /\ "Completed" \in TransactionStatus
          BY DEF OwnHashes, TransactionStatus
        <5>2. txs' = [txs EXCEPT ![id].status = "Completed",
                                 ![id].hash = BundleHash(ops[id].bundle)]
          BY <4>1 DEF Succeeded, update_transaction_successful
        <5>3. txs' = [txs EXCEPT ![id] = [txs[id] EXCEPT !.status = "Completed",
                                                         !.hash = BundleHash(id)]]
          BY <5>1, <5>2
        <5> QED
          BY <5>1, <5>3
      <4>2. CASE Erred(id)
        <5>1. txs' = [txs EXCEPT ![id].status = "Failed"] /\ "Failed" \in TransactionStatus
          BY <4>2 DEF Erred, update_transaction_failed, TransactionStatus
        <5>2. [txs[id] EXCEPT !.status = "Failed"] =
                [txs[id] EXCEPT !.status = "Failed", !.hash = txs[id].hash]
          BY <1>0 DEF TxRow
        <5> QED
          BY <5>1, <5>2
      <4> QED
        BY <3>1, <4>1, <4>2
    <3>3. PICK st \in TransactionStatus, h \in {txs[id].hash, BundleHash(id)} :
            txs' = [txs EXCEPT ![id] = [txs[id] EXCEPT !.status = st, !.hash = h]]
      BY <3>2
    <3>4. \A x \in TxIds : txs'[x].hash = IF x = id THEN h ELSE txs[x].hash
      BY <1>0, <3>3 DEF TxRow
    <3> QED
      BY <3>1, <3>3, <3>4 DEF OwnHashes
  <2>3. CASE SchedulePayouts \/ ScheduleRefunds \/ ScheduleRefundsFails \/ ScheduleDone
             \/ StoreBuiltTransferFails \/ SubmitSwap \/ SwapSubmitted \/ SwapFails
    BY <1>2, <2>3 DEF SchedulePayouts, ScheduleRefunds, ScheduleRefundsFails,
         ScheduleDone, StoreBuiltTransferFails, SubmitSwap, SwapSubmitted, SwapFails,
         bundlerVars, ordersVars
  <2>4. ASSUME NEW o \in Orders, FindDestination(o) \/ FindDestinationFails(o)
                                 \/ SendUnsupported(o) \/ PrepareFails(o) \/ FeeTakesAll(o)
                                 \/ BuildTransfer(o) \/ CreateSwap(o)
        PROVE  OwnHashes'
    BY <1>2, <2>4 DEF FindDestination, FindDestinationFails, SendUnsupported,
         PrepareFails, FeeTakesAll, BuildTransfer, CreateSwap, bundlerVars, ordersVars
  <2>5. ASSUME NEW id \in TxIds, HandleResultFails(id)
        PROVE  OwnHashes'
    BY <1>2, <2>5 DEF HandleResultFails, ordersVars
  <2> QED
    BY <1>3, <2>1, <2>2, <2>3, <2>4, <2>5 DEF TaskStep
<1>4. ASSUME NEW id \in TxIds, FutureStep(id)
      PROVE  OwnHashes'
  <2>1. CASE Submit(id) \/ SubmitAnswerLost(id)
    <3>1. ops' = [r \in TxIds |->
                    IF r = id THEN [ops[r] EXCEPT !.state = "pending"]
                    ELSE IF r \in Rivals(id) THEN [ops[r] EXCEPT !.state = "dropped"]
                    ELSE ops[r]]
      BY <2>1 DEF Submit, SubmitAnswerLost, TakeOperation
    <3>2. \A x \in TxIds : ops'[x].bundle = ops[x].bundle
      BY <1>0, <3>1
    <3> QED
      BY <1>1, <2>1, <3>2 DEF Submit, SubmitAnswerLost, ordersVars
  <2>2. CASE SubmitRejected(id)
    <3>1. \A x \in TxIds : ops'[x].bundle = ops[x].bundle
      BY <1>0, <2>2 DEF SubmitRejected
    <3> QED
      BY <1>1, <2>2, <3>1 DEF SubmitRejected, ordersVars
  <2> QED
    BY <1>2, <1>4, <2>1, <2>2 DEF FutureStep, Begin, Receipt, WatchTimesOut,
         ordersVars, bundlerVars
<1>5. CASE SwapsTrackerStep
  BY <1>2, <1>5 DEF SwapsTrackerStep, GetSubmittedSwaps, HandleSwapExecuted,
       HandleSwapFailed, bundlerVars
<1>6. ASSUME NEW s \in SwapIds, CustomerStep(s) \/ ProviderEnds(s) \/ GetOutdatedSwaps(s)
      PROVE  OwnHashes'
  BY <1>2, <1>6 DEF CustomerStep, CreateIncomingSwap, CustomerSubmits,
       UpdateSwapSubmitted, ProviderEnds, GetOutdatedSwaps, bundlerVars, ordersVars
<1>7. CASE ChainStep
  <2>1. txs' = txs
    BY <1>7 DEF ChainStep, ordersVars
  <2>2. ASSUME NEW S \in SUBSET TxIds, ExecuteBundle(S)
        PROVE  OwnHashes'
    <3>0. IsFiniteSet(S) /\ Cardinality(S) \in Nat
      BY FS_Subset, FS_CardinalityType, OrdersAssumption
    <3>a. Cardinality(S) <= BundleSize /\ S # {}
      BY <2>2 DEF ExecuteBundle, Bundle
    <3>b. BundleSize \in Nat /\ BundleSize <= 1
      BY BundlerAssumption
    <3>1. IsFiniteSet(S) /\ Cardinality(S) \in 0 .. 1 /\ S # {}
      BY ONLY <3>0, <3>a, <3>b
    <3>2. Cardinality(S) # 0
      BY <3>1, FS_EmptySet
    <3>3. Cardinality(S) = 1
      BY <3>1, <3>2
    <3>4. PICK id : S = {id}
      BY <3>1, <3>3, FS_Singleton
    <3> QED
      BY <2>1, <2>2, <3>4, BundleOfOne DEF ExecuteBundle
  <2>3. ASSUME NEW id \in TxIds, RevertOperation(id)
        PROVE  OwnHashes'
    BY <2>1, <2>3, BundleOfOne DEF RevertOperation
  <2> QED
    BY <1>7, <2>2, <2>3 DEF ChainStep
<1>8. ASSUME NEW o \in Orders, CreateOrder(o) \/ RetryComesDue(o)
      PROVE  OwnHashes'
  BY <1>2, <1>8 DEF CreateOrder, RetryComesDue, bundlerVars
<1>9. CASE StopAndStart \/ UNCHANGED outVars
  BY <1>2, <1>9 DEF StopAndStart, ordersVars, outVars
<1> QED
  BY <1>3, <1>4, <1>5, <1>6, <1>7, <1>8, <1>9 DEF OutNext

-----------------------------------------------------------------------------
(* Who cares for an order: the task, a future or the swaps tracker.        *)
Flying(o) == \E id \in TxIds : futures[id] # "none" /\ txs[id].order = o

Swapping(o) ==
  \E s \in SwapIds : /\ swaps[s].order = o
                     /\ \/ swaps[s].status = "Submitted"
                        \/ swaps[s].status = "Pending" /\ s \in watched

Cared(o) == o \in todo \/ draft.order = o \/ Flying(o) \/ Swapping(o)

(* The order is no longer InProgress, or something has happened that       *)
(* excuses it; the other orders are as they were.                          *)
Released(o) ==
  \/ Disturbed'
  \/ /\ order'[o].status # "InProgress"
     /\ \A p \in Orders \ {o} : order'[p] = order[p]

(* What becomes of the status of one order.                                *)
LEMMA StatusWritten ==
  ASSUME OutInv, NEW o \in Orders, NEW status \in TransferStatus,
         \/ order' = [order EXCEPT ![o].status = status]
         \/ order' = [order EXCEPT ![o].status = status, ![o].due = FALSE]
  PROVE  /\ order'[o].status = status
         /\ \A p \in Orders \ {o} : order'[p] = order[p]
<1>1. order \in [Orders -> OrderRow]
  BY DEF OutInv, Shape, OrdersTypeOK, OrderRow
<1>2. \/ order'[o] = [order[o] EXCEPT !.status = status]
      \/ order'[o] = [order[o] EXCEPT !.status = status, !.due = FALSE]
  BY <1>1
<1>3. order[o] \in OrderRow
  BY <1>1
<1>4. order'[o].status = status
  BY <1>2, <1>3 DEF OrderRow
<1> QED
  BY <1>1, <1>4

(* Giving up and postponing release an order.                              *)
LEMMA ReleasedBy ==
  ASSUME OutInv, MishapsFall, NEW o \in Orders,
         GiveUp(o) \/ Postpone(o) \/ TryAgain(o)
  PROVE  Released(o)
<1>1. CASE Mishap("database")
  BY <1>1, MishapDisturbs DEF Released
<1>2. ASSUME NEW retriable \in BOOLEAN, update_retry(o, retriable)
      PROVE  Released(o)
  <2>1. /\ RetryStatus(retriable) \in {"FailedRetriable", "Failed"}
        /\ RetryStatus(retriable) \in TransferStatus
    BY DEF RetryStatus, TransferStatus
  <2>2. order' = [order EXCEPT ![o].status = RetryStatus(retriable), ![o].due = FALSE]
    BY <1>2 DEF update_retry
  <2> QED
    BY <2>1, <2>2, StatusWritten DEF Released
<1> QED
  BY <1>1, <1>2 DEF GiveUp, Postpone, TryAgain

(* What becomes of one swap.                                               *)
LEMMA SwapWritten ==
  ASSUME OutInv, NEW s \in SwapIds, NEW status, update_swap(s, status)
  PROVE  /\ swaps'[s].order = swaps[s].order
         /\ swaps'[s].status = status
         /\ \A t \in SwapIds \ {s} : swaps'[t] = swaps[t]
<1>1. swaps \in [SwapIds -> SwapRow]
  BY DEF OutInv, Shape, OrdersTypeOK, SwapRow
<1>2. swaps[s] \in SwapRow
  BY <1>1
<1>3. swaps'[s] = [swaps[s] EXCEPT !.status = status]
  BY <1>1 DEF update_swap
<1>4. swaps'[s].order = swaps[s].order /\ swaps'[s].status = status
  BY <1>2, <1>3 DEF SwapRow
<1> QED
  BY <1>1, <1>4 DEF update_swap

(* The invariant behind NobodyWaitsInVain.                                 *)
CareInv ==
  /\ MishapsFall
  /\ Places
  /\ OwnHashes
  /\ Disturbed \/ \A o \in Orders : order[o].status = "InProgress" => Cared(o)

(* One order, over a step that is not a disturbance: the steps of the task.*)
LEMMA TaskCares ==
  ASSUME OutInv, CareInv, ~Disturbed, ~Disturbed', TaskStep, UNCHANGED watched,
         NEW o \in Orders, order'[o].status = "InProgress"
  PROVE  Cared(o)'
<1>0. /\ MishapsFall /\ Places /\ OwnHashes /\ o # NoOrder
      /\ order[o].status = "InProgress" => Cared(o)
      /\ NoDraft.order = NoOrder
  BY OrdersAssumption, NoDraftType DEF CareInv
<1>1. ASSUME order[o].status = "InProgress", o \in todo => Cared(o)',
             draft.order = o => Cared(o)',
             \A id \in TxIds : futures[id] # "none" /\ txs[id].order = o
               => futures'[id] # "none" /\ txs'[id].order = o,
             \A s \in SwapIds :
               swaps[s].order = o /\ swaps[s].status \in {"Submitted", "Pending"}
                 => swaps'[s] = swaps[s]
      PROVE  Cared(o)'
  <2>1. Flying(o) => Flying(o)'
    BY <1>1 DEF Flying
  <2>2. Swapping(o) => Swapping(o)'
    BY <1>1 DEF Swapping
  <2> QED
    BY <1>0, <1>1, <2>1, <2>2 DEF Cared
<1>2. ASSUME UNCHANGED <<txs, swaps, futures>>,
             order[o].status = "InProgress", o \in todo => Cared(o)',
             draft.order = o => Cared(o)'
      PROVE  Cared(o)'
  BY <1>1, <1>2
<1>3. CASE SchedulePayouts \/ ScheduleRefunds
  <2>1. PICK claimed \in SUBSET Orders :
          /\ MarkInProgress(claimed)
          /\ todo' = todo \cup claimed
          /\ UNCHANGED <<txs, swaps, futures, draft>>
    <3>1. CASE SchedulePayouts
      <4>1. todo = {}
        BY <1>0, <3>1 DEF SchedulePayouts, Places
      <4>2. Oldest(Pending("payout"), Limit - Cardinality(InFlight)) \subseteq Orders
        BY DEF Oldest, Pending
      <4> QED
        BY <3>1, <4>1, <4>2 DEF SchedulePayouts
    <3>2. CASE ScheduleRefunds
      <4>1. Oldest(Pending("refund"), room) \subseteq Orders
        BY DEF Oldest, Pending
      <4> QED
        BY <3>2, <4>1 DEF ScheduleRefunds
    <3> QED
      BY <1>3, <3>1, <3>2
  <2>2. CASE o \in claimed
    BY <2>1, <2>2 DEF Cared
  <2>3. CASE o \notin claimed
    BY <1>2, <2>1, <2>3 DEF MarkInProgress, Cared
  <2> QED
    BY <2>2, <2>3
<1>4. CASE ScheduleRefundsFails
  BY <1>0, <1>4, MishapDisturbs DEF ScheduleRefundsFails
<1>5. CASE ScheduleDone \/ SubmitSwap
  BY <1>2, <1>5 DEF ScheduleDone, SubmitSwap, ordersVars, Cared
<1>6. ASSUME NEW p \in Orders, Released(p), todo' = todo \ {p}, draft' = draft,
             UNCHANGED <<txs, swaps, futures>>
      PROVE  Cared(o)'
  <2>1. o # p /\ order'[o] = order[o]
    BY <1>6 DEF Released
  <2> QED
    BY <1>2, <1>6, <2>1 DEF Cared
<1>7. ASSUME NEW p \in Orders, FindDestination(p) \/ FindDestinationFails(p)
                               \/ SendUnsupported(p) \/ PrepareFails(p) \/ FeeTakesAll(p)
      PROVE  Cared(o)'
  <2>0. UNCHANGED <<txs, swaps, futures, draft>>
    BY <1>7 DEF FindDestination, FindDestinationFails, SendUnsupported, PrepareFails, FeeTakesAll
  <2>1. CASE (GiveUp(p) \/ Postpone(p) \/ TryAgain(p)) /\ todo' = todo \ {p}
    BY <1>0, <1>6, <2>0, <2>1, ReleasedBy
  <2>2. CASE order' = [order EXCEPT ![p].dest = TRUE] /\ todo' = todo
    <3>1. order \in [Orders -> OrderRow]
      BY DEF OutInv, Shape, OrdersTypeOK, OrderRow
    <3>2. order'[o] = order[o] \/ order'[o] = [order[o] EXCEPT !.dest = TRUE]
      BY <2>2, <3>1
    <3>3. order'[o].status = order[o].status
      BY <3>1, <3>2 DEF OrderRow
    <3> QED
      BY <1>2, <2>0, <2>2, <3>3 DEF Cared
  <2> QED
    BY <1>7, <2>1, <2>2
       DEF FindDestination, FindDestinationFails, SendUnsupported, PrepareFails, FeeTakesAll, Sends
<1>8. ASSUME NEW p \in Orders, BuildTransfer(p) \/ CreateSwap(p)
      PROVE  Cared(o)'
  <2>1. /\ todo' = todo \ {p} /\ draft'.order = p /\ draft.order = NoOrder
        /\ UNCHANGED <<order, txs, futures>>
    BY <1>0, <1>8 DEF BuildTransfer, CreateSwap, Sends, Places, ordersVars
  <2>2. \A s \in SwapIds : swaps[s].status # Absent => swaps'[s] = swaps[s]
    BY <1>8 DEF BuildTransfer, CreateSwap, create_swap, ordersVars, OutInv, Shape,
         OrdersTypeOK
  <2>3. CASE o = p
    BY <2>1, <2>3 DEF Cared
  <2>4. CASE o # p
    BY <1>0, <1>1, <2>1, <2>2, <2>4 DEF Cared, Absent
  <2> QED
    BY <2>3, <2>4
<1>9. CASE StoreBuiltTransfer
  <2>1. PICK id \in TxIds :
          /\ create_transaction(id, draft.order)
          /\ futures' = [futures EXCEPT ![id] = "new"]
    BY <1>9 DEF StoreBuiltTransfer
  <2>2. UNCHANGED <<order, swaps, todo>>
    BY <1>9 DEF StoreBuiltTransfer
  <2>3. futures \in [TxIds -> FuturePhase \cup {"none"}] /\ txs \in [TxIds -> TxRow]
    BY DEF OutInv, Shape, OrdersTypeOK, TxRow
  <2>4. /\ futures'[id] = "new" /\ txs'[id].order = draft.order
        /\ \A x \in TxIds \ {id} : futures'[x] = futures[x] /\ txs'[x] = txs[x]
    BY <2>1, <2>3 DEF create_transaction
  <2>5. futures[id] = "none"
    BY <2>1 DEF create_transaction, OutInv, FuturesAreTrue, Absent
  <2>6. CASE draft.order = o
    BY <2>4, <2>6 DEF Cared, Flying
  <2>7. CASE draft.order # o
    BY <1>1, <2>2, <2>4, <2>5, <2>7 DEF Cared
  <2> QED
    BY <2>6, <2>7
<1>10. CASE StoreBuiltTransferFails \/ SwapFails
  <2>1. /\ draft.order \in Orders /\ Postpone(draft.order)
        /\ UNCHANGED <<txs, swaps, todo, futures>>
    BY <1>10 DEF StoreBuiltTransferFails, SwapFails, OutInv, HandsAreClean, Fits
  <2>2. o # draft.order /\ order'[o] = order[o]
    BY <1>0, <2>1, ReleasedBy DEF Released
  <2> QED
    BY <1>2, <2>1, <2>2 DEF Cared
<1>11. CASE SwapSubmitted
  <2>1. /\ draft.swap \in SwapIds /\ swaps[draft.swap].order = draft.order
        /\ swaps[draft.swap].status \in {"Created", "Abandoned"}
        /\ update_swap(draft.swap, "Submitted")
        /\ UNCHANGED <<order, txs, todo, futures>>
    BY <1>11 DEF SwapSubmitted, OutInv, HandsAreClean
  <2>2. /\ swaps'[draft.swap].order = draft.order
        /\ swaps'[draft.swap].status = "Submitted"
        /\ \A t \in SwapIds \ {draft.swap} : swaps'[t] = swaps[t]
    BY <2>1, SwapWritten
  <2>3. CASE draft.order = o
    BY <2>1, <2>2, <2>3 DEF Cared, Swapping
  <2>4. CASE draft.order # o
    BY <1>1, <2>1, <2>2, <2>4 DEF Cared
  <2> QED
    BY <2>3, <2>4
<1>12. ASSUME NEW id \in TxIds, HandleResult(id)
       PROVE  Cared(o)'
  <2>1. /\ UNCHANGED <<swaps, todo, draft>>
        /\ Succeeded(id) \/ Erred(id)
        /\ futures' = [futures EXCEPT ![id] = "none"]
        /\ futures[id] # "none"
    BY <1>12 DEF HandleResult, Succeeded, Erred, taskVars
  <2>2. txs[id].order \in Orders
    <3>1. txs[id].status = "InProgress"
      BY <2>1 DEF OutInv, FuturesAreTrue
    <3> QED
      BY <3>1 DEF OutInv, AttemptsFit, Fits, Absent
  <2>3. PICK status \in {"Completed", "FailedRetriable"} :
          \/ order' = [order EXCEPT ![txs[id].order].status = status]
          \/ order' = [order EXCEPT ![txs[id].order].status = status,
                                    ![txs[id].order].due = FALSE]
    BY <2>1 DEF Succeeded, Erred, update_status, update_retry, RetryStatus
  <2>4. txs[id].order # o /\ order'[o] = order[o]
    BY <2>2, <2>3, StatusWritten DEF TransferStatus
  <2>5. \A x \in TxIds \ {id} : txs'[x] = txs[x] /\ futures'[x] = futures[x]
    BY <2>1 DEF Succeeded, Erred, update_transaction_successful,
         update_transaction_failed, OutInv, Shape, OrdersTypeOK
  <2> QED
    BY <1>1, <2>1, <2>4, <2>5 DEF Cared
<1>13. ASSUME NEW id \in TxIds, HandleResultFails(id)
       PROVE  Cared(o)'
  BY <1>0, <1>13, OwnHashIsFree, MishapDisturbs DEF HandleResultFails
<1> QED
  BY <1>3, <1>4, <1>5, <1>7, <1>8, <1>9, <1>10, <1>11, <1>12, <1>13 DEF TaskStep

(* The same for the other steps.                                           *)
LEMMA OthersCare ==
  ASSUME OutInv, CareInv, ~Disturbed, ~Disturbed', [OutNext]_outVars,
         ~(TaskStep /\ UNCHANGED watched),
         NEW o \in Orders, order'[o].status = "InProgress"
  PROVE  Cared(o)'
<1>0. /\ MishapsFall /\ o # NoOrder
      /\ order[o].status = "InProgress" => Cared(o)
  BY OrdersAssumption DEF CareInv
<1>1. ASSUME order[o].status = "InProgress", UNCHANGED <<txs, todo, draft>>,
             \A id \in TxIds : futures[id] # "none" => futures'[id] # "none",
             \A s \in SwapIds :
               swaps[s].order = o /\ swaps[s].status \in {"Submitted", "Pending"}
                 => swaps'[s] = swaps[s] /\ (s \in watched => s \in watched')
      PROVE  Cared(o)'
  <2>1. Flying(o) => Flying(o)'
    BY <1>1 DEF Flying
  <2>2. Swapping(o) => Swapping(o)'
    BY <1>1 DEF Swapping
  <2> QED
    BY <1>0, <1>1, <2>1, <2>2 DEF Cared
<1>2. ASSUME NEW id \in TxIds, FutureStep(id), UNCHANGED watched
      PROVE  Cared(o)'
  <2>1. /\ UNCHANGED <<order, txs, swaps, todo, draft>>
        /\ \E phase \in FuturePhase : futures' = [futures EXCEPT ![id] = phase]
    BY <1>2 DEF FutureStep, Begin, Submit, SubmitRejected, SubmitAnswerLost, Receipt,
         WatchTimesOut, ordersVars, taskVars, FuturePhase
  <2>2. "none" \notin FuturePhase
    BY DEF FuturePhase
  <2>3. \A x \in TxIds : futures[x] # "none" => futures'[x] # "none"
    BY <2>1, <2>2 DEF OutInv, Shape
  <2> QED
    BY <1>1, <1>2, <2>1, <2>3
<1>3. CASE GetSubmittedSwaps
  <2>1. /\ UNCHANGED <<order, txs, todo, draft, futures>>
        /\ watched' = watched \cup WithStatus("Submitted")
        /\ swaps' = [s \in SwapIds |->
                       IF s \in WithStatus("Submitted")
                         THEN [swaps[s] EXCEPT !.status = "Pending"] ELSE swaps[s]]
    BY <1>3 DEF GetSubmittedSwaps, taskVars
  <2>2. \A s \in SwapIds : swaps[s] \in SwapRow
    BY DEF OutInv, Shape, OrdersTypeOK, SwapRow
  <2>3. \A s \in SwapIds :
          /\ swaps'[s].order = swaps[s].order
          /\ swaps[s].status = "Submitted" => swaps'[s].status = "Pending" /\ s \in watched'
          /\ swaps[s].status # "Submitted" => swaps'[s] = swaps[s]
    BY <2>1, <2>2 DEF WithStatus, SwapRow
  <2>4. Swapping(o) => Swapping(o)'
    BY <2>1, <2>3 DEF Swapping
  <2>5. Flying(o) => Flying(o)'
    BY <2>1 DEF Flying
  <2> QED
    BY <1>0, <2>1, <2>4, <2>5 DEF Cared
<1>4. ASSUME NEW s \in SwapIds, HandleSwapExecuted(s) \/ HandleSwapFailed(s)
      PROVE  Cared(o)'
  <2>1. PICK end \in {"Completed", "Failed"} :
          /\ s \in watched /\ watched' = watched \ {s} /\ update_swap(s, end)
          /\ UNCHANGED <<txs, todo, draft, futures>>
          /\ IF swaps[s].order = NoOrder THEN UNCHANGED order
             ELSE \/ update_status(swaps[s].order, "Completed")
                  \/ update_retry(swaps[s].order, TRUE)
    BY <1>4 DEF HandleSwapExecuted, HandleSwapFailed, taskVars
  <2>2. \A t \in SwapIds \ {s} : swaps'[t] = swaps[t]
    BY <2>1, SwapWritten
  <2>3. swaps[s].order # o /\ order'[o] = order[o]
    <3>1. CASE swaps[s].order = NoOrder
      BY <1>0, <2>1, <3>1
    <3>2. CASE swaps[s].order # NoOrder
      <4>1. swaps[s].order \in Orders
        BY <3>2 DEF OutInv, AttemptsFit, Fits
      <4>2. PICK status \in {"Completed", "FailedRetriable"} :
              \/ order' = [order EXCEPT ![swaps[s].order].status = status]
              \/ order' = [order EXCEPT ![swaps[s].order].status = status,
                                        ![swaps[s].order].due = FALSE]
        BY <2>1, <3>2 DEF update_status, update_retry, RetryStatus
      <4> QED
        BY <4>1, <4>2, StatusWritten DEF TransferStatus
    <3> QED
      BY <3>1, <3>2
  <2> QED
    BY <1>1, <2>1, <2>2, <2>3
<1>5. ASSUME NEW s \in SwapIds, CustomerStep(s) \/ ProviderEnds(s) \/ GetOutdatedSwaps(s)
      PROVE  Cared(o)'
  <2>1. UNCHANGED <<order, txs, todo, draft, futures, watched>>
    BY <1>5 DEF CustomerStep, CreateIncomingSwap, CustomerSubmits, UpdateSwapSubmitted,
         ProviderEnds, GetOutdatedSwaps, ordersVars, taskVars
  <2>2. CASE CustomerSubmits(s) \/ ProviderEnds(s)
    BY <1>1, <2>1, <2>2 DEF CustomerSubmits, ProviderEnds, ordersVars
  <2>3. CASE CreateIncomingSwap(s)
    <3>1. \A t \in SwapIds : swaps[t].status # Absent => swaps'[t] = swaps[t]
      BY <2>3 DEF CreateIncomingSwap, create_swap, OutInv, Shape, OrdersTypeOK
    <3> QED
      BY <1>1, <2>1, <3>1 DEF Absent
  <2>4. CASE UpdateSwapSubmitted(s)
    <3>1. swaps[s].order # o /\ update_swap(s, "Submitted")
      BY <1>0, <2>4 DEF UpdateSwapSubmitted, OutInv, AttemptsFit
    <3>2. \A t \in SwapIds \ {s} : swaps'[t] = swaps[t]
      BY <3>1, SwapWritten
    <3> QED
      BY <1>1, <2>1, <3>1, <3>2
  <2>5. CASE GetOutdatedSwaps(s)
    <3>1. swaps[s].status = "Created" /\ update_swap(s, "Abandoned")
      BY <2>5 DEF GetOutdatedSwaps
    <3>2. \A t \in SwapIds \ {s} : swaps'[t] = swaps[t]
      BY <3>1, SwapWritten
    <3> QED
      BY <1>1, <2>1, <3>1, <3>2
  <2> QED
    BY <1>5, <2>2, <2>3, <2>4, <2>5 DEF CustomerStep
<1>6. CASE ChainStep
  BY <1>1, <1>6 DEF ChainStep, ordersVars, taskVars
<1>7. ASSUME NEW p \in Orders, CreateOrder(p) \/ RetryComesDue(p)
      PROVE  Cared(o)'
  <2>1. UNCHANGED <<txs, swaps, todo, draft, futures, watched>>
    BY <1>7 DEF CreateOrder, RetryComesDue, taskVars
  <2>2. order'[o].status = "InProgress" => order[o].status = "InProgress"
    <3>1. order \in [Orders -> OrderRow]
      BY DEF OutInv, Shape, OrdersTypeOK, OrderRow
    <3>2. CASE CreateOrder(p)
      BY <3>1, <3>2, StatusWritten DEF CreateOrder, create_order, TransferStatus
    <3>3. CASE RetryComesDue(p)
      <4>1. order'[o] = order[o] \/ order'[o] = [order[o] EXCEPT !.due = TRUE]
        BY <3>1, <3>3 DEF RetryComesDue
      <4> QED
        BY <3>1, <4>1 DEF OrderRow
    <3> QED
      BY <1>7, <3>2, <3>3
  <2> QED
    BY <1>1, <2>1, <2>2
<1>8. CASE StopAndStart
  BY <1>0, <1>8, MishapDisturbs DEF StopAndStart
<1>9. CASE UNCHANGED outVars
  BY <1>1, <1>9 DEF outVars
<1> QED
  BY <1>2, <1>3, <1>4, <1>5, <1>6, <1>7, <1>8, <1>9 DEF OutNext, SwapsTrackerStep

(* The invariant of the care is inductive.                                 *)
LEMMA CareStep ==
  ASSUME BundleSize <= 1, OutInv, CareInv, [OutNext]_outVars
  PROVE  CareInv'
<1>1. MishapsFall' /\ (Disturbed => Disturbed')
  BY MishapStep DEF CareInv
<1>2. Places' /\ OwnHashes'
  BY PlacesStep, OwnHashesStep DEF CareInv
<1>3. ASSUME ~Disturbed', NEW o \in Orders, order'[o].status = "InProgress"
      PROVE  Cared(o)'
  <2>1. ~Disturbed
    BY <1>1, <1>3
  <2>2. CASE TaskStep /\ UNCHANGED watched
    BY <1>3, <2>1, <2>2, TaskCares
  <2>3. CASE ~(TaskStep /\ UNCHANGED watched)
    BY <1>3, <2>1, <2>3, OthersCare
  <2> QED
    BY <2>2, <2>3
<1> QED
  BY <1>1, <1>2, <1>3 DEF CareInv

(* Where every bundle is of one operation, no order is InProgress with     *)
(* nobody at work on it: it is scheduled, in hand, in flight, or a swap    *)
(* that the tracker knows of, unless the disk failed or the daemon was     *)
(* stopped in the meantime.                                                *)
THEOREM NobodyWaitsInVainAlways ==
  ASSUME BundleSize <= 1
  PROVE  OutSpec => []NobodyWaitsInVain
<1>1. OutInit => CareInv
  BY BundlerAssumption
     DEF OutInit, OrdersInit, BundlerInit, ExecutorInit, CareInv, MishapsFall, Places,
         OwnHashes, Absent, Disturbed, NoDraft
<1>2. OutInv /\ CareInv /\ [OutNext]_outVars => CareInv'
  BY CareStep
<1>3. CareInv => NobodyWaitsInVain
  BY DEF CareInv, NobodyWaitsInVain, Cared, Flying, Swapping, InFlight
<1> QED
  BY <1>1, <1>2, <1>3, Invariance, PTL DEF OutSpec

-----------------------------------------------------------------------------
(* The limit.                                                              *)

(* LIMIT n takes at most n of the rows: their ranks are different and      *)
(* below n.                                                                *)
LEMMA OldestAreFew ==
  ASSUME NEW S, S \subseteq Orders, NEW n \in Nat
  PROVE  /\ IsFiniteSet(Oldest(S, n))
         /\ Cardinality(Oldest(S, n)) \in 0 .. n
<1> DEFINE Older(o) == {p \in S : Age[p] < Age[o]}
           rank == [o \in Oldest(S, n) |-> Cardinality(Older(o))]
<1>1. IsFiniteSet(S)
  BY FS_Subset, OrdersAssumption
<1>2. Oldest(S, n) \subseteq S
  BY DEF Oldest
<1>3. IsFiniteSet(Oldest(S, n)) /\ Cardinality(Oldest(S, n)) \in Nat
  BY <1>1, <1>2, FS_Subset, FS_CardinalityType
<1>4. \A o \in S : IsFiniteSet(Older(o)) /\ Cardinality(Older(o)) \in Nat
  <2> SUFFICES ASSUME NEW o \in S
               PROVE  IsFiniteSet(Older(o)) /\ Cardinality(Older(o)) \in Nat
    OBVIOUS
  <2>1. Older(o) \in SUBSET S
    OBVIOUS
  <2> HIDE DEF Older
  <2> QED
    BY <1>1, <2>1, FS_Subset, FS_CardinalityType
<1>5. ASSUME NEW o \in S, NEW p \in S, Age[o] < Age[p]
      PROVE  Cardinality(Older(o)) # Cardinality(Older(p))
  <2>1. Older(o) \in SUBSET Older(p)
    BY <1>5, OrdersAssumption
  <2>2. o \in Older(p) /\ o \notin Older(o)
    BY <1>5, OrdersAssumption
  <2> HIDE DEF Older
  <2> QED
    BY <1>4, <2>1, <2>2, FS_Subset
<1>6. \A o \in Oldest(S, n) : Cardinality(Older(o)) \in 0 .. n - 1
  <2>1. \A o \in Oldest(S, n) : Cardinality(Older(o)) < n
    BY DEF Oldest
  <2> HIDE DEF Older
  <2> QED
    BY <1>2, <1>4, <2>1
<1>7. \A o, p \in Oldest(S, n) : o # p => Cardinality(Older(o)) # Cardinality(Older(p))
  <2> SUFFICES ASSUME NEW o \in Oldest(S, n), NEW p \in Oldest(S, n), o # p
               PROVE  Cardinality(Older(o)) # Cardinality(Older(p))
    OBVIOUS
  <2>1. Age[o] < Age[p] \/ Age[p] < Age[o]
    BY <1>2, OrdersAssumption
  <2> HIDE DEF Older
  <2> QED
    BY <1>2, <1>5, <2>1
<1>8. rank \in Injection(Oldest(S, n), 0 .. n - 1)
  <2> HIDE DEF Older
  <2> QED
    BY <1>6, <1>7 DEF Injection, IsInjective
<1>9. IsFiniteSet(0 .. n - 1) /\ Cardinality(0 .. n - 1) = n
  BY FS_Interval
<1>10. Cardinality(Oldest(S, n)) <= Cardinality(0 .. n - 1)
  <2> HIDE DEF rank
  <2> QED
    BY <1>8, <1>9, FS_Injection
<1> QED
  BY <1>3, <1>9, <1>10

(* What the task may still take on: the refunds of this round, or the      *)
(* transaction that is about to be stored.                                 *)
Reserved ==
  CASE pc = "refunds" -> room
    [] pc = "store" -> 1
    [] OTHER -> 0

LimitInv ==
  /\ pc = "refunds" => room \in Nat
  /\ Cardinality(InFlight) + Cardinality(todo) + Reserved <= Limit

(* How many there are, before and after a step.                            *)
LEMMA Counts ==
  /\ OutInv => /\ IsFiniteSet(InFlight) /\ Cardinality(InFlight) \in Nat
               /\ IsFiniteSet(todo) /\ Cardinality(todo) \in Nat
  /\ OutInv' => /\ IsFiniteSet(InFlight') /\ Cardinality(InFlight') \in Nat
                /\ IsFiniteSet(todo') /\ Cardinality(todo') \in Nat
<1>1. OutInv => InFlight \in SUBSET TxIds /\ todo \in SUBSET Orders
  BY DEF InFlight, OutInv, Shape
<1>2. OutInv' => InFlight' \in SUBSET TxIds /\ todo' \in SUBSET Orders
  BY DEF InFlight, OutInv, Shape
<1> QED
  BY <1>1, <1>2, OrdersAssumption, FS_Subset, FS_CardinalityType

(* A step that takes on nothing keeps within the limit.                    *)
LEMMA LimitKept ==
  ASSUME OutInv, OutInv', LimitInv, InFlight' \subseteq InFlight, todo' \subseteq todo,
         pc' # "refunds" \/ (pc = "refunds" /\ room' = room), pc' = "store" => pc = "store"
  PROVE  LimitInv'
<1>1. /\ Cardinality(InFlight) \in Nat /\ Cardinality(InFlight') \in Nat
      /\ Cardinality(todo) \in Nat /\ Cardinality(todo') \in Nat
  BY Counts
<1>2. Cardinality(InFlight') <= Cardinality(InFlight) /\ Cardinality(todo') <= Cardinality(todo)
  BY Counts, FS_Subset
<1>3. Reserved \in Nat /\ Reserved' \in Nat /\ Reserved' <= Reserved
  BY DEF LimitInv, Reserved
<1>4. Cardinality(InFlight) + Cardinality(todo) + Reserved <= Limit
  BY DEF LimitInv
<1>5. Cardinality(InFlight') + Cardinality(todo') + Reserved' <= Limit
  BY ONLY <1>1, <1>2, <1>3, <1>4, LimitAssumption
<1> QED
  BY <1>5 DEF LimitInv

(* Every step keeps within the limit.                                      *)
LEMMA LimitStep ==
  ASSUME OutInv, OutInv', LimitInv, [OutNext]_outVars
  PROVE  LimitInv'
<1>0. /\ IsFiniteSet(InFlight) /\ Cardinality(InFlight) \in Nat
      /\ IsFiniteSet(todo) /\ Cardinality(todo) \in Nat
      /\ Cardinality(InFlight') \in Nat /\ Cardinality(todo') \in Nat
      /\ Limit \in Nat /\ Reserved \in Nat
      /\ Cardinality(InFlight) + Cardinality(todo) + Reserved <= Limit
  BY Counts, LimitAssumption DEF LimitInv, Reserved
<1>1. CASE SchedulePayouts
  <2> DEFINE free == Limit - Cardinality(InFlight)
             claimed == Oldest(Pending("payout"), free)
  <2>1. /\ free > 0 /\ todo' = claimed /\ room' = free - Cardinality(claimed)
        /\ pc' = "refunds" /\ InFlight' = InFlight
    BY <1>1 DEF SchedulePayouts, InFlight
  <2>2. free \in Nat /\ free + Cardinality(InFlight) = Limit
    BY <1>0, <2>1
  <2>3. Cardinality(claimed) \in 0 .. free
    <3> HIDE DEF free
    <3> QED
      BY <2>2, OldestAreFew DEF Pending
  <2> HIDE DEF free, claimed
  <2>4. room' \in Nat
    BY <2>1, <2>2, <2>3
  <2>5. Reserved' = room' /\ Cardinality(InFlight') = Cardinality(InFlight)
        /\ Cardinality(todo') = Cardinality(claimed)
    BY <2>1 DEF Reserved
  <2>6. Cardinality(InFlight') + Cardinality(todo') + Reserved' = Limit
    BY <1>0, <2>1, <2>2, <2>3, <2>5
  <2> QED
    BY <1>0, <2>4, <2>6 DEF LimitInv
<1>2. CASE ScheduleRefunds
  <2> DEFINE claimed == Oldest(Pending("refund"), room)
  <2>1. /\ pc = "refunds" /\ todo' = todo \cup claimed
        /\ pc' = "send" /\ InFlight' = InFlight
    BY <1>2 DEF ScheduleRefunds, InFlight
  <2>2. room \in Nat /\ Reserved = room
    BY <2>1 DEF LimitInv, Reserved
  <2>3. IsFiniteSet(claimed) /\ Cardinality(claimed) \in 0 .. room
    BY <2>2, OldestAreFew DEF Pending
  <2> HIDE DEF claimed
  <2>4. /\ Cardinality(todo \cap claimed) \in Nat
        /\ Cardinality(todo \cup claimed)
             = Cardinality(todo) + Cardinality(claimed) - Cardinality(todo \cap claimed)
    BY <1>0, <2>3, FS_Union, FS_Intersection, FS_CardinalityType
  <2>5. Reserved' = 0 /\ Cardinality(InFlight') = Cardinality(InFlight)
        /\ Cardinality(todo') = Cardinality(todo \cup claimed)
    BY <2>1 DEF Reserved
  <2>6. Cardinality(InFlight') + Cardinality(todo') + Reserved' <= Limit
    BY <1>0, <2>2, <2>3, <2>4, <2>5
  <2> QED
    BY <2>1, <2>6 DEF LimitInv
<1>3. ASSUME NEW o \in Orders, BuildTransfer(o)
      PROVE  LimitInv'
  <2>1. /\ pc = "send" /\ pc' = "store" /\ o \in todo /\ todo' = todo \ {o}
        /\ InFlight' = InFlight
    BY <1>3 DEF BuildTransfer, Sends, InFlight
  <2>2. Cardinality(todo') = Cardinality(todo) - 1
    BY <1>0, <2>1, FS_RemoveElement
  <2>3. Reserved = 0 /\ Reserved' = 1 /\ Cardinality(InFlight') = Cardinality(InFlight)
    BY <2>1 DEF Reserved
  <2> QED
    BY <1>0, <2>1, <2>2, <2>3 DEF LimitInv
<1>4. CASE StoreBuiltTransfer
  <2>1. PICK id \in TxIds : futures' = [futures EXCEPT ![id] = "new"]
    BY <1>4 DEF StoreBuiltTransfer
  <2>2. pc = "store" /\ pc' = "send" /\ todo' = todo
    BY <1>4 DEF StoreBuiltTransfer
  <2>3. InFlight' = InFlight \cup {id}
    BY <2>1 DEF InFlight, OutInv, Shape
  <2>4. Cardinality(InFlight') <= Cardinality(InFlight) + 1
    <3>1. Cardinality(InFlight \cup {id})
            = IF id \in InFlight THEN Cardinality(InFlight) ELSE Cardinality(InFlight) + 1
      BY <1>0, FS_AddElement
    <3> QED
      BY <1>0, <2>3, <3>1
  <2>5. Reserved = 1 /\ Reserved' = 0 /\ Cardinality(todo') = Cardinality(todo)
    BY <2>2 DEF Reserved
  <2> QED
    BY <1>0, <2>2, <2>4, <2>5 DEF LimitInv
<1>5. ASSUME NEW o \in Orders, FindDestination(o) \/ FindDestinationFails(o)
                               \/ SendUnsupported(o) \/ PrepareFails(o) \/ FeeTakesAll(o) \/ CreateSwap(o)
      PROVE  LimitInv'
  <2>1. InFlight' = InFlight /\ todo' \subseteq todo /\ pc' \in {"send", "swap"}
    BY <1>5 DEF FindDestination, FindDestinationFails, SendUnsupported, PrepareFails, FeeTakesAll,
         CreateSwap, Sends, InFlight
  <2> QED
    BY <2>1, LimitKept
<1>6. CASE ScheduleRefundsFails \/ ScheduleDone \/ StoreBuiltTransferFails \/ SubmitSwap
           \/ SwapSubmitted \/ SwapFails
  <2>1. InFlight' = InFlight /\ todo' = todo /\ pc' \in {"idle", "send", "submitted"}
    BY <1>6 DEF ScheduleRefundsFails, ScheduleDone, StoreBuiltTransferFails, SubmitSwap,
         SwapSubmitted, SwapFails, InFlight
  <2> QED
    BY <2>1, LimitKept
<1>7. ASSUME NEW id \in TxIds, HandleResult(id) \/ HandleResultFails(id)
      PROVE  LimitInv'
  <2>1. futures' = [futures EXCEPT ![id] = "none"] /\ UNCHANGED taskVars
    BY <1>7 DEF HandleResult, HandleResultFails
  <2>2. InFlight' \subseteq InFlight
    BY <2>1 DEF InFlight, OutInv, Shape
  <2> QED
    BY <2>1, <2>2, LimitKept DEF taskVars
<1>8. ASSUME NEW id \in TxIds, FutureStep(id)
      PROVE  LimitInv'
  <2>1. /\ UNCHANGED taskVars /\ futures[id] # "none"
        /\ \E phase \in FuturePhase : futures' = [futures EXCEPT ![id] = phase]
    BY <1>8 DEF FutureStep, Begin, Submit, SubmitRejected, SubmitAnswerLost, Receipt,
         WatchTimesOut, FuturePhase
  <2>2. InFlight' \subseteq InFlight
    BY <2>1 DEF InFlight, OutInv, Shape
  <2> QED
    BY <2>1, <2>2, LimitKept DEF taskVars
<1>9. CASE StopAndStart
  <2>1. InFlight' = {} /\ todo' = {} /\ pc' = "idle"
    BY <1>9 DEF StopAndStart, InFlight
  <2> QED
    BY <2>1, LimitKept
<1>10. CASE UNCHANGED <<taskVars, futures>>
  BY <1>10, LimitKept DEF taskVars, InFlight
<1>11. ASSUME NEW s \in SwapIds, CustomerStep(s) \/ ProviderEnds(s) \/ GetOutdatedSwaps(s)
       PROVE  LimitInv'
  BY <1>10, <1>11 DEF CustomerStep, CreateIncomingSwap, CustomerSubmits,
       UpdateSwapSubmitted, ProviderEnds, GetOutdatedSwaps, taskVars
<1>12. ASSUME NEW o \in Orders, CreateOrder(o) \/ RetryComesDue(o)
       PROVE  LimitInv'
  BY <1>10, <1>12 DEF CreateOrder, RetryComesDue
<1>13. CASE SwapsTrackerStep
  BY <1>10, <1>13 DEF SwapsTrackerStep, GetSubmittedSwaps, HandleSwapExecuted,
       HandleSwapFailed
<1>14. CASE ChainStep \/ UNCHANGED outVars
  BY <1>10, <1>14 DEF ChainStep, outVars, taskVars
<1> QED
  BY <1>1, <1>2, <1>3, <1>4, <1>5, <1>6, <1>7, <1>8, <1>9, <1>11, <1>12, <1>13, <1>14
     DEF OutNext, TaskStep

(* The executor never has more than MAX_CONCURRENT_TRANSFERS on its hands, *)
(* whatever it claims, sends, loses and starts again with.                 *)
THEOREM WithinLimitAlways == OutSpec => []WithinLimit
<1>1. OutInit => LimitInv
  <2> SUFFICES ASSUME OutInit PROVE LimitInv
    OBVIOUS
  <2>1. InFlight = {} /\ todo = {} /\ pc = "idle"
    BY DEF OutInit, ExecutorInit, InFlight
  <2> QED
    BY <2>1, FS_EmptySet, LimitAssumption DEF LimitInv, Reserved
<1>2. OutInv /\ OutInv' /\ LimitInv /\ [OutNext]_outVars => LimitInv'
  BY LimitStep
<1>3. OutInv /\ LimitInv => WithinLimit
  <2> SUFFICES ASSUME OutInv, LimitInv PROVE WithinLimit
    OBVIOUS
  <2>1. Reserved \in Nat /\ Cardinality(InFlight) \in Nat /\ Cardinality(todo) \in Nat
    BY Counts DEF LimitInv, Reserved
  <2> QED
    BY <2>1, LimitAssumption DEF LimitInv, WithinLimit
<1> QED
  BY <1>1, <1>2, <1>3, Invariance, PTL DEF OutSpec
=============================================================================
