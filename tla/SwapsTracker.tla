----------------------------- MODULE SwapsTracker -----------------------------
(***************************************************************************)
(* The task that follows submitted swaps to their end, and the swaps that  *)
(* customers make on the front end.  What an executed swap means for the   *)
(* invoice is a balance check, which module Payments models.               *)
(***************************************************************************)
EXTENDS TransfersExecutor

VARIABLE
  watched        \* TrackedSwaps: the swaps the task asks the provider about

(* create_swap of the API: a swap into an invoice, which its customer      *)
(* signs and submits, or forgets.                                          *)
CreateIncomingSwap(s) ==
  /\ s \in Incoming
  /\ create_swap(s, NoOrder)
  /\ UNCHANGED <<order, txs, bundlerVars, taskVars, futures, provider, watched>>

CustomerSubmits(s) ==
  /\ s \in Incoming
  /\ swaps[s].status # Absent
  /\ provider[s] = "none"
  /\ provider' = [provider EXCEPT ![s] = "pending"]
  /\ UNCHANGED <<ordersVars, bundlerVars, taskVars, futures, watched>>

(* update_swap_submitted and submit_swap_with_signature of the API, which  *)
(* may come late, twice or not at all.                                     *)
UpdateSwapSubmitted(s) ==
  /\ s \in Incoming
  /\ provider[s] # "none"
  /\ update_swap(s, "Submitted")
  /\ UNCHANGED <<order, txs, bundlerVars, taskVars, futures, provider, watched>>

(* The swap comes to an end at the provider.                               *)
ProviderEnds(s) ==
  /\ provider[s] = "pending"
  /\ \E end \in {"executed", "failed"} : provider' = [provider EXCEPT ![s] = end]
  /\ UNCHANGED <<ordersVars, bundlerVars, taskVars, futures, watched>>

-----------------------------------------------------------------------------
WithStatus(status) == {s \in SwapIds : swaps[s].status = status}

(* Mutant: the swaps are not added to the store.                           *)
GetSubmittedSwapsUnwatched ==
  /\ WithStatus("Submitted") # {}
  /\ swaps' = [s \in SwapIds |->
                 IF s \in WithStatus("Submitted")
                   THEN [swaps[s] EXCEPT !.status = "Pending"] ELSE swaps[s]]
  /\ UNCHANGED <<order, txs, bundlerVars, taskVars, futures, provider, watched>>

GetSubmittedSwaps ==
  /\ WithStatus("Submitted") # {}
  /\ swaps' = [s \in SwapIds |->
                 IF s \in WithStatus("Submitted")
                   THEN [swaps[s] EXCEPT !.status = "Pending"] ELSE swaps[s]]
  /\ watched' = watched \cup WithStatus("Submitted")
  /\ UNCHANGED <<order, txs, bundlerVars, taskVars, futures, provider>>

(* get_outdated_swaps, once valid_till of a swap has passed.               *)
GetOutdatedSwaps(s) ==
  /\ swaps[s].status = "Created"
  /\ update_swap(s, "Abandoned")
  /\ UNCHANGED <<order, txs, bundlerVars, taskVars, futures, provider, watched>>

(* Mutant: the provider has only accepted the swap.                        *)
HandleSwapAccepted(s) ==
  /\ s \in watched
  /\ provider[s] # "failed"
  /\ update_swap(s, "Completed")
  /\ IF swaps[s].order = NoOrder THEN UNCHANGED order
     ELSE update_status(swaps[s].order, "Completed")
  /\ watched' = watched \ {s}
  /\ UNCHANGED <<txs, bundlerVars, taskVars, futures, provider>>

(* handle_swap_executed, when the balance check has not failed.            *)
HandleSwapExecuted(s) ==
  /\ s \in watched
  /\ provider[s] = "executed"
  /\ update_swap(s, "Completed")
  /\ IF swaps[s].order = NoOrder THEN UNCHANGED order
     ELSE update_status(swaps[s].order, "Completed")
  /\ watched' = watched \ {s}
  /\ UNCHANGED <<txs, bundlerVars, taskVars, futures, provider>>

(* The swaps of orders are gasless trades of 0x, whose status type knows   *)
(* no failure: such a trade is Pending for good.  Across and the plain     *)
(* trades of 0x, which customers make, report theirs.                      *)
ReportsFailure(s) == s \in Incoming

HandleSwapFailed(s) ==
  /\ s \in watched
  /\ provider[s] = "failed"
  /\ ReportsFailure(s)
  /\ update_swap(s, "Failed")
  /\ IF swaps[s].order = NoOrder THEN UNCHANGED order
     ELSE update_retry(swaps[s].order, TRUE)
  /\ watched' = watched \ {s}
  /\ UNCHANGED <<txs, bundlerVars, taskVars, futures, provider>>

SwapsTrackerStep ==
  \/ GetSubmittedSwaps
  \/ \E s \in SwapIds : HandleSwapExecuted(s) \/ HandleSwapFailed(s)
=============================================================================
