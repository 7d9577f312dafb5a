---------------------------- MODULE Environment ----------------------------
(***************************************************************************)
(* What the daemon does not control: the transfers customers send to       *)
(* payment addresses, and how often things go wrong.                       *)
(***************************************************************************)
EXTENDS Integers, Sequences, FiniteSetsExt, Functions

CONSTANTS
  Invoices,      \* invoice ids
  Transfers,     \* on-chain token transfers to payment addresses
  InvoiceOf,     \* whose payment address a transfer goes to
  AmountOf,      \* the amount of a transfer
  HashOf,        \* the hash of the on-chain transaction that carries it
  InvoiceChains, \* chains an invoice may be paid on
  SwapInvoices,  \* invoices customers also pay through a swap
  Budget         \* how often each kind of disturbance may happen

Disturbances == {"update", "cancel", "payout", "failure", "break", "crash"}

ASSUME TransfersAssumption ==
  /\ InvoiceOf \in [Transfers -> Invoices]
  /\ AmountOf \in [Transfers -> Nat]

ASSUME SwapsAssumption == SwapInvoices \subseteq Invoices

ChainType == {"Polygon", "PolkadotAssetHub"}

ASSUME ChainAssumption == InvoiceChains \subseteq ChainType

ASSUME BudgetAssumption == Budget \in [Disturbances -> Nat]

VARIABLES
  landed,        \* per invoice, its transfers in the order of the chain
  budget         \* what is left of Budget

envVars == <<landed, budget>>

EnvTypeOK ==
  /\ landed \in [Invoices -> Seq(Transfers)]
  /\ budget \in [Disturbances -> Nat]

EnvInit ==
  /\ landed = [i \in Invoices |-> <<>>]
  /\ budget = Budget

(* One disturbance of kind k happens.                                      *)
Spend(k) ==
  /\ budget[k] > 0
  /\ budget' = [budget EXCEPT ![k] = @ - 1]

Landed(t) == \E k \in DOMAIN landed[InvoiceOf[t]] : landed[InvoiceOf[t]][k] = t

(* The sum of the amounts of a list of transfers.                          *)
TotalAmount(list) == SumFunction([k \in DOMAIN list |-> AmountOf[list[k]]])
=============================================================================
