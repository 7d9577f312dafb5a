---------------------------- MODULE SwapProviders ----------------------------
(***************************************************************************)
(* The clients of the swap providers: which of them is asked for which     *)
(* swap, what each refuses without asking, how its answers are understood, *)
(* and what is stored of a quote.  The four of them implement one trait,   *)
(* SwapsClient, and SwapsClients picks the one a swap was made with.       *)
(***************************************************************************)
EXTENDS Integers, Sequences

(* SwapChainType                                                           *)
Chains ==
  {"Abstract", "Arbitrum", "Avalanche", "Base", "Berachain", "Blast",
   "BnbSmartChain", "Ethereum", "HyperEvm", "Ink", "Lens", "Linea", "Lisk",
   "Mantle", "MegaEth", "Mode", "Monad", "Optimism", "Plasma", "Polygon",
   "Scroll", "Solana", "Soneium", "Sonic", "Tempo", "Unichain", "WorldChain",
   "ZkSync", "Zora"}

Polygon == "Polygon"                \* the chain payments are made on

Executors == {"Across", "Bungee", "ZeroEx", "ZeroExGasless"}
None == "None"

(* SwapExecutorType::detect: the client for a direction, or None.  Bungee  *)
(* is never chosen.                                                        *)
detect(from, to, direction) ==
  IF direction = "Outgoing"
    THEN IF from = to THEN "ZeroExGasless" ELSE None
    ELSE IF from = to THEN "ZeroEx" ELSE "Across"

(* SINGLE_CHAIN_SUPPORTED and CROSS_CHAIN_SUPPORTED                        *)
SingleChain == {"Bungee", "ZeroEx", "ZeroExGasless"}
CrossChain == {"Across"}

(* SUPPORTED_SWAP_CHAINS of the clients: all chains but a few.             *)
AcrossChains == Chains \ {"Abstract", "Avalanche", "Berachain", "Mantle", "Sonic"}
BungeeChains == Chains \ {"Abstract", "Lens", "Lisk", "Tempo", "ZkSync", "Zora"}
ZeroExChains ==
  Chains \ {"Lens", "Lisk", "MegaEth", "Solana", "Soneium", "ZkSync", "Zora"}

SupportedSwapChains(executor) ==
  CASE executor = "Across" -> AcrossChains
    [] executor = "Bungee" -> BungeeChains
    [] executor \in {"ZeroEx", "ZeroExGasless"} -> ZeroExChains

(* The checks of SwapsClient::get_quote, made before the provider is asked. *)
Quotable(executor, from, to) ==
  /\ from = to => executor \in SingleChain
  /\ from # to => executor \in CrossChain
  /\ {from, to} \subseteq SupportedSwapChains(executor)

-----------------------------------------------------------------------------
(* The statuses a provider can answer with.  The 0x client asks the chain  *)
(* for a receipt; the gasless API has no status for a failed trade.        *)
AcrossSwapStatus == {"Filled", "Pending", "Expired", "Refunded"}
BungeeSwapStatus == {"Pending", "Assigned", "Extracted", "Fulfilled",
                     "Settled", "Expired", "Cancelled", "Refunded"}
ZeroExTransactionStatus == {"NotFound", "Executed", "FailedOnChain"}
ZeroExGaslessStatus == {"Pending", "Submitted", "Succeeded", "Confirmed"}

ExecutorSwapStatus == {"Pending", "Executed", "Failed"}

(* Mutant: a refunded deposit is still expected to be filled.              *)
FromAcrossPatient(status) ==
  IF status = "Filled" THEN "Executed" ELSE "Pending"

FromAcross(status) ==
  IF status = "Filled" THEN "Executed"
  ELSE IF status = "Pending" THEN "Pending" ELSE "Failed"

FromBungee(status) ==
  IF status \in {"Pending", "Assigned", "Extracted"} THEN "Pending"
  ELSE IF status \in {"Settled", "Fulfilled"} THEN "Executed" ELSE "Failed"

FromZeroEx(status) ==
  IF status = "NotFound" THEN "Pending"
  ELSE IF status = "Executed" THEN "Executed" ELSE "Failed"

FromZeroExGasless(status) ==
  IF status = "Confirmed" THEN "Executed" ELSE "Pending"

get_transaction_status(executor, status) ==
  CASE executor = "Across" -> FromAcross(status)
    [] executor = "Bungee" -> FromBungee(status)
    [] executor = "ZeroEx" -> FromZeroEx(status)
    [] executor = "ZeroExGasless" -> FromZeroExGasless(status)

(* What a provider says of a swap that is under way, executed or failed.   *)
Answers(executor, fate) ==
  CASE executor = "Across" ->
         (IF fate = "pending" THEN {"Pending"}
          ELSE IF fate = "executed" THEN {"Filled"} ELSE {"Expired", "Refunded"})
    [] executor = "ZeroEx" ->
         (IF fate = "pending" THEN {"NotFound"}
          ELSE IF fate = "executed" THEN {"Executed"} ELSE {"FailedOnChain"})
    [] executor = "ZeroExGasless" ->
         (IF fate = "pending" THEN {"Pending", "Submitted", "Succeeded"}
          ELSE {"Confirmed"})

-----------------------------------------------------------------------------
(* RawSwapDetails is stored as JSON without a tag, and read back as the    *)
(* first of the four structures all of whose required fields are there.    *)
AcrossDetails ==
  [required |-> {"transaction"}, optional |-> {"approval_transactions"}]
BungeeDetails ==
  [required |-> {"quote_id", "request_type", "approval_data", "sign_typed_data"},
   optional |-> {}]
ZeroExDetails ==
  [required |-> {"allowance_target", "raw_transaction"}, optional |-> {}]
ZeroExGaslessDetails ==
  [required |-> {"raw_trade"}, optional |-> {"approval"}]

Details(executor) ==
  CASE executor = "Across" -> AcrossDetails
    [] executor = "Bungee" -> BungeeDetails
    [] executor = "ZeroEx" -> ZeroExDetails
    [] executor = "ZeroExGasless" -> ZeroExGaslessDetails

VariantOrder == <<"Across", "Bungee", "ZeroEx", "ZeroExGasless">>

FirstVariant(fields) ==
  LET fits == {n \in 1 .. 4 : Details(VariantOrder[n]).required \subseteq fields}
  IN  IF fits = {} THEN None
      ELSE VariantOrder[CHOOSE n \in fits : \A k \in fits : n <= k]

(* What a quote leaves in swap_details, with or without the approval that  *)
(* the tokens of the swap need.  A missing approval is stored as null.     *)
QuoteDetails(executor) == Details(executor).required \cup Details(executor).optional

(* The executors that submit_with_signature lets a request name, whatever  *)
(* the swap was made with, and the clients that submit at all: Across's    *)
(* submit_transaction_internal is an error.                                *)
TakesSignature == {"Bungee", "ZeroEx", "ZeroExGasless"}
Submits == Executors \ {"Across"}

(* sign_transaction: only the gasless client signs, and not for customers. *)
Signs(executor, direction) == executor = "ZeroExGasless" /\ direction = "Outgoing"

(* sign_transaction of the gasless client: one signature, or two joined by *)
(* a bar.  Parts is how many there are.                                    *)
SignatureParts(approval) == IF approval THEN 2 ELSE 1

(* split_once in submit_transaction_internal, whose unwrap panics when a   *)
(* signature of two parts is expected and has one.                         *)
SplitPanics(approval, parts) == approval /\ parts < 2

(* Every quote is read back as what it was, though the first structure     *)
(* that fits wins, and what was signed for can be split.                   *)
ASSUME ConversionsAgree ==
  /\ \A executor \in Executors :
       FirstVariant(QuoteDetails(executor)) = executor
  /\ \A approval \in BOOLEAN : ~SplitPanics(approval, SignatureParts(approval))
  /\ \A executor \in Executors : Polygon \in SupportedSwapChains(executor)
=============================================================================
