------------------------------ MODULE Keyring ------------------------------
(***************************************************************************)
(* The actor that keeps the seed.  Its clients put a message in its        *)
(* channel and wait for the answer, with no time limit; it handles one     *)
(* message at a time and lives until every client is dropped.  When it     *)
(* panics, the answers it owes and the channel are dropped, and whoever    *)
(* waits for one gets MessageTransmissionFailed.                           *)
(*                                                                         *)
(* With it, the one user that asks twice: the signing of an outgoing       *)
(* transfer on Polygon.  The permit is signed first, because the gas can   *)
(* only be estimated with it; what is left after the fee is put into the   *)
(* call, and the hash of the operation is computed again and signed.       *)
(***************************************************************************)
EXTENDS ConnectionPool

CONSTANTS
  AmountsToSend, \* amounts a transfer is asked to send
  Costs,         \* what the paymaster may charge at most, by its quote
  Margin         \* what is kept back besides

ASSUME KeyringAssumption ==
  /\ AmountsToSend \subseteq Nat
  /\ Costs \subseteq Nat
  /\ Margin \in Nat

VARIABLES
  keyring,       \* "off", "running", "ended" or "panicked"
  seed,          \* the configured seed is a valid mnemonic
  inbox,         \* whose messages are in the channel or wait for a place in
                 \* it: places are given to senders in order
  tx             \* the transfer the executor prepares

keyringVars == <<keyring, seed, inbox>>

NoHash == <<>>
NoTx == [asked |-> 0, call |-> 0, gas |-> 0, hash |-> NoHash,
         signed |-> NoHash]

KeyringInit ==
  /\ keyring = "off"
  /\ seed \in BOOLEAN
  /\ inbox = <<>>
  /\ tx = NoTx

KeySteps == {"address", "permit", "sign"}
Asked(a) == \E k \in DOMAIN inbox : inbox[k] = a

(* compute_user_op_hash: of the call and the gas parameters.               *)
HashOfOp(call, gas) == <<call, gas>>

SaturatingSub(n, m) == IF n > m THEN n - m ELSE 0

-----------------------------------------------------------------------------
(* send_message_with_response                                              *)
SendMessage(a) ==
  /\ Step(a) \in KeySteps
  /\ ~Asked(a)
  /\ \/ /\ keyring = "running"
        /\ inbox' = Append(inbox, a)
        /\ UNCHANGED poolVars
     \/ /\ keyring # "running"
        /\ GiveUp({a}, AfterJob)
        /\ UNCHANGED inbox
  /\ UNCHANGED <<keyring, seed, tx>>

(* A key is derived from the seed for every message.  A transaction must   *)
(* have its paymaster data and its hash.                                   *)
Answerable(a) ==
  /\ seed
  /\ Step(a) = "sign" => tx.hash # NoHash

(* What the answer is used for: with the permit the operation gets its     *)
(* first hash, with the signature it can be sent.                          *)
WithAnswer(a) ==
  CASE Step(a) = "permit" -> [tx EXCEPT !.hash = HashOfOp(tx.call, tx.gas)]
    [] Step(a) = "sign"   -> [tx EXCEPT !.signed = tx.hash]
    [] OTHER              -> tx

(* process_message.  The answer to a job that was dropped meanwhile is     *)
(* dropped too.                                                            *)
ProcessMessage ==
  LET a == Head(inbox) IN
  /\ keyring = "running"
  /\ inbox # <<>>
  /\ inbox' = Tail(inbox)
  /\ \/ /\ Step(a) \in KeySteps
        /\ Answerable(a)
        /\ Advance(a)
        /\ tx' = WithAnswer(a)
        /\ UNCHANGED <<conns, line, writer, pending, rows>>
     \/ /\ Step(a) \in KeySteps
        /\ ~Answerable(a)
        /\ GiveUp({a}, AfterJob)
        /\ UNCHANGED tx
     \/ /\ Step(a) \notin KeySteps
        /\ UNCHANGED <<poolVars, tx>>
  /\ UNCHANGED <<keyring, seed>>

(* An unwrap of process_message fails: the task is gone.                   *)
KeyringPanics ==
  /\ keyring = "running"
  /\ inbox # <<>>
  /\ keyring' = "panicked"
  /\ inbox' = <<>>
  /\ GiveUp({a \in Actors : Asked(a) /\ Working(a)}, AfterJob)
  /\ UNCHANGED <<seed, tx>>

-----------------------------------------------------------------------------
(* build_transfer: the nonces and the gas price are fetched, the gas       *)
(* parameters are dummies.                                                 *)
BuildTransfer ==
  /\ Step(Executor) = "build"
  /\ \E n \in AmountsToSend :
       tx' = [asked |-> n, call |-> n, gas |-> 0, hash |-> NoHash,
              signed |-> NoHash]
  /\ Advance(Executor)
  /\ UNCHANGED <<keyringVars, conns, line, writer, pending, rows>>

(* Mutant: the hash of the first call is signed.                           *)
EstimateKeepsHash ==
  /\ Step(Executor) = "estimate"
  /\ \E cost \in Costs :
       LET left == SaturatingSub(SaturatingSub(tx.asked, cost), Margin) IN
       /\ left > 0
       /\ tx' = [tx EXCEPT !.call = left, !.gas = cost]
  /\ Advance(Executor)
  /\ UNCHANGED <<keyringVars, conns, line, writer, pending, rows>>

(* sign_transaction between the two messages: the gas is estimated, the    *)
(* paymaster's quote turns it into tokens, and the call is built again.    *)
EstimateAndRebuild ==
  /\ Step(Executor) = "estimate"
  /\ \E cost \in Costs :
       LET left == SaturatingSub(SaturatingSub(tx.asked, cost), Margin) IN
       /\ left > 0
       /\ tx' = [tx EXCEPT !.call = left, !.gas = cost,
                           !.hash = HashOfOp(left, cost)]
  /\ Advance(Executor)
  /\ UNCHANGED <<keyringVars, conns, line, writer, pending, rows>>

(* Nothing is left: InsufficientBalance.                                   *)
FeeTakesAll ==
  /\ Step(Executor) = "estimate"
  /\ \E cost \in Costs : SaturatingSub(SaturatingSub(tx.asked, cost), Margin) = 0
  /\ GiveUp({Executor}, AfterJob)
  /\ UNCHANGED <<keyringVars, tx>>

(* submit_and_watch_transaction, whatever it ends with.                    *)
SubmitAndWatch ==
  /\ Step(Executor) = "submit"
  /\ Advance(Executor)
  /\ UNCHANGED <<keyringVars, tx, conns, line, writer, pending, rows>>

(* A request to an endpoint or to Pimlico fails.                           *)
OutsideFails ==
  /\ Step(Executor) \in {"build", "estimate"}
  /\ GiveUp({Executor}, AfterJob)
  /\ UNCHANGED <<keyringVars, tx>>

OutsideStep ==
  \/ BuildTransfer
  \/ EstimateAndRebuild
  \/ FeeTakesAll
  \/ SubmitAndWatch
  \/ OutsideFails

-----------------------------------------------------------------------------
(* What is sent is what was signed, and an account that holds the asked    *)
(* amount can pay the call and the highest fee the paymaster may take.     *)
(* The signature is two messages and several requests away from the call   *)
(* it must cover.                                                          *)
SignedIsPayable ==
  job[Executor].op = "transfer" /\ job[Executor].at \in 5..6 =>
    /\ tx.signed = HashOfOp(tx.call, tx.gas)
    /\ tx.call > 0
    /\ tx.call + tx.gas + Margin <= tx.asked
=============================================================================
