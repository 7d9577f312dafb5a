------------------------------- MODULE Daemon -------------------------------
(***************************************************************************)
(* The process: it starts its parts one by one, runs until a signal or a   *)
(* panic cancels the token every part listens to, waits for all of them,   *)
(* and exits.  The keyring is not told to stop: it ends when the last part *)
(* that holds a client of it has ended.                                    *)
(***************************************************************************)
EXTENDS Keyring

CONSTANTS
  MaxPanics,       \* how many tasks may panic
  MaxInterrupts    \* how often the user presses Control-C

VARIABLES
  main,          \* the step of Startup the main task is at; Select and Join
                 \* when it waits for the parts, Down when it is gone
  api,           \* the HTTP server: "off", "bound", "serving" or "ended"
  token,         \* the shutdown token is cancelled
  completed,     \* shutdown_completed is cancelled
  outcome,       \* ShutdownOutcome
  listener,      \* the signal listener: "off", waiting for the "first" or
                 \* the "second" signal, or "ended"
  exit,          \* the exit code
  panics,        \* how many tasks have panicked
  interrupts     \* how many signals the user has sent

daemonVars == <<main, api, token, completed, outcome, listener, exit,
                panics, interrupts>>
vars == <<poolVars, keyringVars, tx, daemonVars>>

(* async_try_main.  What cannot fail and starts nothing is left out.       *)
Startup == <<"configs", "dao", "registry", "validate", "clients", "keyring",
             "executor", "api", "listener">>

MayFail == {"configs", "dao", "registry", "validate", "clients", "api"}

Starting == main \in DOMAIN Startup
Select == Len(Startup) + 1
Join == Len(Startup) + 2
Down == Len(Startup) + 3

DaemonInit ==
  /\ PoolInit
  /\ KeyringInit
  /\ main = 1
  /\ api = "off"
  /\ token = FALSE
  /\ completed = FALSE
  /\ outcome = "UserRequested"
  /\ listener = "off"
  /\ exit = "none"
  /\ panics = 0
  /\ interrupts = 0

-----------------------------------------------------------------------------
(* A part is started.                                                      *)
StartPart(step) ==
  /\ keyring' = IF step = "keyring" THEN "running" ELSE keyring
  /\ job' = IF step = "executor" THEN [job EXCEPT ![Executor] = Idle] ELSE job
  /\ api' = IF step = "api" THEN "bound" ELSE api
  /\ listener' = IF step = "listener" THEN "first" ELSE listener

StartNext ==
  /\ Starting
  /\ StartPart(Startup[main])
  /\ main' = main + 1
  /\ UNCHANGED <<conns, line, writer, pending, rows, seed, inbox, tx, token,
                 completed, outcome, exit, panics, interrupts>>

(* The process is gone, and with it everything it was about to do.         *)
Die(code) ==
  /\ GiveUp(Actors, Gone)
  /\ keyring' = "ended"
  /\ inbox' = <<>>
  /\ main' = Down
  /\ api' = "ended"
  /\ listener' = "ended"
  /\ exit' = code
  /\ UNCHANGED <<seed, tx, token, completed, interrupts>>

(* An error or a panic of the main task while it starts the parts.  The    *)
(* parts that run already are dropped with the runtime.                    *)
StartFails ==
  /\ Starting
  /\ Startup[main] \in MayFail
  /\ Die("failure")
  /\ UNCHANGED <<outcome, panics>>

(* wait_and_shutdown returns at once: no task is ever spawned on the task  *)
(* tracker, and the only sender of errors is dropped.  The select is       *)
(* biased, so the other branch is never looked at.                         *)
WaitAndShutdown ==
  /\ main = Select
  /\ completed' = TRUE
  /\ main' = Join
  /\ api' = "serving"
  /\ UNCHANGED <<poolVars, keyringVars, tx, token, outcome, listener, exit,
                 panics, interrupts>>

JoinAll ==
  /\ main = Join
  /\ listener = "ended"
  /\ keyring \in {"ended", "panicked"}
  /\ api = "ended"
  /\ job[Executor] = Ended
  /\ main' = Down
  /\ exit' = IF outcome = "UserRequested" THEN "success" ELSE "failure"
  /\ UNCHANGED <<poolVars, keyringVars, tx, api, token, completed, outcome,
                 listener, panics, interrupts>>

-----------------------------------------------------------------------------
(* Control-C.  Before the listener waits for it the signal kills the       *)
(* process; once the listener has ended it is ignored.                     *)
Interrupt ==
  /\ main # Down
  /\ interrupts < MaxInterrupts
  /\ interrupts' = interrupts + 1
  /\ CASE listener = "first" ->
            /\ token' = TRUE
            /\ listener' = "second"
            /\ UNCHANGED <<poolVars, keyringVars, tx, main, api, completed,
                           outcome, exit, panics>>
       [] listener = "second" ->
            /\ listener' = "ended"
            /\ UNCHANGED <<poolVars, keyringVars, tx, main, api, token,
                           completed, outcome, exit, panics>>
       [] listener = "ended" ->
            UNCHANGED <<poolVars, keyringVars, tx, main, api, token,
                        completed, outcome, listener, exit, panics>>
       [] listener = "off" ->
            /\ GiveUp(Actors, Gone)
            /\ keyring' = "ended"
            /\ inbox' = <<>>
            /\ main' = Down
            /\ api' = "ended"
            /\ listener' = "ended"
            /\ exit' = "killed"
            /\ UNCHANGED <<seed, tx, token, completed, outcome, panics>>

(* shutdown::listener                                                      *)
ListenerStep ==
  /\ \/ /\ listener = "first"
        /\ token
        /\ listener' = "second"
     \/ /\ listener = "second"
        /\ completed
        /\ listener' = "ended"
  /\ UNCHANGED <<poolVars, keyringVars, tx, main, api, token, completed,
                 outcome, exit, panics, interrupts>>

(* Mutant: the hook only cancels the token.                                *)
HookKeepsOutcome ==
  /\ panics < MaxPanics
  /\ panics' = panics + 1
  /\ token' = TRUE
  /\ UNCHANGED outcome

(* The panic hook.                                                         *)
PanicHook ==
  /\ panics < MaxPanics
  /\ panics' = panics + 1
  /\ outcome' = "UnrecoverableError"
  /\ token' = TRUE

(* A handler or a task panics: it ends, and nobody looks at its result.    *)
JobPanics(a) ==
  /\ main # Down
  /\ Working(a)
  /\ PanicHook
  /\ GiveUp({a}, Gone)
  /\ UNCHANGED <<keyringVars, tx, main, api, completed, listener, exit,
                 interrupts>>

KeyringIsLost ==
  /\ main # Down
  /\ KeyringPanics
  /\ PanicHook
  /\ UNCHANGED <<main, api, completed, listener, exit, interrupts>>

-----------------------------------------------------------------------------
(* A request reaches a handler, and is over before its handler is when the *)
(* client closes the connection.                                           *)
Receive(r) ==
  /\ api = "serving"
  /\ ~token
  /\ job[r] = Off
  /\ \E op \in {"create", "cancel"} : StartJob(r, op)
  /\ UNCHANGED <<keyringVars, tx, daemonVars>>

ClientLeaves(r) ==
  /\ r \in Requests
  /\ Working(r)
  /\ GiveUp({r}, AfterJob)
  /\ UNCHANGED <<keyringVars, tx, daemonVars>>

(* The server stops when the token is cancelled and its requests are       *)
(* answered.                                                               *)
ApiEnds ==
  /\ api = "serving"
  /\ token
  /\ \A r \in Requests : ~Working(r)
  /\ api' = "ended"
  /\ UNCHANGED <<poolVars, keyringVars, tx, main, token, completed, outcome,
                 listener, exit, panics, interrupts>>

(* The executor takes the next transfer.                                   *)
NextTransfer ==
  /\ job[Executor] = Idle
  /\ ~token
  /\ StartJob(Executor, "transfer")
  /\ tx' = NoTx
  /\ UNCHANGED <<keyringVars, daemonVars>>

(* It ends when the transfers in flight are over.                          *)
ExecutorEnds ==
  /\ job[Executor] = Idle
  /\ token
  /\ job' = [job EXCEPT ![Executor] = Ended]
  /\ UNCHANGED <<conns, line, writer, pending, rows, keyringVars, tx,
                 daemonVars>>

(* Mutant: the main task keeps its client.                                 *)
ClientsAndMain ==
  {c \in {"main", "executor", "api"} :
     CASE c = "main"     -> main # Down
       [] c = "executor" -> job[Executor] # Ended
       [] c = "api"      -> api # "ended"}

(* Who holds a client of the keyring: the main task until it has given     *)
(* clones to the executor and to the API's state.                          *)
Clients ==
  {c \in {"main", "executor", "api"} :
     CASE c = "main"     -> Starting
       [] c = "executor" -> job[Executor] # Ended
       [] c = "api"      -> api # "ended"}

(* Mutant: the keyring listens to the token like the other parts.          *)
KeyringEndsOnToken ==
  /\ keyring = "running"
  /\ token
  /\ keyring' = "ended"
  /\ GiveUp({a \in Actors : Asked(a)}, AfterJob)
  /\ inbox' = <<>>
  /\ UNCHANGED <<seed, tx, daemonVars>>

KeyringEnds ==
  /\ keyring = "running"
  /\ inbox = <<>>
  /\ Clients = {}
  /\ keyring' = "ended"
  /\ UNCHANGED <<poolVars, seed, inbox, tx, daemonVars>>

-----------------------------------------------------------------------------
MainStep == StartNext \/ WaitAndShutdown \/ JoinAll

ActorStep(a) ==
  \/ PoolStep(a) /\ UNCHANGED <<keyringVars, tx, daemonVars>>
  \/ SendMessage(a) /\ UNCHANGED daemonVars

KeyringStep ==
  \/ ProcessMessage /\ UNCHANGED daemonVars
  \/ KeyringEnds

AnswerFromOutside == OutsideStep /\ UNCHANGED daemonVars

DaemonNext ==
  \/ MainStep
  \/ StartFails
  \/ Interrupt
  \/ ListenerStep
  \/ KeyringStep
  \/ KeyringIsLost
  \/ AnswerFromOutside
  \/ ApiEnds
  \/ \E r \in Requests : Receive(r) \/ ClientLeaves(r)
  \/ \E a \in Actors : ActorStep(a) \/ JobPanics(a)
  \/ NextTransfer
  \/ ExecutorEnds

(* Every part is a task of the runtime, and every wait inside the daemon   *)
(* ends: a connection or its timeout, a lock or its timeout, an answer of  *)
(* the keyring.                                                            *)
InsideFairness ==
  /\ WF_vars(MainStep)
  /\ WF_vars(ListenerStep)
  /\ WF_vars(KeyringStep)
  /\ WF_vars(ApiEnds)
  /\ WF_vars(ExecutorEnds)
  /\ \A a \in Actors : WF_vars(ActorStep(a))

DaemonSpec == DaemonInit /\ [][DaemonNext]_vars /\ InsideFairness

(* With the assumption that endpoints and providers answer at last.  The   *)
(* Pimlico client sets no timeout, so nothing in the daemon ensures it.    *)
AnsweredSpec == DaemonSpec /\ WF_vars(AnswerFromOutside)

-----------------------------------------------------------------------------
(* The exit code is SUCCESS only after a signal and when nothing panicked, *)
(* even when a signal, a panic and the end of the parts come together.     *)
ExitTellsTruth ==
  exit = "success" => panics = 0 /\ interrupts > 0

(* The keyring never ends under a job: as long as something may still ask  *)
(* it, it runs or has panicked.                                            *)
KeyringOutlivesUsers ==
  keyring = "ended" /\ main # Down => \A a \in Actors : Step(a) \notin KeySteps

(* Every job ends, also when cancellations hold all connections, when the  *)
(* keyring is gone, and when the daemon shuts down.                        *)
EveryJobEnds == \A a \in Actors : Working(a) ~> ~Working(a)

(* A shutdown, by a signal or by a panic, ends in an exit.                 *)
ShutdownCompletes == token ~> main = Down
=============================================================================
