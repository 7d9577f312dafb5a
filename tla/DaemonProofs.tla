---------------------------- MODULE DaemonProofs ----------------------------
(***************************************************************************)
(* Proofs about the process, for any number of requests, any size of the   *)
(* pool, any amounts and costs and any number of panics and signals: what  *)
(* a transaction writes is in the database whole or not at all, what is    *)
(* sent is what was signed and can be paid, the keyring never ends under a *)
(* job, and the exit code tells the truth.                                 *)
(***************************************************************************)
EXTENDS Daemon, FiniteSetTheorems, TLAPS

USE PoolAssumption DEF Actors

OpsOf(a) == IF a = Executor THEN {"transfer"} ELSE {"create", "cancel"}

Names == {"off", "idle", "ended", "none", "create", "cancel", "transfer"}

Job == [op : Names, at : Nat, has : BOOLEAN]
Tx == [asked : Nat, call : Nat, gas : Nat, hash : Seq(Nat), signed : Seq(Nat)]

Resting == {Off, Idle, Ended}

(* A job is one its actor can have, at a step of its program.              *)
JobFits(a) ==
  \/ job[a] \in Resting
  \/ /\ job[a].op \in OpsOf(a)
     /\ job[a].at \in DOMAIN Program[job[a].op]

UpTo(S, k) == {j \in S : j < k}

(* What a job has written so far: the statements of its transaction are    *)
(* pending, those on their own are in the database.                        *)
Progress(a) ==
  /\ rows[a].of = job[a].op
  /\ pending[a] = UpTo(InTransaction(job[a].op), job[a].at)
  /\ rows[a].writes = UpTo(OnItsOwn(job[a].op), job[a].at)

(* The rows of one actor are as AllOrNothing says.                         *)
Whole(a) ==
  rows[a].of # "none" =>
    /\ rows[a].of \in Operations
    /\ rows[a].writes \cap InTransaction(rows[a].of) \in {{}, InTransaction(rows[a].of)}
    /\ rows[a].writes \cap InTransaction(rows[a].of) # {} =>
         OnItsOwn(rows[a].of) \subseteq rows[a].writes

(* The connections of a job: one from begin to commit, one for a statement *)
(* on its own.                                                             *)
Begun(j) ==
  \E k \in DOMAIN Program[j.op] : k < j.at /\ Program[j.op][k] = "begin"

Holds(a) ==
  /\ job[a].has => Step(a) = "autocommit"
  /\ conns[a] = (IF Begun(job[a]) THEN 1 ELSE 0) + (IF job[a].has THEN 1 ELSE 0)

Waits(a) ==
  /\ Working(a)
  /\ Step(a) \in {"begin", "autocommit"}
  /\ ~job[a].has

ActorFits(a) ==
  /\ JobFits(a)
  /\ InLine(a) => Waits(a)
  /\ IF Working(a) THEN Progress(a) /\ Holds(a)
                   ELSE pending[a] = {} /\ conns[a] = 0 /\ Whole(a)

PoolTypes ==
  /\ DOMAIN line \subseteq Actors
  /\ job \in [Actors -> Job]
  /\ conns \in [Actors -> Nat]
  /\ pending \in [Actors -> SUBSET Nat]
  /\ rows \in [Actors -> [of : Names, writes : SUBSET Nat]]

(* The part of the invariant that is about the pool.                       *)
PoolInv ==
  /\ PoolTypes
  /\ \A a \in Actors : ActorFits(a)

Shape ==
  /\ inbox \in Seq(Actors)
  /\ keyring \in {"off", "running", "ended", "panicked"}
  /\ api \in {"off", "bound", "serving", "ended"}
  /\ listener \in {"off", "first", "second", "ended"}
  /\ main \in 1 .. 12
  /\ panics \in Nat
  /\ interrupts \in Nat
  /\ tx \in Tx

(* What the transfer is at each step of its preparation.                   *)
Payable ==
  /\ tx.hash = HashOfOp(tx.call, tx.gas)
  /\ tx.call > 0
  /\ tx.call + tx.gas + Margin <= tx.asked

TransferIsPayable ==
  job[Executor].op = "transfer" =>
    /\ job[Executor].at \in {4, 5, 6} => Payable
    /\ job[Executor].at \in {5, 6} => tx.signed = tx.hash

(* When each part can be where it is.                                      *)
PartsAreInStep ==
  /\ main <= 7 => job[Executor] \in {Off, Ended}
  /\ api \in {"serving", "ended"} => main \in {Join, Down}
  /\ \A r \in Requests : Working(r) => api = "serving"
  /\ keyring = "ended" /\ main # Down => job[Executor] = Ended /\ api = "ended"

(* What was said of a signal and of a panic is still known at the end.     *)
StopHasACause ==
  /\ outcome = "UserRequested" => panics = 0
  /\ token => panics > 0 \/ interrupts > 0
  /\ listener \in {"second", "ended"} /\ main # Down => token
  /\ exit = "success" => main = Down /\ panics = 0 /\ interrupts > 0

(* The inductive invariant.                                                *)
DaemonInv ==
  /\ PoolInv
  /\ Shape
  /\ TransferIsPayable
  /\ PartsAreInStep
  /\ StopHasACause

-----------------------------------------------------------------------------
(* The programs.                                                           *)

(* Every program ends with its only commit and has one begin before it,    *)
(* and the steps of a transfer are where SignedIsPayable takes them to be. *)
LEMMA Programs ==
  /\ Operations = {"create", "cancel", "transfer"}
  /\ \A op \in Operations :
       /\ Len(Program[op]) \in Nat \ {0}
       /\ DOMAIN Program[op] = 1 .. Len(Program[op])
       /\ \A k \in DOMAIN Program[op] :
            Program[op][k] = "commit" <=> k = Len(Program[op])
       /\ \E b \in DOMAIN Program[op] :
            /\ b < Len(Program[op])
            /\ \A k \in DOMAIN Program[op] : Program[op][k] = "begin" <=> k = b
  /\ \A k \in DOMAIN Program["transfer"] :
       /\ Program["transfer"][k] = "build" <=> k = 1
       /\ Program["transfer"][k] = "permit" <=> k = 2
       /\ Program["transfer"][k] = "estimate" <=> k = 3
       /\ Program["transfer"][k] = "sign" <=> k = 4
  /\ \A op \in {"create", "cancel"} : \A k \in DOMAIN Program[op] :
       Program[op][k] \notin {"build", "permit", "estimate", "sign"}
<1>1. Operations = {"create", "cancel", "transfer"}
  BY DEF Operations, Program
<1>2. /\ Program["create"] = <<"address", "begin", "write", "write", "commit">>
      /\ Program["cancel"] = <<"begin", "autocommit", "write", "commit">>
      /\ Program["transfer"] = <<"build", "permit", "estimate", "sign", "autocommit",
                                 "submit", "begin", "write", "write", "commit">>
  BY DEF Program
<1>3. /\ Len(Program["create"]) = 5 /\ DOMAIN Program["create"] = 1 .. 5
      /\ Len(Program["cancel"]) = 4 /\ DOMAIN Program["cancel"] = 1 .. 4
      /\ Len(Program["transfer"]) = 10 /\ DOMAIN Program["transfer"] = 1 .. 10
  BY <1>2
<1>4. /\ \A k \in 1 .. 5 : /\ Program["create"][k] = "commit" <=> k = 5
                           /\ Program["create"][k] = "begin" <=> k = 2
                           /\ Program["create"][k] \notin {"build", "permit", "estimate", "sign"}
      /\ \A k \in 1 .. 4 : /\ Program["cancel"][k] = "commit" <=> k = 4
                           /\ Program["cancel"][k] = "begin" <=> k = 1
                           /\ Program["cancel"][k] \notin {"build", "permit", "estimate", "sign"}
  BY <1>2
<1>5. \A k \in 1 .. 10 :
        /\ Program["transfer"][k] = "commit" <=> k = 10
        /\ Program["transfer"][k] = "begin" <=> k = 7
        /\ Program["transfer"][k] = "build" <=> k = 1
        /\ Program["transfer"][k] = "permit" <=> k = 2
        /\ Program["transfer"][k] = "estimate" <=> k = 3
        /\ Program["transfer"][k] = "sign" <=> k = 4
  BY <1>2
<1>6. ASSUME NEW op \in Operations
      PROVE  /\ Len(Program[op]) \in Nat \ {0}
             /\ DOMAIN Program[op] = 1 .. Len(Program[op])
             /\ \A k \in DOMAIN Program[op] :
                  Program[op][k] = "commit" <=> k = Len(Program[op])
             /\ \E b \in DOMAIN Program[op] :
                  /\ b < Len(Program[op])
                  /\ \A k \in DOMAIN Program[op] : Program[op][k] = "begin" <=> k = b
  <2>1. CASE op = "create"
    <3> 2 \in 1 .. 5 /\ 2 < 5
      OBVIOUS
    <3> QED
      BY <2>1, <1>3, <1>4
  <2>2. CASE op = "cancel"
    <3> 1 \in 1 .. 4 /\ 1 < 4
      OBVIOUS
    <3> QED
      BY <2>2, <1>3, <1>4
  <2>3. CASE op = "transfer"
    <3> 7 \in 1 .. 10 /\ 7 < 10
      OBVIOUS
    <3> QED
      BY <2>3, <1>3, <1>5
  <2> QED
    BY <1>1, <2>1, <2>2, <2>3
<1>7. ASSUME NEW op \in {"create", "cancel"}, NEW k \in DOMAIN Program[op]
      PROVE  Program[op][k] \notin {"build", "permit", "estimate", "sign"}
  <2>1. CASE op = "create"
    BY <2>1, <1>3, <1>4
  <2>2. CASE op = "cancel"
    BY <2>2, <1>3, <1>4
  <2> QED
    BY <2>1, <2>2
<1>8. \A k \in DOMAIN Program["transfer"] :
        /\ Program["transfer"][k] = "build" <=> k = 1
        /\ Program["transfer"][k] = "permit" <=> k = 2
        /\ Program["transfer"][k] = "estimate" <=> k = 3
        /\ Program["transfer"][k] = "sign" <=> k = 4
  BY <1>3, <1>5
<1> QED
  BY <1>1, <1>6, <1>7, <1>8

(* The steps of one program.                                               *)
LEMMA ProgramOf ==
  ASSUME NEW op \in Operations
  PROVE  /\ Len(Program[op]) \in Nat \ {0}
         /\ DOMAIN Program[op] = 1 .. Len(Program[op])
         /\ \A k \in DOMAIN Program[op] :
              k \in Nat /\ (Program[op][k] = "commit" <=> k = Len(Program[op]))
         /\ \E b \in DOMAIN Program[op] :
              /\ b < Len(Program[op])
              /\ \A k \in DOMAIN Program[op] : Program[op][k] = "begin" <=> k = b
<1>1. /\ Len(Program[op]) \in Nat \ {0}
      /\ DOMAIN Program[op] = 1 .. Len(Program[op])
      /\ \A k \in DOMAIN Program[op] :
           Program[op][k] = "commit" <=> k = Len(Program[op])
      /\ \E b \in DOMAIN Program[op] :
           /\ b < Len(Program[op])
           /\ \A k \in DOMAIN Program[op] : Program[op][k] = "begin" <=> k = b
  BY Programs
<1> QED
  BY <1>1

(* A program begins one transaction.                                       *)
LEMMA OneBegin ==
  ASSUME NEW op \in Operations, NEW k \in DOMAIN Program[op], NEW l \in DOMAIN Program[op],
         Program[op][k] = "begin", Program[op][l] = "begin"
  PROVE  k = l
<1>1. PICK b \in DOMAIN Program[op] :
        /\ b < Len(Program[op])
        /\ \A i \in DOMAIN Program[op] : Program[op][i] = "begin" <=> i = b
  BY ProgramOf
<1> QED
  BY <1>1

(* Who rests has no job.                                                   *)
LEMMA RestIsNoWork ==
  /\ \A j \in Resting : j \in Job /\ j.op \in {"off", "idle", "ended"}
  /\ \A j \in Resting : j.op \notin Operations
  /\ \A a \in Actors : AfterJob[a] \in Resting /\ Gone[a] \in Resting
  /\ AfterJob[Executor] = Idle
  /\ Ended # Off /\ Ended # Idle
<1>1. \A j \in Resting : j \in Job /\ j.op \in {"off", "idle", "ended"}
  <2>1. /\ Off = [op |-> "off", at |-> 0, has |-> FALSE]
        /\ Idle = [op |-> "idle", at |-> 0, has |-> FALSE]
        /\ Ended = [op |-> "ended", at |-> 0, has |-> FALSE]
    BY DEF Off, Idle, Ended, NoJob
  <2>2. /\ Off \in Job /\ Idle \in Job /\ Ended \in Job
        /\ Off.op = "off" /\ Idle.op = "idle" /\ Ended.op = "ended"
    BY <2>1 DEF Job, Names
  <2> QED
    BY <2>2 DEF Resting
<1>2. \A j \in Resting : j.op \notin Operations
  BY <1>1, Programs
<1>3. \A a \in Actors : AfterJob[a] \in Resting /\ Gone[a] \in Resting
  BY DEF Resting, AfterJob, Gone
<1>4. AfterJob[Executor] = Idle
  BY DEF AfterJob
<1>5. Ended.op = "ended" /\ Off.op = "off" /\ Idle.op = "idle"
  BY DEF Ended, Off, Idle, NoJob
<1> QED
  BY <1>1, <1>2, <1>3, <1>4, <1>5

(* The numbers of the main task's states.                                  *)
LEMMA MainNumbers ==
  /\ Select = 10 /\ Join = 11 /\ Down = 12
  /\ DOMAIN Startup = 1 .. 9
  /\ \A k \in 1 .. 9 :
       /\ Startup[k] = "executor" <=> k = 7
       /\ Startup[k] = "api" <=> k = 8
       /\ Startup[k] = "keyring" <=> k = 6
       /\ Startup[k] = "listener" <=> k = 9
<1>1. Startup = <<"configs", "dao", "registry", "validate", "clients", "keyring",
                  "executor", "api", "listener">>
  BY DEF Startup
<1>2. Len(Startup) = 9 /\ DOMAIN Startup = 1 .. 9
  BY <1>1
<1> QED
  BY <1>1, <1>2 DEF Select, Join, Down

-----------------------------------------------------------------------------
(* Steps of the pool.                                                      *)

(* An actor whose job, rows and pending writes stay as they are still      *)
(* fits.                                                                   *)
LEMMA ActorStays ==
  ASSUME NEW a \in Actors, ActorFits(a), job'[a] = job[a],
         pending'[a] = pending[a], rows'[a] = rows[a], conns'[a] = conns[a],
         InLine(a)' => InLine(a)
  PROVE  ActorFits(a)'
<1>1. Working(a)' = Working(a) /\ Step(a)' = Step(a)
  BY DEF Working, Step
<1>2. JobFits(a)' /\ (InLine(a)' => Waits(a)')
  BY <1>1 DEF ActorFits, JobFits, Waits
<1>3. CASE Working(a)
  BY <1>1, <1>2, <1>3 DEF ActorFits, Progress, Holds, Begun
<1>4. CASE ~Working(a)
  BY <1>1, <1>2, <1>4 DEF ActorFits, Whole
<1> QED
  BY <1>3, <1>4

(* What a job has of its rows when it is given up: nothing of its          *)
(* transaction.                                                            *)
LEMMA ProgressIsWhole ==
  ASSUME NEW a \in Actors, PoolInv, Working(a)
  PROVE  Whole(a)
<1> job[a].op \in Operations
  BY DEF Working
<1>1. Progress(a)
  BY DEF PoolInv, ActorFits
<1>2. UpTo(OnItsOwn(job[a].op), job[a].at) \cap InTransaction(job[a].op) = {}
  BY DEF UpTo, OnItsOwn, InTransaction
<1> QED
  BY <1>1, <1>2 DEF Progress, Whole

(* AllOrNothing follows.                                                   *)
LEMMA PoolInvIsAllOrNothing ==
  PoolInv => AllOrNothing
BY ProgressIsWhole DEF PoolInv, ActorFits, Whole, AllOrNothing

(* Whoever stops where it is, with its transaction rolled back, leaves the *)
(* database whole.                                                         *)
LEMMA StoppingKeepsPoolInv ==
  ASSUME PoolInv, PoolTypes', rows' = rows,
         \A a \in Actors :
           \/ /\ job'[a] = job[a] /\ pending'[a] = pending[a] /\ conns'[a] = conns[a]
              /\ InLine(a)' => InLine(a)
           \/ job'[a] \in Resting /\ pending'[a] = {} /\ conns'[a] = 0 /\ ~InLine(a)'
  PROVE  PoolInv'
<1> SUFFICES ASSUME NEW a \in Actors PROVE ActorFits(a)'
  BY DEF PoolInv
<1>1. ActorFits(a)
  BY DEF PoolInv
<1>2. CASE /\ job'[a] = job[a] /\ pending'[a] = pending[a] /\ conns'[a] = conns[a]
           /\ InLine(a)' => InLine(a)
  BY <1>1, <1>2, ActorStays
<1>3. CASE job'[a] \in Resting /\ pending'[a] = {} /\ conns'[a] = 0 /\ ~InLine(a)'
  <2>1. Whole(a)
    BY <1>1, ProgressIsWhole DEF ActorFits
  <2>2. Whole(a)'
    BY <2>1 DEF Whole
  <2>3. ~Working(a)'
    BY <1>3, RestIsNoWork DEF Working
  <2>4. JobFits(a)'
    BY <1>3 DEF JobFits
  <2> QED
    BY <1>3, <2>2, <2>3, <2>4 DEF ActorFits
<1> QED
  BY <1>2, <1>3

(* One actor moves, the others stay.                                       *)
LEMMA MovingKeepsPoolInv ==
  ASSUME PoolInv, PoolTypes', NEW a \in Actors, ActorFits(a)',
         \A b \in Actors \ {a} :
           /\ job'[b] = job[b] /\ pending'[b] = pending[b] /\ rows'[b] = rows[b]
           /\ conns'[b] = conns[b]
           /\ InLine(b)' => InLine(b)
  PROVE  PoolInv'
BY ActorStays DEF PoolInv

(* A job that begins.                                                      *)
LEMMA StartJobKeeps ==
  ASSUME PoolInv, NEW a \in Actors, NEW op \in OpsOf(a), ~Working(a), StartJob(a, op)
  PROVE  PoolInv' /\ job' = [job EXCEPT ![a] = [op |-> op, at |-> 1, has |-> FALSE]]
<1>1. op \in Operations /\ 1 \in DOMAIN Program[op]
  BY Programs DEF OpsOf
<1>2. PoolTypes'
  <2>1. /\ [op |-> op, at |-> 1, has |-> FALSE] \in Job
        /\ [of |-> op, writes |-> {}] \in [of : Names, writes : SUBSET Nat]
    BY Programs, <1>1 DEF Job, Names
  <2> QED
    BY <2>1 DEF PoolInv, PoolTypes, StartJob
<1>3. /\ job'[a] = [op |-> op, at |-> 1, has |-> FALSE]
      /\ rows'[a] = [of |-> op, writes |-> {}]
      /\ pending'[a] = {} /\ conns'[a] = 0 /\ ~InLine(a)'
  BY DEF StartJob, PoolInv, PoolTypes, ActorFits, InLine, Waits
<1>4. UpTo(InTransaction(op), 1) = {} /\ UpTo(OnItsOwn(op), 1) = {}
  BY <1>1, Programs DEF UpTo, InTransaction, OnItsOwn
<1>5. JobFits(a)' /\ Working(a)' /\ Progress(a)'
  BY <1>1, <1>3, <1>4 DEF JobFits, Working, Progress
<1>8. Holds(a)'
  <2>1. ~Begun(job[a])'
    BY <1>1, <1>3, ProgramOf DEF Begun
  <2> QED
    BY <1>3, <2>1 DEF Holds
<1>6. \A b \in Actors \ {a} :
        /\ job'[b] = job[b] /\ pending'[b] = pending[b] /\ rows'[b] = rows[b]
        /\ conns'[b] = conns[b]
        /\ InLine(b)' => InLine(b)
  BY DEF StartJob, PoolInv, PoolTypes, InLine
<1>7. PoolInv'
  BY <1>2, <1>3, <1>5, <1>6, <1>8, MovingKeepsPoolInv DEF ActorFits
<1> QED
  BY <1>7 DEF StartJob


(* A job that is given up.  S are those that give up, done are their jobs  *)
(* afterwards.                                                             *)
LEMMA GivingUpKeeps ==
  ASSUME PoolInv, rows' = rows,
         NEW STATE S,
         NEW done \in {AfterJob, Gone},
         job' = [a \in Actors |-> IF a \in S THEN done[a] ELSE job[a]],
         conns' = [a \in Actors |-> IF a \in S THEN 0 ELSE conns[a]],
         pending' = [a \in Actors |-> IF a \in S THEN {} ELSE pending[a]],
         line' = LineWithout(S)
  PROVE  PoolInv'
<1>1. \A a \in Actors : done[a] \in Resting /\ done[a] \in Job
  BY RestIsNoWork
<1>2. PoolTypes'
  BY <1>1 DEF PoolInv, PoolTypes, LineWithout
<1>3. \A a \in Actors :
        \/ /\ job'[a] = job[a] /\ pending'[a] = pending[a] /\ conns'[a] = conns[a]
           /\ InLine(a)' => InLine(a)
        \/ job'[a] \in Resting /\ pending'[a] = {} /\ conns'[a] = 0 /\ ~InLine(a)'
  BY <1>1 DEF InLine, LineWithout
<1> QED
  BY <1>2, <1>3, StoppingKeepsPoolInv

(* A job at its next step.                                                 *)
LEMMA NextStep ==
  ASSUME PoolInv, NEW a \in Actors, Working(a)
  PROVE  /\ job[a].op \in OpsOf(a) /\ job[a].op \in Operations
         /\ job[a].at \in DOMAIN Program[job[a].op] /\ job[a].at \in Nat
         /\ Step(a) = Program[job[a].op][job[a].at]
         /\ Step(a) = "commit" => Advanced(a) = AfterJob[a]
         /\ Step(a) # "commit" =>
              /\ Advanced(a) \in Job
              /\ Advanced(a).op = job[a].op
              /\ Advanced(a).at = job[a].at + 1
              /\ Advanced(a).has = FALSE
              /\ job[a].at + 1 \in DOMAIN Program[job[a].op]
<1>1. job[a].op \in Operations /\ job[a] \notin Resting /\ job[a] \in Job
  BY RestIsNoWork DEF Working, PoolInv, PoolTypes
<1>2. /\ job[a].op \in OpsOf(a)
      /\ job[a].at \in DOMAIN Program[job[a].op]
  BY <1>1 DEF PoolInv, ActorFits, JobFits
<1>3. Step(a) = Program[job[a].op][job[a].at]
  BY DEF Step
<1>4. job[a].at \in Nat
  BY <1>1 DEF Job
<1>5. Step(a) = "commit" <=> job[a].at = Len(Program[job[a].op])
  BY <1>1, <1>2, <1>3, ProgramOf
<1>6. ASSUME Step(a) # "commit"
      PROVE  /\ Advanced(a) \in Job
             /\ Advanced(a).op = job[a].op
             /\ Advanced(a).at = job[a].at + 1
             /\ Advanced(a).has = FALSE
             /\ job[a].at + 1 \in DOMAIN Program[job[a].op]
  <2>1. Advanced(a) = [job[a] EXCEPT !.at = @ + 1, !.has = FALSE]
    BY <1>5, <1>6 DEF Advanced
  <2>2. /\ Advanced(a) \in Job
        /\ Advanced(a).op = job[a].op
        /\ Advanced(a).at = job[a].at + 1
        /\ Advanced(a).has = FALSE
    <3> DEFINE j == job[a]
    <3>1. j \in Job /\ Advanced(a) = [j EXCEPT !.at = j.at + 1, !.has = FALSE]
      BY <2>1, <1>1
    <3> HIDE DEF j
    <3>2. Advanced(a) = [op |-> j.op, at |-> j.at + 1, has |-> FALSE]
      BY <3>1 DEF Job
    <3>3. j.op \in Names /\ j.at + 1 \in Nat
      BY <3>1 DEF Job
    <3>4. [op |-> j.op, at |-> j.at + 1, has |-> FALSE] \in Job
      BY <3>3 DEF Job
    <3>5. /\ Advanced(a) \in Job
          /\ Advanced(a).op = j.op
          /\ Advanced(a).at = j.at + 1
          /\ Advanced(a).has = FALSE
      BY <3>2, <3>4
    <3> QED
      BY <3>5 DEF j
  <2>3. job[a].at + 1 \in DOMAIN Program[job[a].op]
    BY <1>1, <1>2, <1>5, <1>6, ProgramOf
  <2> QED
    BY <2>2, <2>3
<1>7. Step(a) = "commit" => Advanced(a) = AfterJob[a]
  BY <1>5 DEF Advanced
<1> QED
  BY <1>1, <1>2, <1>3, <1>4, <1>6, <1>7

(* One position more: what is before at + 1 is what is before at, and at.  *)
LEMMA NextUpTo ==
  ASSUME NEW op, DOMAIN Program[op] \subseteq Nat, NEW at \in DOMAIN Program[op]
  PROVE  /\ UpTo(InTransaction(op), at + 1) =
              IF Program[op][at] = "write" THEN UpTo(InTransaction(op), at) \cup {at}
                                           ELSE UpTo(InTransaction(op), at)
         /\ UpTo(OnItsOwn(op), at + 1) =
              IF Program[op][at] = "autocommit" THEN UpTo(OnItsOwn(op), at) \cup {at}
                                                ELSE UpTo(OnItsOwn(op), at)
         /\ (\E k \in DOMAIN Program[op] : k < at + 1 /\ Program[op][k] = "begin")
              <=> \/ \E k \in DOMAIN Program[op] : k < at /\ Program[op][k] = "begin"
                  \/ Program[op][at] = "begin"
<1>1. \A k \in DOMAIN Program[op] : k < at + 1 <=> k < at \/ k = at
  OBVIOUS
<1>2. \A k \in DOMAIN Program[op] : k < at => k # at
  OBVIOUS
<1>3. ASSUME NEW S, S \subseteq DOMAIN Program[op]
      PROVE  /\ at \in S => UpTo(S, at + 1) = UpTo(S, at) \cup {at}
             /\ at \notin S => UpTo(S, at + 1) = UpTo(S, at)
  BY <1>1, <1>2, <1>3 DEF UpTo
<1>4. /\ InTransaction(op) \subseteq DOMAIN Program[op]
      /\ at \in InTransaction(op) <=> Program[op][at] = "write"
  BY DEF InTransaction
<1>5. /\ OnItsOwn(op) \subseteq DOMAIN Program[op]
      /\ at \in OnItsOwn(op) <=> Program[op][at] = "autocommit"
  BY DEF OnItsOwn
<1>6. UpTo(InTransaction(op), at + 1) =
        IF Program[op][at] = "write" THEN UpTo(InTransaction(op), at) \cup {at}
                                     ELSE UpTo(InTransaction(op), at)
  BY <1>3, <1>4, Zenon
<1>7. UpTo(OnItsOwn(op), at + 1) =
        IF Program[op][at] = "autocommit" THEN UpTo(OnItsOwn(op), at) \cup {at}
                                          ELSE UpTo(OnItsOwn(op), at)
  BY <1>3, <1>5, Zenon
<1> QED
  BY <1>1, <1>6, <1>7, Zenon

(* A step that is not a commit is done: its write, if it is one, is where  *)
(* it belongs, and it has the connections it needs.                        *)
LEMMA AdvanceKeeps ==
  ASSUME PoolInv, NEW a \in Actors, Working(a), Step(a) # "commit",
         job' = [job EXCEPT ![a] = Advanced(a)],
         PoolTypes',
         \A b \in Actors \ {a} :
           /\ pending'[b] = pending[b] /\ rows'[b] = rows[b] /\ conns'[b] = conns[b]
           /\ InLine(b)' => InLine(b),
         ~InLine(a)',
         rows'[a].of = rows[a].of,
         pending'[a] = IF Step(a) = "write" THEN pending[a] \cup {job[a].at} ELSE pending[a],
         rows'[a].writes = IF Step(a) = "autocommit" THEN rows[a].writes \cup {job[a].at}
                             ELSE rows[a].writes,
         Step(a) = "autocommit" <=> job[a].has,
         conns'[a] = CASE Step(a) = "begin"      -> conns[a] + 1
                       [] Step(a) = "autocommit" -> conns[a] - 1
                       [] OTHER                  -> conns[a]
  PROVE  PoolInv'
<1> DEFINE op == job[a].op
           at == job[a].at
<1>1. /\ op \in OpsOf(a) /\ op \in Operations
      /\ at \in DOMAIN Program[op] /\ at \in Nat
      /\ Step(a) = Program[op][at]
      /\ Advanced(a).op = op
      /\ Advanced(a).at = at + 1
      /\ Advanced(a).has = FALSE
      /\ at + 1 \in DOMAIN Program[op]
  BY NextStep
<1>2. job'[a] = Advanced(a) /\ \A b \in Actors \ {a} : job'[b] = job[b]
  BY DEF PoolInv, PoolTypes
<1>3. DOMAIN Program[op] \subseteq Nat
  BY <1>1, ProgramOf
<1>4. UpTo(InTransaction(op), at + 1) =
        IF Step(a) = "write" THEN UpTo(InTransaction(op), at) \cup {at}
                             ELSE UpTo(InTransaction(op), at)
  <2>1. UpTo(InTransaction(op), at + 1) =
          IF Program[op][at] = "write" THEN UpTo(InTransaction(op), at) \cup {at}
                                       ELSE UpTo(InTransaction(op), at)
    <3> HIDE DEF op, at
    <3> QED
      BY <1>1, <1>3, NextUpTo, Zenon
  <2>2. Step(a) = Program[op][at]
    BY <1>1
  <2> HIDE DEF op, at
  <2> QED
    BY <2>1, <2>2, Zenon
<1>5. UpTo(OnItsOwn(op), at + 1) =
        IF Step(a) = "autocommit" THEN UpTo(OnItsOwn(op), at) \cup {at}
                                  ELSE UpTo(OnItsOwn(op), at)
  <2>1. UpTo(OnItsOwn(op), at + 1) =
          IF Program[op][at] = "autocommit" THEN UpTo(OnItsOwn(op), at) \cup {at}
                                            ELSE UpTo(OnItsOwn(op), at)
    <3> HIDE DEF op, at
    <3> QED
      BY <1>1, <1>3, NextUpTo, Zenon
  <2>2. Step(a) = Program[op][at]
    BY <1>1
  <2> HIDE DEF op, at
  <2> QED
    BY <2>1, <2>2, Zenon
<1>6. Progress(a) /\ Holds(a)
  BY DEF PoolInv, ActorFits
<1>7. Progress(a)'
  BY <1>1, <1>2, <1>4, <1>5, <1>6 DEF Progress
<1>8. JobFits(a)' /\ Working(a)'
  BY <1>1, <1>2 DEF JobFits, Working
<1>9. Holds(a)'
  <2>1. Begun(job[a])' <=> Begun(job[a]) \/ Step(a) = "begin"
    <3>1. Begun(job[a])' <=> \E k \in DOMAIN Program[op] :
                               k < at + 1 /\ Program[op][k] = "begin"
      <4>1. job'[a].op = op /\ job'[a].at = at + 1
        BY <1>1, <1>2
      <4> QED
        BY <4>1, Zenon DEF Begun
    <3>2. Begun(job[a]) <=> \E k \in DOMAIN Program[op] :
                              k < at /\ Program[op][k] = "begin"
      BY Zenon DEF Begun
    <3>3. (\E k \in DOMAIN Program[op] : k < at + 1 /\ Program[op][k] = "begin")
            <=> \/ \E k \in DOMAIN Program[op] : k < at /\ Program[op][k] = "begin"
                \/ Program[op][at] = "begin"
      BY <1>1, <1>3, NextUpTo, Zenon
    <3> QED
      BY <1>1, <3>1, <3>2, <3>3, Zenon
  <2>2. Step(a) = "begin" => ~Begun(job[a])
    <3> SUFFICES ASSUME Step(a) = "begin", NEW k \in DOMAIN Program[op],
                        k < at, Program[op][k] = "begin"
                 PROVE  FALSE
      BY DEF Begun
    <3>1. k = at
      BY <1>1, OneBegin
    <3> QED
      BY <1>1, <3>1
  <2>3. conns[a] = (IF Begun(job[a]) THEN 1 ELSE 0) + (IF job[a].has THEN 1 ELSE 0)
    BY <1>6 DEF Holds
  <2>4. ~(job[a].has)'
    BY <1>1, <1>2
  <2>5. conns'[a] = IF Begun(job[a])' THEN 1 ELSE 0
    <3>1. CASE Step(a) = "begin"
      <4>1. ~job[a].has
        BY <3>1
      <4> QED
        BY <2>1, <2>2, <2>3, <3>1, <4>1
    <3>2. CASE Step(a) = "autocommit"
      BY <2>1, <2>3, <3>2
    <3>3. CASE Step(a) \notin {"begin", "autocommit"}
      BY <2>1, <2>3, <3>3
    <3> QED
      BY <3>1, <3>2, <3>3
  <2> QED
    BY <2>4, <2>5 DEF Holds
<1>10. \A b \in Actors \ {a} :
         /\ job'[b] = job[b] /\ pending'[b] = pending[b] /\ rows'[b] = rows[b]
         /\ conns'[b] = conns[b]
         /\ InLine(b)' => InLine(b)
  BY <1>2
<1>11. ActorFits(a)'
  BY <1>7, <1>8, <1>9 DEF ActorFits
<1> QED
  BY <1>10, <1>11, MovingKeepsPoolInv

(* What a step does to the job of its actor: it ends, stays where it is,   *)
(* or goes one step on.                                                    *)
Moves(a) ==
  /\ \A b \in Actors \ {a} : job'[b] = job[b]
  /\ \/ job'[a] = AfterJob[a]
     \/ job'[a].op = job[a].op /\ job'[a].at = job[a].at
     \/ /\ job'[a].op = job[a].op /\ job'[a].at = job[a].at + 1
        /\ Step(a) \notin {"build", "permit", "estimate", "sign"}

(* A commit ends its job, and leaves all of it in the database.            *)
LEMMA CommitKeeps ==
  ASSUME PoolInv, NEW a \in Actors, Commit(a)
  PROVE  PoolInv' /\ job'[a] = AfterJob[a] /\ \A b \in Actors \ {a} : job'[b] = job[b]
<1> DEFINE op == job[a].op
           at == job[a].at
<1>1. Working(a) /\ Step(a) = "commit"
  BY DEF Commit, Step
<1>2. /\ op \in Operations /\ at \in DOMAIN Program[op]
      /\ Program[op][at] = "commit"
      /\ Advanced(a) = AfterJob[a]
  BY <1>1, NextStep
<1>3. /\ Len(Program[op]) \in Nat
      /\ DOMAIN Program[op] = 1 .. Len(Program[op])
      /\ at = Len(Program[op])
      /\ \A k \in DOMAIN Program[op] : k \in Nat /\ (Program[op][k] = "commit" <=> k = at)
  BY <1>2, ProgramOf
<1>4. Progress(a) /\ Holds(a) /\ ~InLine(a)
  BY <1>1 DEF PoolInv, ActorFits, Waits
<1>5. conns[a] = 1
  <2>1. PICK b \in DOMAIN Program[op] :
          b < Len(Program[op]) /\ Program[op][b] = "begin"
    BY <1>2, ProgramOf
  <2>2. Begun(job[a])
    BY <1>3, <2>1 DEF Begun
  <2>3. ~job[a].has
    BY <1>1, <1>4 DEF Holds
  <2> QED
    BY <1>4, <2>2, <2>3 DEF Holds
<1>6. UpTo(InTransaction(op), at) = InTransaction(op) /\ UpTo(OnItsOwn(op), at) = OnItsOwn(op)
  BY <1>3 DEF UpTo, InTransaction, OnItsOwn
<1>7. pending[a] = InTransaction(op) /\ rows[a].writes = OnItsOwn(op) /\ rows[a].of = op
  BY <1>4, <1>6 DEF Progress
<1>8. /\ job'[a] = AfterJob[a] /\ job'[a] \in Resting /\ job'[a] \in Job
      /\ pending'[a] = {} /\ conns'[a] = 0
      /\ ~InLine(a)'
  BY <1>2, <1>4, <1>5, RestIsNoWork DEF Commit, Advance, PoolInv, PoolTypes, InLine
<1>9. rows'[a].of = op /\ rows'[a].writes = OnItsOwn(op) \cup InTransaction(op)
  BY <1>7 DEF Commit, PoolInv, PoolTypes
<1>10. Whole(a)'
  <2>1. (OnItsOwn(op) \cup InTransaction(op)) \cap InTransaction(op) = InTransaction(op)
    OBVIOUS
  <2> QED
    BY <1>2, <1>9, <2>1 DEF Whole
<1>11. ActorFits(a)'
  <2>1. JobFits(a)' /\ ~Working(a)'
    BY <1>8, RestIsNoWork DEF JobFits, Working
  <2> QED
    BY <1>8, <1>10, <2>1 DEF ActorFits
<1>12. PoolTypes'
  <2>1. /\ rows[a] \in [of : Names, writes : SUBSET Nat]
        /\ rows' = [rows EXCEPT ![a] = [rows[a] EXCEPT !.writes = @ \cup pending[a]]]
        /\ pending[a] \in SUBSET Nat
    BY DEF Commit, PoolInv, PoolTypes
  <2>2. [rows[a] EXCEPT !.writes = @ \cup pending[a]] \in [of : Names, writes : SUBSET Nat]
    BY <2>1
  <2>3. rows' \in [Actors -> [of : Names, writes : SUBSET Nat]]
    BY <2>1, <2>2 DEF PoolInv, PoolTypes
  <2>4. job' = [job EXCEPT ![a] = AfterJob[a]] /\ job' \in [Actors -> Job]
    BY <1>2, <1>8 DEF Commit, Advance, PoolInv, PoolTypes
  <2>5. conns' = [conns EXCEPT ![a] = 0] /\ conns' \in [Actors -> Nat]
    BY <1>5 DEF Commit, PoolInv, PoolTypes
  <2> QED
    BY <2>3, <2>4, <2>5 DEF Commit, PoolInv, PoolTypes
<1>13. \A b \in Actors \ {a} :
         /\ job'[b] = job[b] /\ pending'[b] = pending[b] /\ rows'[b] = rows[b]
         /\ conns'[b] = conns[b]
         /\ InLine(b)' => InLine(b)
  BY DEF Commit, Advance, PoolInv, PoolTypes, InLine
<1>14. PoolInv'
  BY <1>11, <1>12, <1>13, MovingKeepsPoolInv
<1> QED
  BY <1>8, <1>13, <1>14

(* A job that gives up alone.                                              *)
LEMMA OneGivesUp ==
  ASSUME PoolInv, NEW a \in Actors, GiveUp({a}, AfterJob)
  PROVE  PoolInv' /\ job'[a] = AfterJob[a] /\ \A b \in Actors \ {a} : job'[b] = job[b]
<1>1. PoolInv'
  BY GivingUpKeeps DEF GiveUp
<1> QED
  BY <1>1 DEF GiveUp

(* The steps of a job on the pool.                                         *)
LEMMA PoolStepKeeps ==
  ASSUME PoolInv, NEW a \in Actors, PoolStep(a)
  PROVE  PoolInv' /\ Moves(a) /\ Working(a)
<1> USE DEF PoolInv, PoolTypes
<1> ActorFits(a)
  OBVIOUS
<1>1. CASE WaitForConnection(a)
  <2>1. Working(a) /\ Waits(a)
    BY <1>1 DEF WaitForConnection, Step, Waits
  <2>2. DOMAIN line' = DOMAIN line \cup {a}
    BY <1>1 DEF WaitForConnection
  <2>3. Waits(a)' /\ ActorFits(a)'
    BY <1>1, <2>1 DEF WaitForConnection, Waits, ActorFits, JobFits, Working, Step, Progress,
                      Holds, Begun
  <2>4. \A b \in Actors \ {a} :
          /\ job'[b] = job[b] /\ pending'[b] = pending[b] /\ rows'[b] = rows[b]
          /\ conns'[b] = conns[b]
          /\ InLine(b)' => InLine(b)
    BY <1>1, <2>2 DEF WaitForConnection, InLine
  <2>5. PoolTypes'
    BY <1>1, <2>2 DEF WaitForConnection
  <2>6. PoolInv'
    BY <2>3, <2>4, <2>5, MovingKeepsPoolInv
  <2> QED
    BY <1>1, <2>1, <2>6 DEF WaitForConnection, Moves
<1>2. CASE GetConnection(a) /\ Step(a) = "begin"
  <2>1. Working(a) /\ Waits(a) /\ ~job[a].has
    BY <1>2 DEF GetConnection, Waits, ActorFits
  <2>2. /\ job' = [job EXCEPT ![a] = Advanced(a)]
        /\ conns' = [conns EXCEPT ![a] = @ + 1]
        /\ DOMAIN line' = DOMAIN line \ {a}
        /\ pending' = pending /\ rows' = rows
    BY <1>2 DEF GetConnection, Advance, LineWithout
  <2>3. PoolTypes'
    <3>1. Advanced(a) \in Job
      BY <1>2, <2>1, NextStep
    <3>2. job' \in [Actors -> Job]
      BY <2>2, <3>1
    <3>3. conns' \in [Actors -> Nat]
      BY <2>2
    <3> QED
      BY <2>2, <3>2, <3>3
  <2>4. PoolInv'
    BY <1>2, <2>1, <2>2, <2>3, AdvanceKeeps DEF InLine
  <2> QED
    BY <1>2, <2>1, <2>2, <2>4, NextStep DEF Moves
<1>3. CASE GetConnection(a) /\ Step(a) # "begin"
  <2>1. Working(a) /\ ~job[a].has /\ Step(a) = "autocommit"
    BY <1>3 DEF GetConnection, Waits, ActorFits
  <2>2. /\ job' = [job EXCEPT ![a] = [job[a] EXCEPT !.has = TRUE]]
        /\ conns' = [conns EXCEPT ![a] = @ + 1]
        /\ DOMAIN line' = DOMAIN line \ {a}
        /\ pending' = pending /\ rows' = rows
    BY <1>3 DEF GetConnection, LineWithout
  <2>3. job'[a] = [op |-> job[a].op, at |-> job[a].at, has |-> TRUE] /\ job'[a] \in Job
    <3> DEFINE j == job[a]
    <3>1. j \in Job /\ job'[a] = [j EXCEPT !.has = TRUE]
      BY <2>2
    <3> HIDE DEF j
    <3>2. job'[a] = [op |-> j.op, at |-> j.at, has |-> TRUE]
      BY <3>1 DEF Job
    <3>3. j.op \in Names /\ j.at \in Nat
      BY <3>1 DEF Job
    <3>4. [op |-> j.op, at |-> j.at, has |-> TRUE] \in Job
      BY <3>3 DEF Job
    <3> QED
      BY <3>2, <3>4 DEF j
  <2>4. PoolTypes'
    <3>1. job' = [job EXCEPT ![a] = job'[a]] /\ job' \in [Actors -> Job]
      BY <2>2, <2>3
    <3>2. conns' \in [Actors -> Nat]
      BY <2>2
    <3> QED
      BY <2>2, <3>1, <3>2
  <2>5. Working(a)' /\ Step(a)' = Step(a) /\ Begun(job[a])' = Begun(job[a])
    BY <2>1, <2>3 DEF Working, Step, Begun
  <2>6. Holds(a)'
    <3>1. conns[a] = IF Begun(job[a]) THEN 1 ELSE 0
      BY <2>1 DEF ActorFits, Holds
    <3>2. conns'[a] = (IF Begun(job[a]) THEN 1 ELSE 0) + 1
      BY <2>2, <3>1
    <3>3. (job[a].has)' = TRUE
      BY <2>3
    <3> QED
      BY <2>1, <2>5, <3>2, <3>3 DEF Holds
  <2>7. Progress(a)' /\ JobFits(a)'
    <3>1. (job[a].op)' = job[a].op /\ (job[a].at)' = job[a].at
      BY <2>3
    <3>2. Progress(a) /\ job[a].op \in OpsOf(a) /\ job[a].at \in DOMAIN Program[job[a].op]
      BY <2>1, NextStep DEF ActorFits
    <3> QED
      BY <2>2, <3>1, <3>2 DEF Progress, JobFits
  <2>8. ActorFits(a)'
    BY <2>2, <2>5, <2>6, <2>7 DEF ActorFits, InLine
  <2>9. \A b \in Actors \ {a} :
          /\ job'[b] = job[b] /\ pending'[b] = pending[b] /\ rows'[b] = rows[b]
          /\ conns'[b] = conns[b]
          /\ InLine(b)' => InLine(b)
    BY <2>2 DEF InLine
  <2>10. PoolInv'
    BY <2>4, <2>8, <2>9, MovingKeepsPoolInv
  <2> QED
    BY <2>1, <2>3, <2>9, <2>10 DEF Moves
<1>4. CASE AcquireTimesOut(a)
  BY <1>4, OneGivesUp DEF AcquireTimesOut, Moves, ActorFits, Waits
<1>5. CASE RunStatement(a)
  <2>1. Working(a) /\ job[a].has /\ Step(a) = "autocommit" /\ ~InLine(a)
    BY <1>5 DEF RunStatement, Step, ActorFits, Waits
  <2>2. conns[a] \in Nat \ {0}
    BY <2>1 DEF ActorFits, Holds
  <2>3. /\ job' = [job EXCEPT ![a] = Advanced(a)]
        /\ conns' = [conns EXCEPT ![a] = @ - 1]
        /\ rows' = [rows EXCEPT ![a] = [rows[a] EXCEPT !.writes = @ \cup {job[a].at}]]
        /\ line' = line /\ pending' = pending
    BY <1>5 DEF RunStatement, Advance
  <2>4. /\ rows'[a].of = rows[a].of
        /\ rows'[a].writes = rows[a].writes \cup {job[a].at}
        /\ rows' \in [Actors -> [of : Names, writes : SUBSET Nat]]
    <3>1. rows[a] \in [of : Names, writes : SUBSET Nat] /\ job[a].at \in Nat
      BY <2>1, NextStep
    <3> DEFINE r == [rows[a] EXCEPT !.writes = @ \cup {job[a].at}]
    <3>2. /\ r \in [of : Names, writes : SUBSET Nat]
          /\ r.of = rows[a].of /\ r.writes = rows[a].writes \cup {job[a].at}
      BY <3>1
    <3> HIDE DEF r
    <3>3. rows' = [rows EXCEPT ![a] = r]
      BY <2>3 DEF r
    <3> QED
      BY <3>2, <3>3
  <2>5. PoolTypes'
    <3>1. Advanced(a) \in Job
      BY <2>1, NextStep
    <3>2. job' \in [Actors -> Job]
      BY <2>3, <3>1
    <3>3. conns' \in [Actors -> Nat]
      <4>1. conns[a] - 1 \in Nat
        BY <2>2
      <4> QED
        BY <2>3, <4>1
    <3> QED
      BY <2>3, <2>4, <3>2, <3>3
  <2>6. PoolInv'
    BY <2>1, <2>3, <2>4, <2>5, AdvanceKeeps DEF InLine
  <2> QED
    BY <2>1, <2>3, <2>6, NextStep DEF Moves
<1>6. CASE WriteInTransaction(a)
  <2>1. Working(a) /\ Step(a) = "write" /\ ~InLine(a) /\ ~job[a].has
    BY <1>6 DEF WriteInTransaction, Step, ActorFits, Waits, Holds
  <2>2. /\ job' = [job EXCEPT ![a] = Advanced(a)]
        /\ pending' = [pending EXCEPT ![a] = @ \cup {job[a].at}]
        /\ line' = line /\ conns' = conns /\ rows' = rows
    BY <1>6 DEF WriteInTransaction, Advance
  <2>3. PoolTypes'
    <3>1. Advanced(a) \in Job /\ job[a].at \in Nat
      BY <2>1, NextStep
    <3>2. job' \in [Actors -> Job]
      BY <2>2, <3>1
    <3>3. pending' \in [Actors -> SUBSET Nat]
      <4>1. pending[a] \cup {job[a].at} \in SUBSET Nat
        BY <3>1
      <4> QED
        BY <2>2, <4>1
    <3> QED
      BY <2>2, <3>2, <3>3
  <2>4. PoolInv'
    BY <2>1, <2>2, <2>3, AdvanceKeeps DEF InLine
  <2> QED
    BY <2>1, <2>2, <2>4, NextStep DEF Moves
<1>7. CASE DatabaseIsLocked(a)
  <2>1. Working(a)
    BY <1>7 DEF DatabaseIsLocked, Step
  <2> QED
    BY <1>7, <2>1, OneGivesUp DEF DatabaseIsLocked, Moves
<1>8. CASE Commit(a)
  <2>1. Working(a)
    BY <1>8 DEF Commit, Step
  <2> QED
    BY <1>8, <2>1, CommitKeeps DEF Moves
<1> QED
  BY <1>1, <1>2, <1>3, <1>4, <1>5, <1>6, <1>7, <1>8 DEF PoolStep

-----------------------------------------------------------------------------
(* Steps of the daemon.                                                    *)

(* Only the executor has transfers.                                        *)
LEMMA WhoHasWhat ==
  ASSUME PoolInv
  PROVE  /\ \A a \in Actors : Working(a) =>
              /\ job[a] \notin Resting
              /\ a = Executor <=> job[a].op = "transfer"
         /\ \A a \in Actors : Step(a) \in {"build", "permit", "estimate", "sign"} =>
              a = Executor /\ Working(a)
         /\ job[Executor].op = "transfer" =>
              /\ Working(Executor)
              /\ job[Executor].at \in Nat
              /\ Step(Executor) = "build" <=> job[Executor].at = 1
              /\ Step(Executor) = "permit" <=> job[Executor].at = 2
              /\ Step(Executor) = "estimate" <=> job[Executor].at = 3
              /\ Step(Executor) = "sign" <=> job[Executor].at = 4
<1>1. ASSUME NEW a \in Actors, Working(a)
      PROVE  /\ job[a] \notin Resting
             /\ a = Executor <=> job[a].op = "transfer"
  BY <1>1, NextStep, RestIsNoWork DEF OpsOf, Working
<1>2. ASSUME NEW a \in Actors, Step(a) \in {"build", "permit", "estimate", "sign"}
      PROVE  a = Executor /\ Working(a)
  <2>1. Working(a)
    BY <1>2 DEF Step
  <2>2. CASE a # Executor
    <3>1. job[a].op \in {"create", "cancel"} /\ job[a].at \in DOMAIN Program[job[a].op]
          /\ Step(a) = Program[job[a].op][job[a].at]
      BY <2>1, <2>2, NextStep DEF OpsOf
    <3> QED
      BY <1>2, <3>1, Programs
  <2> QED
    BY <2>1, <2>2
<1>3. ASSUME job[Executor].op = "transfer"
      PROVE  /\ Working(Executor)
             /\ job[Executor].at \in Nat
             /\ Step(Executor) = "build" <=> job[Executor].at = 1
             /\ Step(Executor) = "permit" <=> job[Executor].at = 2
             /\ Step(Executor) = "estimate" <=> job[Executor].at = 3
             /\ Step(Executor) = "sign" <=> job[Executor].at = 4
  <2>1. Working(Executor)
    BY <1>3, Programs DEF Working
  <2>2. /\ job[Executor].at \in DOMAIN Program["transfer"] /\ job[Executor].at \in Nat
        /\ Step(Executor) = Program["transfer"][job[Executor].at]
    BY <1>3, <2>1, NextStep
  <2> QED
    BY <2>1, <2>2, Programs
<1> QED
  BY <1>1, <1>2, <1>3

(* Jobs that were at work and stop, with nothing else changing.            *)
LEMMA StoppedJobsKeep ==
  ASSUME DaemonInv, main' = main, api' = api, tx' = tx,
         keyring' = keyring \/ keyring' = "panicked",
         \A a \in Actors : job'[a] = job[a] \/ (Working(a) /\ job'[a] \in Resting)
  PROVE  TransferIsPayable' /\ PartsAreInStep'
<1>1. \A a \in Actors : Working(a) => job[a] \notin Resting
  BY WhoHasWhat DEF DaemonInv
<1>2. \A j \in Resting : j.op # "transfer" /\ j.op \notin Operations
  BY RestIsNoWork
<1>3. TransferIsPayable'
  BY <1>2 DEF DaemonInv, TransferIsPayable, Payable
<1>4. \A a \in Actors : Working(a)' => Working(a)
  BY <1>2 DEF Working
<1>5. job'[Executor] # job[Executor] => job[Executor] \notin {Off, Ended}
  BY <1>1 DEF Resting
<1>6. Join' = Join /\ Down' = Down
  BY DEF Join, Down
<1>7. PartsAreInStep'
  BY <1>4, <1>5, <1>6 DEF DaemonInv, PartsAreInStep
<1> QED
  BY <1>3, <1>7

(* A job that takes a step other than the ones that prepare a transfer.    *)
LEMMA MovedJobKeeps ==
  ASSUME DaemonInv, NEW a \in Actors, Working(a), Moves(a),
         main' = main, api' = api, tx' = tx, keyring' = keyring
  PROVE  TransferIsPayable' /\ PartsAreInStep'
<1>1. CASE job'[a] = AfterJob[a]
  BY <1>1, StoppedJobsKeep, RestIsNoWork DEF Moves
<1>2. CASE /\ job'[a].op = job[a].op
           /\ \/ job'[a].at = job[a].at
              \/ /\ job'[a].at = job[a].at + 1
                 /\ Step(a) \notin {"build", "permit", "estimate", "sign"}
  <2>1. \A b \in Actors : Working(b)' = Working(b)
    BY <1>2 DEF Moves, Working
  <2>2. TransferIsPayable'
    <3> SUFFICES ASSUME job'[Executor].op = "transfer", job'[Executor].at \in {4, 5, 6}
                 PROVE  Payable' /\ (job'[Executor].at \in {5, 6} => tx'.signed = tx'.hash)
      BY DEF TransferIsPayable
    <3>1. job[Executor].op = "transfer"
      BY <1>2 DEF Moves
    <3>2. \/ job'[Executor].at = job[Executor].at
          \/ job'[Executor].at = job[Executor].at + 1 /\ job[Executor].at \notin {3, 4}
      BY <1>2, <3>1, WhoHasWhat DEF Moves, DaemonInv
    <3>3. /\ job[Executor].at \in {4, 5, 6}
          /\ job'[Executor].at \in {5, 6} => job[Executor].at \in {5, 6}
      BY <3>1, <3>2, WhoHasWhat DEF DaemonInv
    <3>4. Payable /\ (job'[Executor].at \in {5, 6} => tx.signed = tx.hash)
      BY <3>1, <3>3 DEF DaemonInv, TransferIsPayable
    <3> QED
      BY <3>4 DEF Payable
  <2>3. Working(Executor) => job'[Executor] \notin {Off, Ended} /\ job[Executor] \notin {Off, Ended}
    BY <2>1, RestIsNoWork DEF Working, Resting
  <2>4. ~Working(Executor) => job'[Executor] = job[Executor]
    BY DEF Moves
  <2>5. Join' = Join /\ Down' = Down
    BY DEF Join, Down
  <2>6. PartsAreInStep'
    BY <2>1, <2>3, <2>4, <2>5 DEF DaemonInv, PartsAreInStep
  <2> QED
    BY <2>2, <2>6
<1> QED
  BY <1>1, <1>2 DEF Moves

(* What the rest of the daemon says of a stop depends on its own variables *)
(* only.                                                                   *)
LEMMA StopStays ==
  ASSUME StopHasACause, UNCHANGED <<outcome, panics, token, interrupts, listener, main, exit>>
  PROVE  StopHasACause'
BY DEF StopHasACause, Down

(* The steps that only move the jobs.                                      *)
LEMMA ActorStepKeeps ==
  ASSUME DaemonInv, NEW a \in Actors, ActorStep(a)
  PROVE  DaemonInv'
<1>1. CASE PoolStep(a) /\ UNCHANGED <<keyringVars, tx, daemonVars>>
  <2>1. PoolInv' /\ Moves(a) /\ Working(a)
    BY <1>1, PoolStepKeeps DEF DaemonInv
  <2>2. TransferIsPayable' /\ PartsAreInStep'
    BY <1>1, <2>1, MovedJobKeeps DEF keyringVars, daemonVars
  <2>3. StopHasACause'
    BY <1>1, StopStays DEF DaemonInv, daemonVars
  <2> QED
    BY <1>1, <2>1, <2>2, <2>3 DEF DaemonInv, Shape, keyringVars, daemonVars
<1>2. CASE SendMessage(a) /\ UNCHANGED daemonVars
  <2>0. Working(a)
    BY <1>2 DEF SendMessage, Step, KeySteps
  <2>1. StopHasACause'
    BY <1>2, StopStays DEF DaemonInv, daemonVars
  <2>2. CASE inbox' = Append(inbox, a) /\ UNCHANGED poolVars
    <3>1. PoolInv'
      BY <2>2 DEF DaemonInv, PoolInv, PoolTypes, poolVars, ActorFits, JobFits, InLine, Waits,
                  Working, Step, Progress, Holds, Begun, Whole
    <3>2. TransferIsPayable' /\ PartsAreInStep'
      BY <1>2, <2>2, StoppedJobsKeep DEF SendMessage, poolVars, daemonVars
    <3>3. Shape'
      BY <1>2, <2>2 DEF DaemonInv, Shape, SendMessage, daemonVars
    <3> QED
      BY <2>1, <3>1, <3>2, <3>3 DEF DaemonInv
  <2>3. CASE GiveUp({a}, AfterJob) /\ UNCHANGED inbox
    <3>1. PoolInv' /\ job'[a] = AfterJob[a] /\ \A b \in Actors \ {a} : job'[b] = job[b]
      BY <2>3, OneGivesUp DEF DaemonInv
    <3>2. TransferIsPayable' /\ PartsAreInStep'
      BY <1>2, <2>0, <3>1, StoppedJobsKeep, RestIsNoWork DEF SendMessage, daemonVars
    <3>3. Shape'
      BY <1>2, <2>3 DEF DaemonInv, Shape, SendMessage, daemonVars
    <3> QED
      BY <2>1, <3>1, <3>2, <3>3 DEF DaemonInv
  <2> QED
    BY <1>2, <2>2, <2>3 DEF SendMessage
<1> QED
  BY <1>1, <1>2 DEF ActorStep

(* A step of a job that advances and touches the pool no further.          *)
LEMMA PlainAdvance ==
  ASSUME PoolInv, NEW a \in Actors,
         Step(a) \in {"address", "permit", "sign", "build", "estimate", "submit"},
         Advance(a), UNCHANGED <<conns, line, writer, pending, rows>>
  PROVE  /\ PoolInv' /\ Working(a)
         /\ job'[a].op = job[a].op /\ job'[a].at = job[a].at + 1
         /\ \A b \in Actors \ {a} : job'[b] = job[b]
<1>1. Working(a)
  BY DEF Step
<1>2. /\ ~InLine(a) /\ ~job[a].has
  BY <1>1 DEF PoolInv, ActorFits, Waits, Holds
<1>3. Advanced(a) \in Job /\ Advanced(a).op = job[a].op /\ Advanced(a).at = job[a].at + 1
  BY <1>1, NextStep
<1>4. job' = [job EXCEPT ![a] = Advanced(a)]
  BY DEF Advance
<1>5. PoolTypes'
  BY <1>3, <1>4 DEF PoolInv, PoolTypes
<1>6. PoolInv'
  BY <1>1, <1>2, <1>4, <1>5, AdvanceKeeps DEF InLine
<1> QED
  BY <1>1, <1>3, <1>4, <1>6 DEF PoolInv, PoolTypes

(* What it leaves alone when the job is the executor's.                    *)
LEMMA PreparingKeepsParts ==
  ASSUME DaemonInv, Working(Executor), job'[Executor].op = job[Executor].op,
         \A b \in Actors \ {Executor} : job'[b] = job[b],
         main' = main, api' = api, keyring' = keyring
  PROVE  PartsAreInStep'
<1>1. \A b \in Actors : Working(b)' = Working(b)
  BY DEF Working
<1>2. job'[Executor] \notin {Off, Ended} /\ job[Executor] \notin {Off, Ended}
  BY <1>1, RestIsNoWork DEF Working, Resting
<1>3. Join' = Join /\ Down' = Down
  BY DEF Join, Down
<1> QED
  BY <1>1, <1>2, <1>3 DEF DaemonInv, PartsAreInStep

(* The steps that prepare a transfer.                                      *)
LEMMA OutsideStepKeeps ==
  ASSUME DaemonInv, AnswerFromOutside
  PROVE  DaemonInv'
<1>0. Executor \in Actors /\ PoolInv
  BY DEF DaemonInv
<1>1. StopHasACause'
  BY StopStays DEF DaemonInv, AnswerFromOutside, daemonVars
<1>2. \A n \in Nat, m \in Nat : SaturatingSub(n, m) \in Nat
  BY DEF SaturatingSub
<1>3. CASE BuildTransfer
  <2>1. PICK n \in AmountsToSend :
          tx' = [asked |-> n, call |-> n, gas |-> 0, hash |-> NoHash, signed |-> NoHash]
    BY <1>3 DEF BuildTransfer
  <2>2. tx' \in Tx
    BY <2>1, KeyringAssumption DEF Tx, NoHash
  <2>3. /\ PoolInv' /\ Working(Executor)
        /\ job'[Executor].op = job[Executor].op /\ job'[Executor].at = job[Executor].at + 1
        /\ \A b \in Actors \ {Executor} : job'[b] = job[b]
    BY <1>0, <1>3, PlainAdvance DEF BuildTransfer
  <2>4. job[Executor].op = "transfer" /\ job[Executor].at = 1
    BY <1>0, <1>3, <2>3, WhoHasWhat DEF BuildTransfer
  <2>5. TransferIsPayable'
    BY <2>3, <2>4 DEF TransferIsPayable
  <2>6. PartsAreInStep'
    BY <1>3, <2>3, PreparingKeepsParts DEF BuildTransfer, keyringVars, AnswerFromOutside, daemonVars
  <2>7. Shape'
    BY <1>3, <2>2 DEF DaemonInv, Shape, BuildTransfer, keyringVars, AnswerFromOutside, daemonVars
  <2> QED
    BY <1>1, <2>3, <2>5, <2>6, <2>7 DEF DaemonInv
<1>4. CASE EstimateAndRebuild
  <2> DEFINE left(cost) == SaturatingSub(SaturatingSub(tx.asked, cost), Margin)
  <2>1. PICK cost \in Costs :
          /\ left(cost) > 0
          /\ tx' = [tx EXCEPT !.call = left(cost), !.gas = cost, !.hash = HashOfOp(left(cost), cost)]
    BY <1>4 DEF EstimateAndRebuild
  <2>2. tx \in Tx /\ tx.asked \in Nat /\ cost \in Nat /\ left(cost) \in Nat /\ Margin \in Nat
    BY <1>2, KeyringAssumption DEF DaemonInv, Shape, Tx
  <2>3. left(cost) = tx.asked - cost - Margin
    BY <2>1, <2>2 DEF SaturatingSub
  <2>4. /\ tx' \in Tx
        /\ tx'.asked = tx.asked /\ tx'.call = left(cost) /\ tx'.gas = cost
        /\ tx'.hash = HashOfOp(left(cost), cost)
    <3> HIDE DEF left
    <3>1. HashOfOp(left(cost), cost) \in Seq(Nat)
      BY <2>2 DEF HashOfOp
    <3> QED
      BY <2>1, <2>2, <3>1 DEF Tx
  <2>5. Payable'
    <3>1. left(cost) + cost + Margin <= tx.asked
      BY <2>2, <2>3
    <3> QED
      BY <2>1, <2>4, <3>1 DEF Payable, HashOfOp
  <2>6. /\ PoolInv' /\ Working(Executor)
        /\ job'[Executor].op = job[Executor].op /\ job'[Executor].at = job[Executor].at + 1
        /\ \A b \in Actors \ {Executor} : job'[b] = job[b]
    BY <1>0, <1>4, PlainAdvance DEF EstimateAndRebuild
  <2>7. job[Executor].op = "transfer" /\ job[Executor].at = 3
    BY <1>0, <1>4, <2>6, WhoHasWhat DEF EstimateAndRebuild
  <2>8. TransferIsPayable'
    BY <2>5, <2>6, <2>7 DEF TransferIsPayable
  <2>9. PartsAreInStep'
    BY <1>4, <2>6, PreparingKeepsParts DEF EstimateAndRebuild, keyringVars, AnswerFromOutside,
                                           daemonVars
  <2>10. Shape'
    BY <1>4, <2>4 DEF DaemonInv, Shape, EstimateAndRebuild, keyringVars, AnswerFromOutside, daemonVars
  <2> QED
    BY <1>1, <2>6, <2>8, <2>9, <2>10 DEF DaemonInv
<1>5. CASE /\ Step(Executor) \in {"build", "estimate"}
           /\ GiveUp({Executor}, AfterJob)
           /\ UNCHANGED <<keyringVars, tx>>
  <2>1. Working(Executor)
    BY <1>5 DEF Step
  <2>2. /\ PoolInv' /\ job'[Executor] = AfterJob[Executor]
        /\ \A b \in Actors \ {Executor} : job'[b] = job[b]
    BY <1>0, <1>5, OneGivesUp
  <2>3. TransferIsPayable' /\ PartsAreInStep'
    BY <1>0, <1>5, <2>1, <2>2, StoppedJobsKeep, RestIsNoWork
       DEF keyringVars, AnswerFromOutside, daemonVars
  <2>4. Shape'
    BY <1>5 DEF DaemonInv, Shape, keyringVars, AnswerFromOutside, daemonVars
  <2> QED
    BY <1>1, <2>2, <2>3, <2>4 DEF DaemonInv
<1>6. CASE SubmitAndWatch
  <2>1. /\ PoolInv' /\ Working(Executor)
        /\ job'[Executor].op = job[Executor].op /\ job'[Executor].at = job[Executor].at + 1
        /\ \A b \in Actors \ {Executor} : job'[b] = job[b]
    BY <1>0, <1>6, PlainAdvance DEF SubmitAndWatch
  <2>2. Moves(Executor)
    BY <1>6, <2>1 DEF Moves, SubmitAndWatch
  <2>3. TransferIsPayable' /\ PartsAreInStep'
    BY <1>0, <1>6, <2>1, <2>2, MovedJobKeeps
       DEF SubmitAndWatch, keyringVars, AnswerFromOutside, daemonVars
  <2>4. Shape'
    BY <1>6 DEF DaemonInv, Shape, SubmitAndWatch, keyringVars, AnswerFromOutside, daemonVars
  <2> QED
    BY <1>1, <2>1, <2>3, <2>4 DEF DaemonInv
<1> QED
  BY <1>3, <1>4, <1>5, <1>6 DEF AnswerFromOutside, OutsideStep, FeeTakesAll, OutsideFails

(* The pool that does not change.                                          *)
LEMMA PoolStays ==
  ASSUME PoolInv, UNCHANGED poolVars
  PROVE  PoolInv' /\ \A a \in Actors : Working(a)' = Working(a)
BY DEF PoolInv, PoolTypes, poolVars, ActorFits, JobFits, InLine, Waits, Working, Step, Progress,
       Holds, Begun, Whole

(* process_message, with an answer, with an error, or with an answer that  *)
(* nobody waits for.                                                       *)
LEMMA ProcessMessageKeeps ==
  ASSUME DaemonInv, ProcessMessage, UNCHANGED daemonVars
  PROVE  DaemonInv'
<1> DEFINE a == Head(inbox)
<1>0. a \in Actors /\ Tail(inbox) \in Seq(Actors) /\ PoolInv /\ tx \in Tx
  BY DEF DaemonInv, Shape, ProcessMessage
<1>1. StopHasACause'
  BY StopStays DEF DaemonInv, daemonVars
<1>2. tx' \in Tx => Shape'
  BY <1>0 DEF DaemonInv, Shape, ProcessMessage, daemonVars
<1>3. UNCHANGED <<keyring, main, api>>
  BY DEF ProcessMessage, daemonVars
<1> HIDE DEF a
<1>4. CASE /\ Step(a) \in KeySteps /\ Advance(a)
           /\ tx' = WithAnswer(a)
           /\ UNCHANGED <<conns, line, writer, pending, rows>>
  <2>1. /\ PoolInv' /\ Working(a)
        /\ job'[a].op = job[a].op /\ job'[a].at = job[a].at + 1
        /\ \A b \in Actors \ {a} : job'[b] = job[b]
    BY <1>0, <1>4, PlainAdvance DEF KeySteps
  <2>2. CASE Step(a) = "address"
    <3>1. tx' = tx
      BY <1>4, <2>2 DEF WithAnswer
    <3>2. Moves(a)
      BY <2>1, <2>2 DEF Moves
    <3>3. TransferIsPayable' /\ PartsAreInStep'
      BY <1>0, <1>3, <2>1, <3>1, <3>2, MovedJobKeeps
    <3> QED
      BY <1>0, <1>1, <1>2, <2>1, <3>1, <3>3 DEF DaemonInv
  <2>3. CASE Step(a) = "permit"
    <3>1. tx' = [tx EXCEPT !.hash = HashOfOp(tx.call, tx.gas)]
      BY <1>4, <2>3 DEF WithAnswer
    <3>2. tx' \in Tx
      <4>1. HashOfOp(tx.call, tx.gas) \in Seq(Nat)
        BY <1>0 DEF Tx, HashOfOp
      <4> QED
        BY <1>0, <3>1, <4>1 DEF Tx
    <3>3. a = Executor
      BY <1>0, <2>3, WhoHasWhat
    <3>4. job[Executor].op = "transfer" /\ job[Executor].at = 2
      BY <1>0, <2>1, <2>3, <3>3, WhoHasWhat
    <3>5. TransferIsPayable'
      BY <2>1, <3>3, <3>4 DEF TransferIsPayable
    <3>6. PartsAreInStep'
      BY <1>3, <2>1, <3>3, PreparingKeepsParts
    <3> QED
      BY <1>1, <1>2, <2>1, <3>2, <3>5, <3>6 DEF DaemonInv
  <2>4. CASE Step(a) = "sign"
    <3>1. tx' = [tx EXCEPT !.signed = tx.hash]
      BY <1>4, <2>4 DEF WithAnswer
    <3>2. tx' \in Tx /\ tx'.signed = tx'.hash
          /\ tx'.hash = tx.hash /\ tx'.call = tx.call /\ tx'.gas = tx.gas /\ tx'.asked = tx.asked
      BY <1>0, <3>1 DEF Tx
    <3>3. a = Executor
      BY <1>0, <2>4, WhoHasWhat
    <3>4. job[Executor].op = "transfer" /\ job[Executor].at = 4
      BY <1>0, <2>1, <2>4, <3>3, WhoHasWhat
    <3>5. Payable
      BY <3>4 DEF DaemonInv, TransferIsPayable
    <3>6. TransferIsPayable'
      BY <3>2, <3>5 DEF TransferIsPayable, Payable, HashOfOp
    <3>7. PartsAreInStep'
      BY <1>3, <2>1, <3>3, PreparingKeepsParts
    <3> QED
      BY <1>1, <1>2, <2>1, <3>2, <3>6, <3>7 DEF DaemonInv
  <2> QED
    BY <1>4, <2>2, <2>3, <2>4 DEF KeySteps
<1>5. CASE Step(a) \in KeySteps /\ GiveUp({a}, AfterJob) /\ UNCHANGED tx
  <2>1. Working(a)
    BY <1>5 DEF Step, KeySteps
  <2>2. PoolInv' /\ job'[a] = AfterJob[a] /\ \A b \in Actors \ {a} : job'[b] = job[b]
    BY <1>0, <1>5, OneGivesUp
  <2>3. TransferIsPayable' /\ PartsAreInStep'
    BY <1>0, <1>3, <1>5, <2>1, <2>2, StoppedJobsKeep, RestIsNoWork
  <2> QED
    BY <1>0, <1>1, <1>2, <1>5, <2>2, <2>3 DEF DaemonInv
<1>6. CASE UNCHANGED <<poolVars, tx>>
  <2>1. PoolInv'
    BY <1>0, <1>6, PoolStays
  <2>2. TransferIsPayable' /\ PartsAreInStep'
    BY <1>3, <1>6, StoppedJobsKeep DEF poolVars
  <2> QED
    BY <1>0, <1>1, <1>2, <1>6, <2>1, <2>2 DEF DaemonInv
<1> QED
  BY <1>4, <1>5, <1>6 DEF ProcessMessage, a

(* The keyring ends when nobody can ask it any more.                       *)
LEMMA KeyringEndsKeeps ==
  ASSUME DaemonInv, KeyringEnds
  PROVE  DaemonInv'
<1>1. job[Executor] = Ended /\ api = "ended"
  BY DEF KeyringEnds, Clients
<1>2. PoolInv' /\ \A a \in Actors : Working(a)' = Working(a)
  BY PoolStays DEF DaemonInv, KeyringEnds
<1>3. StopHasACause'
  BY StopStays DEF DaemonInv, KeyringEnds, daemonVars
<1>4. TransferIsPayable'
  BY DEF DaemonInv, TransferIsPayable, Payable, KeyringEnds, poolVars
<1>5. PartsAreInStep'
  BY <1>1, <1>2 DEF DaemonInv, PartsAreInStep, KeyringEnds, poolVars, daemonVars, Join, Down
<1>6. Shape'
  BY DEF DaemonInv, Shape, KeyringEnds, daemonVars
<1> QED
  BY <1>2, <1>3, <1>4, <1>5, <1>6 DEF DaemonInv

(* The hook of a panic.                                                    *)
LEMMA HookKeeps ==
  ASSUME DaemonInv, main # Down, PanicHook, UNCHANGED <<main, listener, exit, interrupts>>
  PROVE  StopHasACause' /\ panics' \in Nat
<1>1. panics \in Nat /\ panics' = panics + 1 /\ panics' > 0
  BY DEF DaemonInv, Shape, PanicHook
<1> QED
  BY <1>1 DEF DaemonInv, StopHasACause, PanicHook, Down

(* A job panics.                                                           *)
LEMMA JobPanicsKeeps ==
  ASSUME DaemonInv, NEW a \in Actors, JobPanics(a)
  PROVE  DaemonInv'
<1>1. PoolInv'
  BY GivingUpKeeps DEF DaemonInv, JobPanics, GiveUp
<1>2. job'[a] = Gone[a] /\ \A b \in Actors \ {a} : job'[b] = job[b]
  BY DEF JobPanics, GiveUp
<1>3. TransferIsPayable' /\ PartsAreInStep'
  BY <1>2, StoppedJobsKeep, RestIsNoWork DEF JobPanics, keyringVars
<1>4. StopHasACause' /\ panics' \in Nat
  BY HookKeeps DEF JobPanics
<1>5. Shape'
  BY <1>4 DEF DaemonInv, Shape, JobPanics, keyringVars
<1> QED
  BY <1>1, <1>3, <1>4, <1>5 DEF DaemonInv

(* The keyring panics.                                                     *)
LEMMA KeyringIsLostKeeps ==
  ASSUME DaemonInv, KeyringIsLost
  PROVE  DaemonInv'
<1> DEFINE S == {a \in Actors : Asked(a) /\ Working(a)}
<1>1. PoolInv'
  BY GivingUpKeeps DEF DaemonInv, KeyringIsLost, KeyringPanics, GiveUp
<1>2. \A a \in Actors : job'[a] = job[a] \/ (Working(a) /\ job'[a] \in Resting)
  <2>1. job' = [a \in Actors |-> IF a \in S THEN AfterJob[a] ELSE job[a]]
    BY DEF KeyringIsLost, KeyringPanics, GiveUp
  <2> QED
    BY <2>1, RestIsNoWork
<1>3. TransferIsPayable' /\ PartsAreInStep'
  BY <1>2, StoppedJobsKeep DEF KeyringIsLost, KeyringPanics
<1>4. StopHasACause' /\ panics' \in Nat
  BY HookKeeps DEF KeyringIsLost
<1>5. Shape'
  BY <1>4 DEF DaemonInv, Shape, KeyringIsLost, KeyringPanics
<1> QED
  BY <1>1, <1>3, <1>4, <1>5 DEF DaemonInv

(* The process dies, or is killed.                                         *)
LEMMA DyingKeeps ==
  ASSUME DaemonInv, GiveUp(Actors, Gone), keyring' = "ended", inbox' = <<>>, main' = Down,
         api' = "ended", listener' = "ended", exit' \in {"failure", "killed"},
         interrupts' \in Nat, interrupts' >= interrupts,
         UNCHANGED <<seed, tx, token, outcome, panics>>
  PROVE  DaemonInv'
<1>1. PoolInv'
  BY GivingUpKeeps DEF DaemonInv, GiveUp
<1>2. \A a \in Actors : job'[a] = Ended
  BY DEF GiveUp, Gone
<1>3. Ended.op = "ended" /\ "ended" \notin Operations
  BY RestIsNoWork, Programs DEF Ended, NoJob
<1>4. TransferIsPayable'
  BY <1>2, <1>3 DEF TransferIsPayable
<1>5. PartsAreInStep'
  BY <1>2, <1>3, MainNumbers DEF PartsAreInStep, Working
<1>6. StopHasACause'
  BY DEF DaemonInv, Shape, StopHasACause
<1>7. Shape'
  BY MainNumbers DEF DaemonInv, Shape
<1> QED
  BY <1>1, <1>4, <1>5, <1>6, <1>7 DEF DaemonInv

(* A part is started.                                                      *)
LEMMA StartNextKeeps ==
  ASSUME DaemonInv, StartNext
  PROVE  DaemonInv'
<1>1. /\ main \in 1 .. 9 /\ main' = main + 1 /\ main' \in 2 .. 10
      /\ StartPart(Startup[main])
  BY MainNumbers DEF StartNext, Starting
<1>2. /\ keyring' \in {keyring, "running"}
      /\ api' = IF main = 8 THEN "bound" ELSE api
      /\ listener' = IF main = 9 THEN "first" ELSE listener
      /\ job' = IF main = 7 THEN [job EXCEPT ![Executor] = Idle] ELSE job
  BY <1>1, MainNumbers DEF StartPart
<1>3. api \in {"off", "bound"} /\ api' \in {"off", "bound"} /\ keyring # "ended"
  BY <1>1, <1>2, MainNumbers DEF DaemonInv, PartsAreInStep, Shape
<1>4. ~Working(Executor) => /\ job'[Executor] \in Resting \/ job'[Executor] = job[Executor]
                           /\ ~Working(Executor)'
  BY <1>2, RestIsNoWork DEF Working, Resting, DaemonInv, PoolInv, PoolTypes
<1>5. main <= 7 => job[Executor] \in {Off, Ended} /\ ~Working(Executor)
  BY <1>1, RestIsNoWork DEF DaemonInv, PartsAreInStep, Resting, Working
<1>6. \A r \in Requests : job'[r] = job[r] /\ ~Working(r) /\ ~Working(r)'
  BY <1>2, <1>3 DEF DaemonInv, PartsAreInStep, Working, PoolInv, PoolTypes
<1>7. PoolInv'
  <2>1. PoolTypes'
    BY <1>2, RestIsNoWork DEF DaemonInv, PoolInv, PoolTypes, Resting, StartNext
  <2>2. \A a \in Actors :
          \/ /\ job'[a] = job[a] /\ pending'[a] = pending[a] /\ conns'[a] = conns[a]
             /\ InLine(a)' => InLine(a)
          \/ job'[a] \in Resting /\ pending'[a] = {} /\ conns'[a] = 0 /\ ~InLine(a)'
    <3>1. main # 7 => job' = job
      BY <1>2
    <3>2. main = 7 => /\ job'[Executor] \in Resting
                      /\ pending[Executor] = {} /\ conns[Executor] = 0 /\ ~InLine(Executor)
      BY <1>2, <1>5 DEF Resting, DaemonInv, PoolInv, PoolTypes, ActorFits, Waits
    <3> QED
      BY <1>6, <3>1, <3>2 DEF StartNext, InLine
  <2> QED
    BY <2>1, <2>2, StoppingKeepsPoolInv DEF DaemonInv, StartNext
<1>8. TransferIsPayable'
  <2>1. job'[Executor] = job[Executor] \/ job'[Executor].op = "idle"
    BY <1>2, RestIsNoWork DEF DaemonInv, PoolInv, PoolTypes, Idle, NoJob
  <2> QED
    BY <2>1 DEF DaemonInv, TransferIsPayable, Payable, StartNext
<1>9. PartsAreInStep'
  <2>1. main' <= 7 => job'[Executor] \in {Off, Ended}
    BY <1>1, <1>2, <1>5
  <2>2. keyring' # "ended"
    BY <1>2, <1>3
  <2> QED
    BY <1>3, <1>6, <2>1, <2>2 DEF PartsAreInStep
<1>10. StopHasACause'
  BY <1>1, <1>2, MainNumbers DEF DaemonInv, StopHasACause, StartNext, Shape
<1>11. Shape'
  BY <1>1, <1>2 DEF DaemonInv, Shape, StartNext
<1> QED
  BY <1>7, <1>8, <1>9, <1>10, <1>11 DEF DaemonInv

(* The steps of the main task, the listener and the server that leave the  *)
(* jobs alone.                                                             *)
LEMMA QuietStepsKeep ==
  ASSUME DaemonInv, WaitAndShutdown \/ JoinAll \/ ListenerStep \/ ApiEnds
  PROVE  DaemonInv'
<1>1. UNCHANGED <<poolVars, keyringVars, tx, token, outcome, panics, interrupts>>
  BY DEF WaitAndShutdown, JoinAll, ListenerStep, ApiEnds
<1>2. PoolInv' /\ job' = job /\ \A a \in Actors : Working(a)' = Working(a)
  BY <1>1, PoolStays DEF DaemonInv, poolVars
<1>3. TransferIsPayable'
  BY <1>1, <1>2 DEF DaemonInv, TransferIsPayable, Payable
<1> USE MainNumbers
<1>4. CASE WaitAndShutdown
  <2>1. api \notin {"serving", "ended"}
    BY <1>4 DEF DaemonInv, PartsAreInStep, WaitAndShutdown
  <2>2. PartsAreInStep'
    BY <1>1, <1>2, <1>4, <2>1 DEF DaemonInv, PartsAreInStep, WaitAndShutdown, keyringVars
  <2>3. StopHasACause'
    BY <1>4 DEF DaemonInv, StopHasACause, WaitAndShutdown
  <2>4. Shape'
    BY <1>1, <1>4 DEF DaemonInv, Shape, WaitAndShutdown, keyringVars
  <2> QED
    BY <1>2, <1>3, <2>2, <2>3, <2>4 DEF DaemonInv
<1>5. CASE JoinAll
  <2>1. PartsAreInStep'
    BY <1>1, <1>2, <1>5 DEF DaemonInv, PartsAreInStep, JoinAll, keyringVars
  <2>2. token
    BY <1>5 DEF DaemonInv, StopHasACause, JoinAll
  <2>3. exit' = "success" => panics = 0 /\ interrupts > 0
    BY <1>5, <2>2 DEF DaemonInv, StopHasACause, Shape, JoinAll
  <2>4. StopHasACause'
    BY <1>5, <2>3 DEF DaemonInv, StopHasACause, JoinAll
  <2>5. Shape'
    BY <1>1, <1>5 DEF DaemonInv, Shape, JoinAll, keyringVars
  <2> QED
    BY <1>2, <1>3, <2>1, <2>4, <2>5 DEF DaemonInv
<1>6. CASE ListenerStep
  <2>1. PartsAreInStep'
    BY <1>1, <1>2, <1>6 DEF DaemonInv, PartsAreInStep, ListenerStep, keyringVars
  <2>2. StopHasACause'
    BY <1>6 DEF DaemonInv, StopHasACause, ListenerStep
  <2>3. Shape'
    BY <1>1, <1>6 DEF DaemonInv, Shape, ListenerStep, keyringVars
  <2> QED
    BY <1>2, <1>3, <2>1, <2>2, <2>3 DEF DaemonInv
<1>7. CASE ApiEnds
  <2>1. PartsAreInStep'
    BY <1>1, <1>2, <1>7 DEF DaemonInv, PartsAreInStep, ApiEnds, keyringVars
  <2>2. StopHasACause'
    BY <1>7 DEF DaemonInv, StopHasACause, ApiEnds
  <2>3. Shape'
    BY <1>1, <1>7 DEF DaemonInv, Shape, ApiEnds, keyringVars
  <2> QED
    BY <1>2, <1>3, <2>1, <2>2, <2>3 DEF DaemonInv
<1> QED
  BY <1>4, <1>5, <1>6, <1>7

(* Control-C.                                                              *)
LEMMA InterruptKeeps ==
  ASSUME DaemonInv, Interrupt
  PROVE  DaemonInv'
<1>1. interrupts \in Nat /\ interrupts' = interrupts + 1 /\ interrupts' > 0 /\ main # Down
  BY DEF DaemonInv, Shape, Interrupt
<1>2. CASE listener = "off"
  <2>1. /\ GiveUp(Actors, Gone) /\ keyring' = "ended" /\ inbox' = <<>> /\ main' = Down
        /\ api' = "ended" /\ listener' = "ended" /\ exit' = "killed"
        /\ UNCHANGED <<seed, tx, token, completed, outcome, panics>>
    BY <1>2 DEF Interrupt
  <2> QED
    BY <1>1, <2>1, DyingKeeps
<1>3. CASE listener # "off"
  <2>1. /\ UNCHANGED <<poolVars, keyringVars, tx, main, api, completed, outcome, exit, panics>>
        /\ \/ listener = "first" /\ token' = TRUE /\ listener' = "second"
           \/ listener = "second" /\ token' = token /\ listener' = "ended"
           \/ listener = "ended" /\ token' = token /\ listener' = "ended"
    BY <1>3 DEF Interrupt, DaemonInv, Shape
  <2>2. PoolInv' /\ job' = job
    BY <2>1, PoolStays DEF DaemonInv, poolVars
  <2>3. TransferIsPayable' /\ PartsAreInStep'
    BY <2>1, <2>2, StoppedJobsKeep DEF keyringVars
  <2>4. StopHasACause'
    BY <1>1, <2>1, MainNumbers DEF DaemonInv, StopHasACause
  <2>5. Shape'
    BY <1>1, <2>1 DEF DaemonInv, Shape, keyringVars
  <2> QED
    BY <2>2, <2>3, <2>4, <2>5 DEF DaemonInv
<1> QED
  BY <1>2, <1>3

(* A request arrives or is left, the executor takes a transfer or ends.    *)
LEMMA JobsBeginAndEndKeep ==
  ASSUME DaemonInv,
         \/ \E r \in Requests : Receive(r) \/ ClientLeaves(r)
         \/ NextTransfer
         \/ ExecutorEnds
  PROVE  DaemonInv'
<1>0. PoolInv /\ Executor \in Actors
  BY DEF DaemonInv
<1>1. UNCHANGED <<keyringVars, daemonVars>>
  BY DEF Receive, ClientLeaves, NextTransfer, ExecutorEnds
<1>2. StopHasACause'
  BY <1>1, StopStays DEF DaemonInv, daemonVars
<1>3. tx' \in Tx => Shape'
  BY <1>1 DEF DaemonInv, Shape, keyringVars, daemonVars
<1>4. tx \in Tx
  BY DEF DaemonInv, Shape
<1>5. ASSUME NEW r \in Requests, Receive(r)
      PROVE  DaemonInv'
  <2>1. PICK op \in {"create", "cancel"} : StartJob(r, op)
    BY <1>5 DEF Receive
  <2>2. r \in Actors /\ op \in OpsOf(r) /\ ~Working(r)
    BY <1>5, RestIsNoWork DEF Receive, OpsOf, Working, Resting
  <2>3. PoolInv' /\ job' = [job EXCEPT ![r] = [op |-> op, at |-> 1, has |-> FALSE]]
    BY <1>0, <2>1, <2>2, StartJobKeeps
  <2>4. job'[Executor] = job[Executor]
    BY <2>3 DEF DaemonInv, PoolInv, PoolTypes
  <2>5. TransferIsPayable'
    BY <1>5, <2>4 DEF DaemonInv, TransferIsPayable, Payable, Receive
  <2>6. PartsAreInStep'
    <3>1. \A q \in Requests : q # r => Working(q)' = Working(q)
      BY <2>3 DEF Working, DaemonInv, PoolInv, PoolTypes
    <3> QED
      BY <1>1, <1>5, <2>4, <3>1, MainNumbers
         DEF DaemonInv, PartsAreInStep, Receive, keyringVars, daemonVars
  <2> QED
    BY <1>2, <1>3, <1>4, <1>5, <2>3, <2>5, <2>6 DEF DaemonInv, Receive
<1>6. ASSUME NEW r \in Requests, ClientLeaves(r)
      PROVE  DaemonInv'
  <2>1. PoolInv' /\ job'[r] = AfterJob[r] /\ \A b \in Actors \ {r} : job'[b] = job[b]
    BY <1>0, <1>6, OneGivesUp DEF ClientLeaves
  <2>2. TransferIsPayable' /\ PartsAreInStep'
    BY <1>1, <1>6, <2>1, StoppedJobsKeep, RestIsNoWork DEF ClientLeaves, keyringVars, daemonVars
  <2> QED
    BY <1>2, <1>3, <1>4, <1>6, <2>1, <2>2 DEF DaemonInv, ClientLeaves
<1>7. CASE NextTransfer
  <2>1. ~Working(Executor) /\ "transfer" \in OpsOf(Executor)
    BY <1>7, RestIsNoWork DEF NextTransfer, Working, Resting, OpsOf
  <2>2. PoolInv' /\ job' = [job EXCEPT ![Executor] = [op |-> "transfer", at |-> 1, has |-> FALSE]]
    BY <1>0, <1>7, <2>1, StartJobKeeps DEF NextTransfer
  <2>3. job'[Executor].at = 1 /\ \A r \in Requests : job'[r] = job[r]
    BY <2>2 DEF DaemonInv, PoolInv, PoolTypes
  <2>4. TransferIsPayable'
    BY <2>3 DEF TransferIsPayable
  <2>5. job[Executor] \notin {Off, Ended}
    <3>1. Off.op = "off" /\ Idle.op = "idle" /\ Ended.op = "ended"
      BY DEF Off, Idle, Ended, NoJob
    <3> QED
      BY <1>7, <3>1 DEF NextTransfer
  <2>6. PartsAreInStep'
    BY <1>1, <2>3, <2>5, MainNumbers
       DEF DaemonInv, PartsAreInStep, keyringVars, daemonVars, Working
  <2>7. tx' \in Tx
    BY <1>7 DEF NextTransfer, NoTx, NoHash, Tx
  <2> QED
    BY <1>2, <1>3, <2>2, <2>4, <2>6, <2>7 DEF DaemonInv
<1>8. CASE ExecutorEnds
  <2>1. ~Working(Executor) /\ pending[Executor] = {} /\ conns[Executor] = 0 /\ ~InLine(Executor)
    BY <1>0, <1>8, RestIsNoWork DEF ExecutorEnds, Working, Resting, PoolInv, ActorFits, Waits
  <2>2. /\ job'[Executor] = Ended /\ Ended \in Resting
        /\ \A r \in Requests : job'[r] = job[r]
    BY <1>0, <1>8 DEF ExecutorEnds, PoolInv, PoolTypes, Resting
  <2>3. PoolInv'
    <3>1. PoolTypes'
      BY <1>0, <1>8, <2>2, RestIsNoWork DEF ExecutorEnds, PoolInv, PoolTypes
    <3> QED
      BY <1>0, <1>8, <2>1, <2>2, <3>1, StoppingKeepsPoolInv DEF ExecutorEnds, InLine
  <2>4. job'[Executor].op # "transfer"
    BY <2>2, RestIsNoWork
  <2>5. TransferIsPayable'
    BY <2>4 DEF TransferIsPayable
  <2>6. PartsAreInStep'
    BY <1>1, <2>2, MainNumbers DEF DaemonInv, PartsAreInStep, keyringVars, daemonVars, Working
  <2> QED
    BY <1>2, <1>3, <1>4, <1>8, <2>3, <2>5, <2>6 DEF DaemonInv, ExecutorEnds
<1> QED
  BY <1>5, <1>6, <1>7, <1>8

-----------------------------------------------------------------------------
(* The invariant.                                                          *)

(* The initial states have it.                                             *)
LEMMA DaemonInitHasInv ==
  ASSUME DaemonInit
  PROVE  DaemonInv
<1> USE DEF DaemonInit, PoolInit, KeyringInit
<1>1. Off \in Resting /\ Off \in Job /\ Off.op = "off" /\ Off.op \notin Operations
  BY RestIsNoWork DEF Resting, Off, NoJob
<1>2. \A a \in Actors : job[a] = Off /\ ~Working(a)
  BY <1>1 DEF Working
<1>3. PoolInv
  <2>1. PoolTypes
    BY <1>1 DEF PoolTypes, Names
  <2>2. ASSUME NEW a \in Actors PROVE ActorFits(a)
    BY <1>1, <1>2 DEF ActorFits, JobFits, InLine, Whole
  <2> QED
    BY <2>1, <2>2 DEF PoolInv
<1>4. Shape
  BY DEF Shape, Tx, NoTx, NoHash
<1>5. TransferIsPayable
  BY <1>1 DEF TransferIsPayable
<1>6. PartsAreInStep
  BY <1>2, MainNumbers DEF PartsAreInStep
<1>7. StopHasACause
  BY DEF StopHasACause
<1> QED
  BY <1>3, <1>4, <1>5, <1>6, <1>7 DEF DaemonInv

(* Every step keeps it.                                                    *)
LEMMA DaemonNextKeepsInv ==
  ASSUME DaemonInv, [DaemonNext]_vars
  PROVE  DaemonInv'
<1>1. CASE StartFails
  BY <1>1, DyingKeeps DEF StartFails, Die, DaemonInv, Shape
<1>2. CASE KeyringStep
  BY <1>2, ProcessMessageKeeps, KeyringEndsKeeps DEF KeyringStep
<1>3. ASSUME NEW a \in Actors, ActorStep(a) \/ JobPanics(a)
      PROVE  DaemonInv'
  BY <1>3, ActorStepKeeps, JobPanicsKeeps
<1>4. CASE UNCHANGED vars
  <2>1. PoolInv'
    BY <1>4, PoolStays DEF DaemonInv, vars
  <2>2. TransferIsPayable' /\ PartsAreInStep'
    BY <1>4, StoppedJobsKeep DEF vars, poolVars, keyringVars, daemonVars
  <2>3. StopHasACause'
    BY <1>4, StopStays DEF DaemonInv, vars, daemonVars
  <2>4. Shape'
    BY <1>4 DEF DaemonInv, Shape, vars, keyringVars, daemonVars
  <2> QED
    BY <2>1, <2>2, <2>3, <2>4 DEF DaemonInv
<1> QED
  BY <1>1, <1>2, <1>3, <1>4, StartNextKeeps, QuietStepsKeep, InterruptKeeps, KeyringIsLostKeeps,
     OutsideStepKeeps, JobsBeginAndEndKeep
     DEF DaemonNext, MainStep

(* So it holds always.                                                     *)
LEMMA DaemonInvAlways ==
  DaemonSpec => []DaemonInv
BY DaemonInitHasInv, DaemonNextKeepsInv, PTL DEF DaemonSpec

-----------------------------------------------------------------------------
(* The results.                                                            *)

(* What create_invoice, cancel_invoice_admin and the executor write in a   *)
(* transaction is in the database whole or not at all, whether the job     *)
(* ends, fails, times out, panics, loses its client or dies with the       *)
(* process.                                                                *)
THEOREM AllOrNothingAlways ==
  DaemonSpec => []AllOrNothing
<1>1. DaemonInv => AllOrNothing
  BY PoolInvIsAllOrNothing DEF DaemonInv
<1> QED
  BY <1>1, DaemonInvAlways, PTL

(* What the executor submits is what the keyring signed, and can be paid   *)
(* out of the amount it was asked to send.                                 *)
THEOREM SignedIsPayableAlways ==
  DaemonSpec => []SignedIsPayable
<1>1. ASSUME DaemonInv PROVE SignedIsPayable
  <2> SUFFICES ASSUME job[Executor].op = "transfer", job[Executor].at \in 5 .. 6
               PROVE  /\ tx.signed = HashOfOp(tx.call, tx.gas)
                      /\ tx.call > 0
                      /\ tx.call + tx.gas + Margin <= tx.asked
    BY DEF SignedIsPayable
  <2>1. job[Executor].at \in {5, 6}
    OBVIOUS
  <2> QED
    BY <1>1, <2>1 DEF DaemonInv, TransferIsPayable, Payable
<1> QED
  BY <1>1, DaemonInvAlways, PTL

(* The keyring never ends under a job that may still ask it.               *)
THEOREM KeyringOutlivesUsersAlways ==
  DaemonSpec => []KeyringOutlivesUsers
<1>1. ASSUME DaemonInv PROVE KeyringOutlivesUsers
  <2> SUFFICES ASSUME keyring = "ended", main # Down, NEW a \in Actors
               PROVE  Step(a) \notin KeySteps
    BY DEF KeyringOutlivesUsers
  <2>1. job[Executor] = Ended /\ api = "ended"
    BY <1>1 DEF DaemonInv, PartsAreInStep
  <2>2. ~Working(a)
    BY <1>1, <2>1, RestIsNoWork DEF DaemonInv, PartsAreInStep, Working, Resting
  <2> QED
    BY <2>2 DEF Step, KeySteps
<1> QED
  BY <1>1, DaemonInvAlways, PTL

(* The daemon exits with SUCCESS only after a signal and with no panic.    *)
THEOREM ExitTellsTruthAlways ==
  DaemonSpec => []ExitTellsTruth
<1>1. DaemonInv => ExitTellsTruth
  BY DEF DaemonInv, StopHasACause, ExitTellsTruth
<1> QED
  BY <1>1, DaemonInvAlways, PTL

(* Whoever waits for a connection while it holds one is a cancellation.    *)
OnlyCancelsNest ==
  \A a \in Actors : conns[a] > 0 /\ InLine(a) => job[a].op = "cancel"

(* The other programs have no statement of its own after begin.            *)
LEMMA NothingNested ==
  ASSUME NEW op \in {"create", "transfer"},
         NEW k \in DOMAIN Program[op], NEW l \in DOMAIN Program[op],
         Program[op][k] = "begin", Program[op][l] = "autocommit"
  PROVE  l < k
<1>1. CASE op = "create"
  <2>1. Program["create"] = <<"address", "begin", "write", "write", "commit">>
    BY DEF Program
  <2>2. DOMAIN Program["create"] = 1 .. 5
    BY <2>1
  <2>3. \A i \in 1 .. 5 : Program["create"][i] # "autocommit"
    BY <2>1
  <2> QED
    BY <1>1, <2>2, <2>3
<1>2. CASE op = "transfer"
  <2>1. Program["transfer"] = <<"build", "permit", "estimate", "sign", "autocommit",
                                "submit", "begin", "write", "write", "commit">>
    BY DEF Program
  <2>2. DOMAIN Program["transfer"] = 1 .. 10
    BY <2>1
  <2>3. \A i \in 1 .. 10 : /\ Program["transfer"][i] = "autocommit" => i = 5
                           /\ Program["transfer"][i] = "begin" => i = 7
    BY <2>1
  <2>4. l = 5 /\ k = 7
    BY <1>2, <2>2, <2>3
  <2> QED
    BY <2>4
<1> QED
  BY <1>1, <1>2

(* So only a cancellation waits while it holds a connection.               *)
LEMMA NestersCancel ==
  ASSUME DaemonInv
  PROVE  OnlyCancelsNest
<1> SUFFICES ASSUME NEW a \in Actors, conns[a] > 0, InLine(a), job[a].op # "cancel"
             PROVE  FALSE
  BY DEF OnlyCancelsNest
<1>1. PoolInv /\ Waits(a) /\ Working(a) /\ Holds(a)
  BY DEF DaemonInv, PoolInv, ActorFits, Waits
<1>2. /\ job[a].op \in Operations /\ job[a].at \in DOMAIN Program[job[a].op]
      /\ Step(a) = Program[job[a].op][job[a].at] /\ job[a].at \in Nat
  BY <1>1, NextStep
<1>3. job[a].op \in {"create", "transfer"}
  BY <1>2, Programs
<1>4. Begun(job[a])
  BY <1>1 DEF Waits, Holds
<1>5. PICK k \in DOMAIN Program[job[a].op] :
        k < job[a].at /\ Program[job[a].op][k] = "begin"
  BY <1>4 DEF Begun
<1>6. k \in Nat
  BY <1>2, <1>5, ProgramOf
<1>7. CASE Step(a) = "begin"
  <2>1. k = job[a].at
    BY <1>2, <1>5, <1>7, OneBegin
  <2> QED
    BY <1>2, <1>5, <2>1
<1>8. CASE Step(a) = "autocommit"
  <2>1. job[a].at < k
    BY <1>2, <1>3, <1>5, <1>8, NothingNested
  <2> QED
    BY <1>2, <1>5, <1>6, <2>1
<1> QED
  BY <1>1, <1>7, <1>8 DEF Waits

(* cancel_invoice_admin updates the invoice on the pool inside its         *)
(* transaction; no other job takes a second connection.  So whenever all   *)
(* connections are held by jobs that wait for another one, all these jobs  *)
(* are cancellations, and as many as the pool has connections.             *)
THEOREM OnlyCancelsStarveAlways ==
  DaemonSpec => []OnlyCancelsStarve
<1> DEFINE holders == {a \in Actors : conns[a] > 0}
<1>1. ASSUME DaemonInv, Free = 0, \A a \in holders : InLine(a)
      PROVE  /\ \A a \in holders : job[a].op = "cancel"
             /\ Cardinality(holders) = MaxConnections
  <2>1. \A a \in holders : job[a].op = "cancel"
    BY <1>1, NestersCancel DEF OnlyCancelsNest
  <2>2. \A a \in Actors : conns[a] = IF a \in holders THEN 1 ELSE 0
    <3> SUFFICES ASSUME NEW a \in Actors
                 PROVE  conns[a] = IF a \in holders THEN 1 ELSE 0
      OBVIOUS
    <3>1. conns[a] \in Nat /\ ActorFits(a)
      BY <1>1 DEF DaemonInv, PoolInv, PoolTypes
    <3>2. CASE a \in holders
      <4>1. Working(a) /\ ~job[a].has /\ Holds(a)
        BY <1>1, <3>1, <3>2 DEF ActorFits, Waits
      <4> QED
        BY <3>1, <3>2, <4>1 DEF Holds
    <3>3. CASE a \notin holders
      BY <3>1, <3>3
    <3> QED
      BY <3>2, <3>3
  <2>3. Taken = holders \X {1}
    <3>1. \A a \in holders : 1 .. conns[a] = {1}
      BY <2>2
    <3>2. \A a \in Actors \ holders : 1 .. conns[a] = {}
      BY <2>2
    <3>3. holders \subseteq Actors
      OBVIOUS
    <3> HIDE DEF holders
    <3> QED
      BY <3>1, <3>2, <3>3 DEF Taken
  <2>4. IsFiniteSet(holders)
    <3>1. IsFiniteSet(Actors)
      BY FS_AddElement
    <3> QED
      BY <3>1, FS_Subset
  <2>5. Cardinality(Taken) = Cardinality(holders)
    <3> HIDE DEF holders
    <3> DEFINE f == [a \in holders |-> <<a, 1>>]
    <3>1. f \in Bijection(holders, holders \X {1})
      BY DEF Bijection, Injection, Surjection, IsInjective
    <3>2. ExistsBijection(holders, holders \X {1})
      BY <3>1 DEF ExistsBijection
    <3> QED
      BY <2>3, <2>4, <3>2, FS_Bijection
  <2>6. Cardinality(holders) \in Nat
    BY <2>4, FS_CardinalityType
  <2> QED
    BY <1>1, <2>1, <2>5, <2>6 DEF Free
<1>2. DaemonInv => OnlyCancelsStarve
  BY <1>1 DEF OnlyCancelsStarve
<1> QED
  BY <1>2, DaemonInvAlways, PTL
=============================================================================
