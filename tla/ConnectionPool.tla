--------------------------- MODULE ConnectionPool ---------------------------
(***************************************************************************)
(* The DAO's pool of connections to SQLite and the jobs that run on it.  A *)
(* job is a handler or a round of a background task; what it does is the   *)
(* sequence of steps Program gives it.  DaoInterface runs a step on a      *)
(* connection it takes for one statement ("autocommit"),                   *)
(* DaoTransactionInterface runs it on the connection the transaction holds *)
(* from "begin" to "commit".  Connections are given out in order, a job    *)
(* that waits too long for one gives up, and a job that gives up drops its *)
(* transaction.                                                            *)
(***************************************************************************)
EXTENDS Naturals, Sequences, FiniteSets

CONSTANTS
  Requests,        \* the requests that reach the API
  Executor,        \* the TransfersExecutor, one task of several
  MaxConnections,  \* of the pool: 10, or 1 when the database is temporary
  Nobody

Actors == Requests \cup {Executor}

ASSUME PoolAssumption ==
  /\ MaxConnections \in Nat \ {0}
  /\ Nobody \notin Actors
  /\ Executor \notin Requests
  /\ IsFiniteSet(Requests)

VARIABLES
  job,       \* per actor, its job: the operation, the step it is at, and
             \* whether it has the connection of an autocommit statement
  conns,     \* per actor, how many connections it holds
  line,      \* who waits for a connection, and for each the ones before it
  writer,    \* whose transaction has SQLite's write lock
  pending,   \* per actor, the writes of its open transaction
  rows       \* per actor, the writes of its last job that are in the
             \* database, and which operation it was

poolVars == <<job, conns, line, writer, pending, rows>>

(* Mutant: create_invoice writes its event on the pool.                    *)
ProgramNested ==
  [create   |-> <<"address", "begin", "write", "autocommit", "commit">>,
   cancel   |-> <<"begin", "autocommit", "write", "commit">>,
   transfer |-> <<"build", "permit", "estimate", "sign", "autocommit",
                  "submit", "begin", "write", "write", "commit">>]

(* The operations whose use of the database differs: create_invoice and    *)
(* its Created event; cancel_invoice_admin, which updates the invoice on a *)
(* connection of its own inside its transaction; and an outgoing transfer  *)
(* of the executor, stored before it is submitted, its result recorded in  *)
(* a transaction.  The rounds of the other background tasks are made of    *)
(* the same pieces.                                                        *)
Program ==
  [create   |-> <<"address", "begin", "write", "write", "commit">>,
   cancel   |-> <<"begin", "autocommit", "write", "commit">>,
   transfer |-> <<"build", "permit", "estimate", "sign", "autocommit",
                  "submit", "begin", "write", "write", "commit">>]

Operations == DOMAIN Program

NoJob(why) == [op |-> why, at |-> 0, has |-> FALSE]
Off == NoJob("off")
Idle == NoJob("idle")
Ended == NoJob("ended")

Working(a) == job[a].op \in Operations
Step(a) == IF Working(a) THEN Program[job[a].op][job[a].at] ELSE "none"
AfterJob == [a \in Actors |-> IF a \in Requests THEN Ended ELSE Idle]
Gone == [a \in Actors |-> Ended]

PoolInit ==
  /\ job = [a \in Actors |-> Off]
  /\ conns = [a \in Actors |-> 0]
  /\ line = [a \in {} |-> {}]
  /\ writer = Nobody
  /\ pending = [a \in Actors |-> {}]
  /\ rows = [a \in Actors |-> [of |-> "none", writes |-> {}]]

Taken == UNION {{a} \X (1 .. conns[a]) : a \in Actors}
Free == MaxConnections - Cardinality(Taken)
InLine(a) == a \in DOMAIN line
LineWithout(S) == [a \in DOMAIN line \ S |-> line[a] \ S]

-----------------------------------------------------------------------------
StartJob(a, op) ==
  /\ job' = [job EXCEPT ![a] = [op |-> op, at |-> 1, has |-> FALSE]]
  /\ rows' = [rows EXCEPT ![a] = [of |-> op, writes |-> {}]]
  /\ UNCHANGED <<conns, line, writer, pending>>

Advanced(a) ==
  IF job[a].at = Len(Program[job[a].op])
    THEN AfterJob[a]
    ELSE [job[a] EXCEPT !.at = @ + 1, !.has = FALSE]

Advance(a) == job' = [job EXCEPT ![a] = Advanced(a)]

(* The jobs of S end where they are: their transactions are rolled back    *)
(* when they are dropped, and their connections go back to the pool.       *)
GiveUp(S, after) ==
  /\ job' = [a \in Actors |-> IF a \in S THEN after[a] ELSE job[a]]
  /\ conns' = [a \in Actors |-> IF a \in S THEN 0 ELSE conns[a]]
  /\ line' = LineWithout(S)
  /\ writer' = IF writer \in S THEN Nobody ELSE writer
  /\ pending' = [a \in Actors |-> IF a \in S THEN {} ELSE pending[a]]
  /\ UNCHANGED rows

-----------------------------------------------------------------------------
WaitForConnection(a) ==
  /\ Step(a) \in {"begin", "autocommit"}
  /\ ~job[a].has
  /\ ~InLine(a)
  /\ line' = [b \in DOMAIN line \cup {a} |-> IF b = a THEN DOMAIN line ELSE line[b]]
  /\ UNCHANGED <<job, conns, writer, pending, rows>>

(* pool.begin() opens a deferred transaction: it takes no lock yet.        *)
GetConnection(a) ==
  /\ InLine(a)
  /\ line[a] = {}
  /\ Free > 0
  /\ line' = LineWithout({a})
  /\ conns' = [conns EXCEPT ![a] = @ + 1]
  /\ IF Step(a) = "begin"
       THEN Advance(a)
       ELSE job' = [job EXCEPT ![a].has = TRUE]
  /\ UNCHANGED <<writer, pending, rows>>

(* Mutant: the pool is asked with no time limit.                           *)
AcquireWaits(a) ==
  /\ FALSE
  /\ UNCHANGED poolVars

(* PoolTimedOut.                                                           *)
AcquireTimesOut(a) ==
  /\ InLine(a)
  /\ Free = 0
  /\ GiveUp({a}, AfterJob)

(* A statement on a connection of its own is a transaction of its own.     *)
RunStatement(a) ==
  /\ Step(a) = "autocommit"
  /\ job[a].has
  /\ writer = Nobody
  /\ rows' = [rows EXCEPT ![a].writes = @ \cup {job[a].at}]
  /\ conns' = [conns EXCEPT ![a] = @ - 1]
  /\ Advance(a)
  /\ UNCHANGED <<line, writer, pending>>

(* Mutant: a statement of a transaction is run on the pool.                *)
WriteOutside(a) ==
  /\ Step(a) = "write"
  /\ writer = Nobody
  /\ rows' = [rows EXCEPT ![a].writes = @ \cup {job[a].at}]
  /\ Advance(a)
  /\ UNCHANGED <<conns, line, writer, pending>>

(* The first write of a transaction takes the write lock.                  *)
WriteInTransaction(a) ==
  /\ Step(a) = "write"
  /\ writer \in {Nobody, a}
  /\ writer' = a
  /\ pending' = [pending EXCEPT ![a] = @ \cup {job[a].at}]
  /\ Advance(a)
  /\ UNCHANGED <<conns, line, rows>>

(* The write lock was not released within SQLite's busy timeout.           *)
DatabaseIsLocked(a) ==
  /\ Step(a) = "write" \/ (Step(a) = "autocommit" /\ job[a].has)
  /\ writer \notin {Nobody, a}
  /\ GiveUp({a}, AfterJob)

Commit(a) ==
  /\ Step(a) = "commit"
  /\ rows' = [rows EXCEPT ![a].writes = @ \cup pending[a]]
  /\ pending' = [pending EXCEPT ![a] = {}]
  /\ conns' = [conns EXCEPT ![a] = @ - 1]
  /\ writer' = IF writer = a THEN Nobody ELSE writer
  /\ Advance(a)
  /\ UNCHANGED line

PoolStep(a) ==
  \/ WaitForConnection(a)
  \/ GetConnection(a)
  \/ AcquireTimesOut(a)
  \/ RunStatement(a)
  \/ WriteInTransaction(a)
  \/ DatabaseIsLocked(a)
  \/ Commit(a)

-----------------------------------------------------------------------------
(* What an operation writes between begin and commit, and outside.         *)
InTransaction(op) == {k \in DOMAIN Program[op] : Program[op][k] = "write"}
OnItsOwn(op) == {k \in DOMAIN Program[op] : Program[op][k] = "autocommit"}

(* An invoice and its Created event, the result of a transfer and the      *)
(* state of its order: what a transaction writes is in the database whole  *)
(* or not at all, however the job ended.  A cancellation writes only its   *)
(* event in the transaction: the status may be there without the event,    *)
(* the event is never there without the status.                            *)
AllOrNothing ==
  \A a \in Actors :
    rows[a].of # "none" =>
      LET whole == InTransaction(rows[a].of)
          written == rows[a].writes \cap whole
      IN /\ written \in {{}, whole}
         /\ written # {} => OnItsOwn(rows[a].of) \subseteq rows[a].writes

(* Every connection is held by a job that waits for another one: nothing   *)
(* moves until the acquire timeout.  Only cancellations take a connection  *)
(* while they hold one, and it takes as many of them as the pool has       *)
(* connections; create_invoice and the background tasks never cause it.    *)
OnlyCancelsStarve ==
  LET holders == {a \in Actors : conns[a] > 0} IN
  (Free = 0 /\ \A a \in holders : InLine(a)) =>
    /\ \A a \in holders : job[a].op = "cancel"
    /\ Cardinality(holders) = MaxConnections
=============================================================================
