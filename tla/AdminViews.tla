----------------------------- MODULE AdminViews -----------------------------
(***************************************************************************)
(* What the front ends see of a database that goes on changing: the change *)
(* feed of the internal API, which a client follows from one               *)
(* sync_timestamp to the next, and the lists of the admin API, page by     *)
(* page.  A row gets its updated_at before it is committed, an UPDATE sets *)
(* it to datetime('now'), which has no fractions of a second, and an       *)
(* answer is made of several reads.                                        *)
(***************************************************************************)
EXTENDS Integers, FiniteSets, Sequences

CONSTANTS
  Entities,        \* rows: invoices and what belongs to them
  Kind,            \* the table of an entity
  Owner,           \* the invoice an entity belongs to
  Never,           \* no time, no row
  Second,          \* ticks of the clock in a second
  Delay,           \* how long a transaction or an answer may take, in ticks
  PerPage,         \* per_page of the walk through the list
  SortOrder,       \* sort_order of the walk: Asc or Desc
  Amounts,         \* the amounts a row may have
  U32,             \* 2^32, the range of page numbers and offsets
  MaxTime,         \* bound: the clock stops here
  MaxStamps,       \* bound: how many timestamps the client asks for
  MaxVersion       \* bound: how often each row is written

Tables == {"invoices", "transactions", "payouts", "refunds", "front_end_swaps"}

Lists == Tables \ {"refunds"}       \* those the admin API lists

ASSUME ViewsAssumption ==
  /\ Kind \in [Entities -> Tables]
  /\ Owner \in [Entities -> Entities]
  /\ \A e \in Entities : Kind[e] = "invoices" <=> Owner[e] = e
  /\ \A e \in Entities : Kind[Owner[e]] = "invoices"
  /\ IsFiniteSet(Entities)
  /\ Never \notin Entities \cup Nat
  /\ {Second, PerPage, U32} \subseteq Nat \ {0}
  /\ {Delay, MaxTime, MaxStamps} \subseteq Nat
  /\ MaxVersion \in [Entities -> Nat]
  /\ Amounts \in [Entities -> SUBSET Nat]
  /\ SortOrder \in {"Asc", "Desc"}

VARIABLES
  clock,
  rows,            \* what is committed: the version of each row, its place in
                   \* the order of created_at, its updated_at, its amount and
                   \* whether its status is Completed
  writing,         \* the write that is not committed yet
  since,           \* the client's sync_timestamp
  stamps,          \* history: every sync_timestamp it has been given
  view,            \* the versions the client has been sent
  answer,          \* the answer of the feed that is being made
  walk             \* the walk through a list, with its filter

viewVars == <<clock, rows, writing, since, stamps, view, answer, walk>>

Blank == [amount |-> 0, completed |-> FALSE]
Absent == [version |-> 0, created |-> 0, updated |-> 0, content |-> Blank]
NoWrite == [entity |-> Never, stamp |-> 0, begun |-> 0, content |-> Blank]
NoAnswer == [todo |-> <<>>, found |-> [e \in Entities |-> 0], stamp |-> Never, begun |-> 0]
NoWalk == [list |-> Never, sort_by |-> "CreatedAt", wanted |-> {}, page |-> 0, start |-> {}, seen |-> {},
           items |-> Never, total |-> Never, stale |-> FALSE, shifted |-> FALSE]

ViewsTypeOK ==
  /\ clock \in 0 .. MaxTime
  /\ \A e \in Entities :
       /\ rows[e].version \in 0 .. MaxVersion[e]
       /\ rows[e].updated \in 0 .. clock
       /\ rows[e].created \in 0 .. Cardinality(Entities)
       /\ view[e] \in 0 .. MaxVersion[e]
  /\ writing.entity \in Entities \cup {Never}
  /\ since \in stamps \cup {Never}
  /\ stamps \subseteq 0 .. clock
  /\ \A e \in Entities : answer.found[e] \in 0 .. MaxVersion[e]
  /\ walk.seen \cup walk.start \subseteq Entities

ViewsInit ==
  /\ clock = 0
  /\ rows = [e \in Entities |-> Absent]
  /\ writing = NoWrite
  /\ since = Never
  /\ stamps = {}
  /\ view = [e \in Entities |-> 0]
  /\ answer = NoAnswer
  /\ walk = NoWalk

Present(e) == rows[e].version > 0
SameTable(e) == {d \in Entities : Kind[d] = Kind[e] /\ Present(d)}
Reading == answer.todo # <<>>

(* Transactions and answers take at most Delay.  No list depends on the    *)
(* clock, so it stands still when a walk is followed.                      *)
Tick ==
  /\ clock < MaxTime
  /\ walk = NoWalk
  /\ writing.entity # Never => clock < writing.begun + Delay
  /\ Reading => clock < answer.begun + Delay
  /\ clock' = clock + 1
  /\ UNCHANGED <<rows, writing, since, stamps, view, answer, walk>>

Versions == UNION {1 .. MaxVersion[e] : e \in Entities}

(* The filters of a list.  What they can ask of a row may change with each *)
(* version of it, as its status does.                                      *)
Listed == {e \in Entities : Kind[e] = walk.list /\ Present(e) /\ rows[e].version \in walk.wanted}

-----------------------------------------------------------------------------
(* The tables.  A new row and the result of a transaction have the time in *)
(* full, the other UPDATEs have datetime('now').                           *)
Floor(t) == (t \div Second) * Second

UpdatedAt(e) ==
  IF ~Present(e) \/ Kind[e] = "transactions" THEN clock ELSE Floor(clock)

(* What a write may leave in a row: update_invoice changes the amount of an *)
(* invoice, and a transaction becomes Completed or not.                    *)
Contents(e) ==
  {c \in [amount : Amounts[e], completed : BOOLEAN] :
     c.completed => Kind[e] = "transactions"}

Write(e, content) ==
  /\ writing = NoWrite
  /\ rows[e].version < MaxVersion[e]
  /\ Present(Owner[e]) \/ Owner[e] = e
  /\ writing' = [entity |-> e, stamp |-> UpdatedAt(e), begun |-> clock, content |-> content]
  /\ UNCHANGED <<clock, rows, since, stamps, view, answer, walk>>

(* A row that is not listed any more, or whose sort key changes, may move  *)
(* others to a page that was read before.                                  *)
Shifts(e, version, content) ==
  /\ e \in Listed
  /\ \/ version \notin walk.wanted
     \/ walk.sort_by = "Amount" /\ content.amount # rows[e].content.amount

Commit ==
  LET e == writing.entity IN
  /\ e # Never
  /\ rows' = [rows EXCEPT ![e] =
                [version |-> @.version + 1,
                 created |-> IF @.version = 0 THEN Cardinality(SameTable(e)) ELSE @.created,
                 updated |-> writing.stamp,
                 content |-> writing.content]]
  /\ writing' = NoWrite
  /\ walk' = [walk EXCEPT !.shifted = @ \/ Shifts(e, rows[e].version + 1, writing.content)]
  /\ UNCHANGED <<clock, since, stamps, view, answer>>

-----------------------------------------------------------------------------
(* The feed.                                                               *)
(* Mutant: only the invoice's own updated_at counts.                       *)
ChangedThemselves(t) ==
  {i \in Entities : Owner[i] = i /\ Present(i) /\ rows[i].updated > t}

(* The invoices GET_INVOICE_CHANGES_SQL selects.                           *)
ChangedInvoices(t) ==
  {i \in Entities : /\ Owner[i] = i /\ Present(i)
                    /\ \E e \in Entities : Owner[e] = i /\ Present(e) /\ rows[e].updated > t}

(* Without since, the tables are read one after the other.  The two        *)
(* clients only read, so one of them is followed at a time.                *)
GetChanges ==
  /\ ~Reading
  /\ walk = NoWalk
  /\ Cardinality(stamps) < MaxStamps
  /\ answer' = IF since = Never
                 THEN [NoAnswer EXCEPT !.todo = <<"invoices", "transactions", "payouts", "refunds",
                                                  "front_end_swaps">>,
                                       !.stamp = clock, !.begun = clock]
                 ELSE [NoAnswer EXCEPT !.todo = <<"changes">>, !.begun = clock]
  /\ UNCHANGED <<clock, rows, writing, since, stamps, view, walk>>

(* Rows are looked up by the invoices that were read.                      *)
OwnerWasRead(e) == Owner[e] # e => answer.found[Owner[e]] > 0

(* into_public: what the client has after an answer.  Nothing is deleted.  *)
IntoPublic(found) ==
  view' = [e \in Entities |-> IF found[e] > 0 THEN found[e] ELSE view[e]]

(* get_all_invoices and the others.                                        *)
ReadTable ==
  /\ Reading
  /\ Head(answer.todo) \in Tables
  /\ answer' = [answer EXCEPT
       !.todo = Tail(@),
       !.found = [e \in Entities |->
                    IF Kind[e] = Head(answer.todo) /\ OwnerWasRead(e)
                      THEN rows[e].version ELSE @[e]]]
  /\ IF Tail(answer.todo) = <<>>
       THEN /\ IntoPublic(answer'.found)
            /\ since' = answer.stamp
            /\ stamps' = stamps \cup {answer.stamp}
       ELSE UNCHANGED <<view, since, stamps>>
  /\ UNCHANGED <<clock, rows, writing, walk>>

(* One statement reads what belongs to the changed invoices, except        *)
(* transactions that are not Completed.                                    *)
Carried(e) == Kind[e] = "transactions" => rows[e].content.completed

ReadChanges ==
  /\ Reading
  /\ Head(answer.todo) = "changes"
  /\ answer' = [answer EXCEPT
       !.todo = <<"stamp">>,
       !.found = [e \in Entities |->
                    IF Owner[e] \in ChangedInvoices(since) /\ Carried(e)
                      THEN rows[e].version ELSE 0]]
  /\ UNCHANGED <<clock, rows, writing, since, stamps, view, walk>>

(* sync_timestamp is the time after the read.                              *)
StampChanges ==
  /\ Reading
  /\ Head(answer.todo) = "stamp"
  /\ answer' = NoAnswer
  /\ IntoPublic(answer.found)
  /\ since' = clock
  /\ stamps' = stamps \cup {clock}
  /\ UNCHANGED <<clock, rows, writing, walk>>

-----------------------------------------------------------------------------
(* The lists.                                                              *)
(* Mutant: pages are counted from 0.                                       *)
OffsetFromZero(page) == (page * PerPage) % U32

offset(page) == ((page - 1) * PerPage) % U32

(* sort_by: by amount and then created_at, or by created_at alone.         *)
Amount(e) == IF walk.sort_by = "Amount" THEN rows[e].content.amount ELSE 0

Below(d, e) ==
  \/ Amount(d) < Amount(e)
  \/ Amount(d) = Amount(e) /\ rows[d].created < rows[e].created

Before(e) ==
  {d \in Listed : IF SortOrder = "Asc" THEN Below(d, e) ELSE Below(e, d)}

get_paginated(page) ==
  {e \in Listed : Cardinality(Before(e)) \in offset(page) .. offset(page) + PerPage - 1}

total_pages(total) == (total + PerPage - 1) \div PerPage

(* Only list_invoices has a sort_by.                                       *)
StartWalk(list, sort_by, wanted) ==
  /\ walk = NoWalk
  /\ since = Never /\ ~Reading /\ clock = 0
  /\ sort_by = "Amount" => list = "invoices"
  /\ walk' = [NoWalk EXCEPT
       !.list = list, !.sort_by = sort_by, !.wanted = wanted, !.page = 1,
       !.start = {e \in Entities : Kind[e] = list /\ rows[e].version \in wanted}]
  /\ UNCHANGED <<clock, rows, writing, since, stamps, view, answer>>

(* list_invoices and the others join two reads, which happen in either     *)
(* order.                                                                  *)
ReadPage ==
  /\ walk.page > 0
  /\ walk.items = Never
  /\ walk' = [walk EXCEPT !.items = get_paginated(walk.page), !.stale = walk.total # Never]
  /\ UNCHANGED <<clock, rows, writing, since, stamps, view, answer>>

ReadTotal ==
  /\ walk.page > 0
  /\ walk.total = Never
  /\ walk' = [walk EXCEPT !.total = Cardinality(Listed)]
  /\ UNCHANGED <<clock, rows, writing, since, stamps, view, answer>>

TurnPage ==
  /\ walk.items # Never
  /\ walk.total # Never
  /\ walk' = [walk EXCEPT
       !.seen = @ \cup walk.items,
       !.page = IF @ < total_pages(walk.total) THEN @ + 1 ELSE -1,
       !.items = Never, !.total = Never]
  /\ UNCHANGED <<clock, rows, writing, since, stamps, view, answer>>

-----------------------------------------------------------------------------
ViewsNext ==
  \/ Tick
  \/ \E e \in Entities : \E content \in Contents(e) : Write(e, content)
  \/ Commit
  \/ GetChanges
  \/ ReadTable
  \/ ReadChanges
  \/ StampChanges
  \/ \E list \in Lists, sort_by \in {"CreatedAt", "Amount"},
        wanted \in (SUBSET Versions) \ {{}} : StartWalk(list, sort_by, wanted)
  \/ ReadPage
  \/ ReadTotal
  \/ TurnPage

ViewsSpec == ViewsInit /\ [][ViewsNext]_viewVars

-----------------------------------------------------------------------------
(* What the client has not been sent and the next answer will not bring.   *)
Missed ==
  {e \in Entities : /\ since # Never
                    /\ Carried(e) /\ rows[e].version > view[e]
                    /\ Owner[e] \notin ChangedInvoices(since)}

(* A client that does as it is told and asks with the last sync_timestamp  *)
(* misses only what was stamped less than a second, a transaction and an   *)
(* answer before one of the timestamps it was given, however the writes    *)
(* and the several reads of an answer interleave: an overlap of that much  *)
(* would close the gap.                                                    *)
MissedIsRecent ==
  \A e \in Missed : \E s \in stamps :
    s - Second - Delay - Delay < rows[e].updated /\ rows[e].updated <= s

(* "Use this timestamp for the next sync request" (types/changes.rs:93):   *)
(* the answer to it has all that the client has not been sent.  The clock  *)
(* of the model is coarse, so what has the very time of the timestamp does *)
(* not count.                                                              *)
SyncMissesNothing ==
  ~Reading => \A e \in Missed : rows[e].updated = since

(* A walk through the pages meets every row that was listed when it began, *)
(* by created_at or by amount, while others are created, change or come    *)
(* into the list, unless its last total was read before its last page, or  *)
(* a row left the list or got another amount in a list sorted by it.       *)
WalkSkipsNothing ==
  walk.page = -1 /\ ~walk.stale /\ ~walk.shifted => walk.start \subseteq walk.seen
=============================================================================
