-------------------------- MODULE AdminViewsProofs --------------------------
(***************************************************************************)
(* Proofs about the change feed and the lists, for any rows, any clock and *)
(* any duration of transactions and answers: what a client misses that     *)
(* follows the sync_timestamps is recent, and a walk through the pages of  *)
(* a list skips nothing.                                                   *)
(***************************************************************************)
EXTENDS AdminViews, FiniteSetTheorems, TLAPS

USE ViewsAssumption

(* What an answer has still to do.                                         *)
FiveLeft == <<"invoices", "transactions", "payouts", "refunds", "front_end_swaps">>
FourLeft == <<"transactions", "payouts", "refunds", "front_end_swaps">>
ThreeLeft == <<"payouts", "refunds", "front_end_swaps">>
TwoLeft == <<"refunds", "front_end_swaps">>
OneLeft == <<"front_end_swaps">>

ReadsTables == {FiveLeft, FourLeft, ThreeLeft, TwoLeft, OneLeft}
Todos == ReadsTables \cup {<<>>, <<"changes">>, <<"stamp">>}

Unread(todo) == {todo[k] : k \in DOMAIN todo}

Content == [amount : Nat, completed : BOOLEAN]
Row == [version : Nat, created : Nat, updated : Nat, content : Content]
Writing == [entity : Entities \cup {Never}, stamp : Nat, begun : Nat, content : Content]

ViewTypes ==
  /\ clock \in Nat
  /\ rows \in [Entities -> Row]
  /\ writing \in Writing
  /\ since \in Nat \cup {Never}
  /\ view \in [Entities -> Nat]
  /\ answer \in [todo : Todos, found : [Entities -> Nat], stamp : Nat \cup {Never}, begun : Nat]

(* A write and an answer that are under way began at most Delay ago, and   *)
(* the time a write has noted is at most a second before it began.         *)
UnderWay ==
  /\ writing.entity # Never =>
       /\ writing.begun <= clock /\ clock <= writing.begun + Delay
       /\ writing.begun < writing.stamp + Second /\ writing.stamp <= writing.begun
       /\ Present(Owner[writing.entity]) \/ Owner[writing.entity] = writing.entity
  /\ Reading => answer.begun <= clock /\ clock <= answer.begun + Delay
  /\ since # Never => since <= clock /\ since \in stamps
  /\ \A e \in Entities : rows[e].updated <= clock

(* The client without a timestamp gets the tables, with one the changes.   *)
Modes ==
  /\ answer.todo \in ReadsTables => since = Never /\ answer.stamp = answer.begun
  /\ answer.todo \in {<<"changes">>, <<"stamp">>} => since # Never
  /\ since = Never => \A e \in Entities : view[e] = 0

(* No row is without its invoice, and no answer ahead of the database.     *)
Owned ==
  \A e \in Entities :
    /\ Present(e) => Present(Owner[e])
    /\ answer.found[e] <= rows[e].version

(* The times less than a second, a transaction and an answer before one of *)
(* the client's timestamps.                                                *)
Blind(t) == \E s \in stamps : s - Second - Delay - Delay < t /\ t <= s

(* What the client will have of an entity after the answer.                *)
Sent(e) == IF answer.found[e] > 0 THEN answer.found[e] ELSE view[e]

(* A row was written less than a second and a transaction before the       *)
(* answer that is under way began.                                         *)
Horizon == answer.begun - Second - Delay
Late(e) == rows[e].updated > Horizon

(* Whatever the client has not been sent was written after its timestamp,  *)
(* or in the blind time of one; while an answer is made, what it does not  *)
(* bring may also be late.  The first answer lacks the rows of invoices    *)
(* that came after it had read the invoices.                               *)
FeedInv ==
  /\ since # Never =>
       \A e \in Entities : Carried(e) /\ rows[e].version > view[e] =>
         rows[e].updated > since \/ Blind(rows[e].updated)
  /\ answer.todo = <<"stamp">> =>
       \A e \in Entities : Carried(e) /\ rows[e].version > Sent(e) =>
         Late(e) \/ Blind(rows[e].updated)
  /\ answer.todo \in ReadsTables =>
       \A e \in Entities :
         /\ Kind[e] \notin Unread(answer.todo) /\ rows[e].version > answer.found[e] => Late(e)
         /\ "invoices" \notin Unread(answer.todo) /\ Present(e) /\ ~(answer.found[Owner[e]] > 0) =>
              Late(e)

(* The inductive invariant: BaseInv, and with it FeedInv.                  *)
BaseInv ==
  /\ ViewTypes
  /\ UnderWay
  /\ Modes
  /\ Owned

-----------------------------------------------------------------------------
(* Times and lists of tables.                                              *)

(* datetime('now') is less than a second back.                             *)
LEMMA FloorIsNear ==
  ASSUME NEW t \in Nat
  PROVE  Floor(t) \in Nat /\ t < Floor(t) + Second /\ Floor(t) <= t
<1>1. Second \in Nat \ {0}
  OBVIOUS
<1>2. /\ t < (t \div Second) * Second + Second /\ (t \div Second) * Second \in Nat
      /\ (t \div Second) * Second <= t
  BY ONLY <1>1, t \in Nat
<1> QED
  BY <1>2 DEF Floor

(* The lists of tables that are left to read.                              *)
LEMMA TodoLists ==
  /\ \A s \in ReadsTables :
       /\ s # <<>> /\ s # <<"changes">> /\ s # <<"stamp">>
       /\ Head(s) \in Tables
       /\ Tail(s) \in ReadsTables \cup {<<>>}
       /\ Unread(Tail(s)) = Unread(s) \ {Head(s)}
       /\ "invoices" \in Unread(s) => Head(s) = "invoices"
  /\ Unread(FiveLeft) = Tables
  /\ Unread(<<>>) = {}
  /\ <<"changes">> # <<>> /\ <<"stamp">> # <<>> /\ <<"changes">> # <<"stamp">>
  /\ Head(<<"changes">>) = "changes" /\ Head(<<"stamp">>) = "stamp"
  /\ "changes" \notin Tables /\ "stamp" \notin Tables /\ "changes" # "stamp"
<1> USE DEF FiveLeft, FourLeft, ThreeLeft, TwoLeft, OneLeft
<1>1. /\ Tail(FiveLeft) = FourLeft /\ Head(FiveLeft) = "invoices"
      /\ Tail(FourLeft) = ThreeLeft /\ Head(FourLeft) = "transactions"
      /\ Tail(ThreeLeft) = TwoLeft /\ Head(ThreeLeft) = "payouts"
      /\ Tail(TwoLeft) = OneLeft /\ Head(TwoLeft) = "refunds"
      /\ Tail(OneLeft) = <<>> /\ Head(OneLeft) = "front_end_swaps"
  OBVIOUS
<1>2. /\ Unread(FiveLeft) = {"invoices", "transactions", "payouts", "refunds", "front_end_swaps"}
      /\ Unread(FourLeft) = {"transactions", "payouts", "refunds", "front_end_swaps"}
      /\ Unread(ThreeLeft) = {"payouts", "refunds", "front_end_swaps"}
      /\ Unread(TwoLeft) = {"refunds", "front_end_swaps"}
      /\ Unread(OneLeft) = {"front_end_swaps"}
      /\ Unread(<<>>) = {}
  BY DEF Unread
<1>3. \A s \in ReadsTables : s # <<>> /\ s # <<"changes">> /\ s # <<"stamp">>
  <2>1. /\ FiveLeft # <<>> /\ FiveLeft # <<"changes">> /\ FiveLeft # <<"stamp">>
        /\ FourLeft # <<>> /\ FourLeft # <<"changes">> /\ FourLeft # <<"stamp">>
    OBVIOUS
  <2>2. /\ ThreeLeft # <<>> /\ ThreeLeft # <<"changes">> /\ ThreeLeft # <<"stamp">>
        /\ TwoLeft # <<>> /\ TwoLeft # <<"changes">> /\ TwoLeft # <<"stamp">>
        /\ OneLeft # <<>> /\ OneLeft # <<"changes">> /\ OneLeft # <<"stamp">>
    OBVIOUS
  <2> HIDE DEF FiveLeft, FourLeft, ThreeLeft, TwoLeft, OneLeft
  <2> QED
    BY <2>1, <2>2 DEF ReadsTables
<1>4. /\ <<"changes">> # <<>> /\ <<"stamp">> # <<>> /\ <<"changes">> # <<"stamp">>
      /\ Head(<<"changes">>) = "changes" /\ Head(<<"stamp">>) = "stamp"
      /\ "changes" \notin Tables /\ "stamp" \notin Tables /\ "changes" # "stamp"
  BY DEF Tables
<1> HIDE DEF FiveLeft, FourLeft, ThreeLeft, TwoLeft, OneLeft
<1>5. \A s \in ReadsTables :
        /\ Head(s) \in Tables
        /\ Tail(s) \in ReadsTables \cup {<<>>}
        /\ Unread(Tail(s)) = Unread(s) \ {Head(s)}
        /\ "invoices" \in Unread(s) => Head(s) = "invoices"
  <2> SUFFICES ASSUME NEW s \in ReadsTables
               PROVE  /\ Head(s) \in Tables
                      /\ Tail(s) \in ReadsTables \cup {<<>>}
                      /\ Unread(Tail(s)) = Unread(s) \ {Head(s)}
                      /\ "invoices" \in Unread(s) => Head(s) = "invoices"
    OBVIOUS
  <2>1. CASE s = FiveLeft
    <3>1. Head(s) = "invoices" /\ Tail(s) = FourLeft
      BY <2>1, <1>1
    <3>2. Unread(s) = {"invoices", "transactions", "payouts", "refunds", "front_end_swaps"}
          /\ Unread(FourLeft) = {"transactions", "payouts", "refunds", "front_end_swaps"}
      BY <2>1, <1>2
    <3>3. {"invoices", "transactions", "payouts", "refunds", "front_end_swaps"} \ {"invoices"}
            = {"transactions", "payouts", "refunds", "front_end_swaps"}
      OBVIOUS
    <3>4. Unread(Tail(s)) = Unread(s) \ {Head(s)}
      BY <3>1, <3>2, <3>3
    <3>5. "invoices" \in Unread(s) => Head(s) = "invoices"
      BY <3>1, <3>2
    <3>6. Head(s) \in Tables /\ Tail(s) \in ReadsTables \cup {<<>>}
      BY <3>1 DEF ReadsTables, Tables
    <3> QED
      BY <3>4, <3>5, <3>6
  <2>2. CASE s = FourLeft
    <3>1. Head(s) = "transactions" /\ Tail(s) = ThreeLeft
      BY <2>2, <1>1
    <3>2. Unread(s) = {"transactions", "payouts", "refunds", "front_end_swaps"}
          /\ Unread(ThreeLeft) = {"payouts", "refunds", "front_end_swaps"}
      BY <2>2, <1>2
    <3>3. {"transactions", "payouts", "refunds", "front_end_swaps"} \ {"transactions"}
            = {"payouts", "refunds", "front_end_swaps"}
      OBVIOUS
    <3>4. Unread(Tail(s)) = Unread(s) \ {Head(s)}
      BY <3>1, <3>2, <3>3
    <3>5. "invoices" \in Unread(s) => Head(s) = "invoices"
      BY <3>1, <3>2
    <3>6. Head(s) \in Tables /\ Tail(s) \in ReadsTables \cup {<<>>}
      BY <3>1 DEF ReadsTables, Tables
    <3> QED
      BY <3>4, <3>5, <3>6
  <2>3. CASE s = ThreeLeft
    <3>1. Head(s) = "payouts" /\ Tail(s) = TwoLeft
      BY <2>3, <1>1
    <3>2. Unread(s) = {"payouts", "refunds", "front_end_swaps"}
          /\ Unread(TwoLeft) = {"refunds", "front_end_swaps"}
      BY <2>3, <1>2
    <3>3. {"payouts", "refunds", "front_end_swaps"} \ {"payouts"}
            = {"refunds", "front_end_swaps"}
      OBVIOUS
    <3>4. Unread(Tail(s)) = Unread(s) \ {Head(s)}
      BY <3>1, <3>2, <3>3
    <3>5. "invoices" \in Unread(s) => Head(s) = "invoices"
      BY <3>1, <3>2
    <3>6. Head(s) \in Tables /\ Tail(s) \in ReadsTables \cup {<<>>}
      BY <3>1 DEF ReadsTables, Tables
    <3> QED
      BY <3>4, <3>5, <3>6
  <2>4. CASE s = TwoLeft
    <3>1. Head(s) = "refunds" /\ Tail(s) = OneLeft
      BY <2>4, <1>1
    <3>2. Unread(s) = {"refunds", "front_end_swaps"}
          /\ Unread(OneLeft) = {"front_end_swaps"}
      BY <2>4, <1>2
    <3>3. {"refunds", "front_end_swaps"} \ {"refunds"}
            = {"front_end_swaps"}
      OBVIOUS
    <3>4. Unread(Tail(s)) = Unread(s) \ {Head(s)}
      BY <3>1, <3>2, <3>3
    <3>5. "invoices" \in Unread(s) => Head(s) = "invoices"
      BY <3>1, <3>2
    <3>6. Head(s) \in Tables /\ Tail(s) \in ReadsTables \cup {<<>>}
      BY <3>1 DEF ReadsTables, Tables
    <3> QED
      BY <3>4, <3>5, <3>6
  <2>5. CASE s = OneLeft
    <3>1. Head(s) = "front_end_swaps" /\ Tail(s) = <<>>
      BY <2>5, <1>1
    <3>2. Unread(s) = {"front_end_swaps"}
          /\ Unread(<<>>) = {}
      BY <2>5, <1>2
    <3>3. {"front_end_swaps"} \ {"front_end_swaps"}
            = {}
      OBVIOUS
    <3>4. Unread(Tail(s)) = Unread(s) \ {Head(s)}
      BY <3>1, <3>2, <3>3
    <3>5. "invoices" \in Unread(s) => Head(s) = "invoices"
      BY <3>1, <3>2
    <3>6. Head(s) \in Tables /\ Tail(s) \in ReadsTables \cup {<<>>}
      BY <3>1 DEF ReadsTables, Tables
    <3> QED
      BY <3>4, <3>5, <3>6
  <2> QED
    BY <2>1, <2>2, <2>3, <2>4, <2>5 DEF ReadsTables
<1>6. Unread(FiveLeft) = Tables /\ Unread(<<>>) = {}
  BY <1>2 DEF Tables
<1> QED
  BY <1>3, <1>4, <1>5, <1>6

(* What Head says of the answer's state.                                   *)
LEMMA TodoOf ==
  ASSUME ViewTypes
  PROVE  /\ Reading /\ Head(answer.todo) \in Tables => answer.todo \in ReadsTables
         /\ Reading /\ Head(answer.todo) = "changes" => answer.todo = <<"changes">>
         /\ Reading /\ Head(answer.todo) = "stamp" => answer.todo = <<"stamp">>
         /\ ~Reading => answer.todo = <<>>
<1>1. answer.todo \in Todos
  BY DEF ViewTypes
<1> QED
  BY <1>1, TodoLists DEF Todos, Reading


-----------------------------------------------------------------------------
(* Steps.                                                                  *)

(* What a commit writes, and that the time it notes is recent.             *)
LEMMA CommitWrites ==
  ASSUME BaseInv, Commit
  PROVE  LET e == writing.entity IN
         /\ e \in Entities
         /\ rows' \in [Entities -> Row]
         /\ rows'[e].version = rows[e].version + 1
         /\ rows'[e].updated = writing.stamp
         /\ \A d \in Entities \ {e} : rows'[d] = rows[d]
         /\ \A d \in Entities : rows'[d].version >= rows[d].version
         /\ rows'[e].content = writing.content
         /\ clock < writing.stamp + Second + Delay /\ writing.stamp <= clock
<1> DEFINE e == writing.entity
           new == [version |-> rows[e].version + 1,
                   created |-> IF rows[e].version = 0 THEN Cardinality(SameTable(e))
                                 ELSE rows[e].created,
                   updated |-> writing.stamp,
                   content |-> writing.content]
<1>1. e \in Entities /\ e # Never
  BY DEF Commit, BaseInv, ViewTypes, Writing
<1>2. /\ rows[e] \in Row /\ writing.stamp \in Nat /\ writing.begun \in Nat /\ clock \in Nat
      /\ writing.content \in Content
  BY <1>1 DEF BaseInv, ViewTypes, Writing
<1>3. Cardinality(SameTable(e)) \in Nat
  <2>1. IsFiniteSet(SameTable(e))
    BY FS_Subset DEF SameTable
  <2> QED
    BY <2>1, FS_CardinalityType
<1>4. rows' = [rows EXCEPT ![e] = new]
  BY DEF Commit
<1>5. /\ new \in Row /\ new.version = rows[e].version + 1 /\ new.updated = writing.stamp
      /\ new.content = writing.content
  BY <1>2, <1>3 DEF Row
<1> HIDE DEF new
<1>6. /\ rows' \in [Entities -> Row]
      /\ rows'[e] = new
      /\ \A d \in Entities \ {e} : rows'[d] = rows[d]
  BY <1>1, <1>4, <1>5 DEF BaseInv, ViewTypes
<1>7. \A d \in Entities : rows'[d].version >= rows[d].version
  <2>1. \A d \in Entities : rows[d].version \in Nat
    BY DEF BaseInv, ViewTypes, Row
  <2> QED
    BY <1>1, <1>5, <1>6, <2>1
<1>8. clock < writing.stamp + Second + Delay /\ writing.stamp <= clock
  <2>1. /\ writing.begun < writing.stamp + Second /\ clock <= writing.begun + Delay
        /\ writing.stamp <= writing.begun /\ writing.begun <= clock
    BY <1>1 DEF BaseInv, UnderWay
  <2>2. Second \in Nat /\ Delay \in Nat
    OBVIOUS
  <2> QED
    BY <1>2, <2>1, <2>2
<1> QED
  BY <1>1, <1>5, <1>6, <1>7, <1>8

(* The clock ticks while what is under way may still take its time.        *)
LEMMA TickKeepsBase ==
  ASSUME BaseInv, Tick
  PROVE  BaseInv'
<1>1. clock \in Nat /\ clock' = clock + 1 /\ UNCHANGED <<rows, writing, since, stamps, view, answer>>
  BY DEF BaseInv, ViewTypes, Tick
<1>2. Delay \in Nat /\ writing.begun \in Nat /\ answer.begun \in Nat
  BY DEF BaseInv, ViewTypes, Writing
<1>3. ViewTypes'
  BY <1>1 DEF BaseInv, ViewTypes
<1>4. UnderWay'
  <2>1. writing.entity # Never =>
          /\ writing.begun <= clock + 1 /\ clock + 1 <= writing.begun + Delay
          /\ writing.begun < writing.stamp + Second /\ writing.stamp <= writing.begun
          /\ Present(Owner[writing.entity]) \/ Owner[writing.entity] = writing.entity
    BY <1>1, <1>2 DEF BaseInv, UnderWay, Tick
  <2>2. Reading => answer.begun <= clock + 1 /\ clock + 1 <= answer.begun + Delay
    BY <1>1, <1>2 DEF BaseInv, UnderWay, Tick
  <2>3. since # Never => since <= clock + 1 /\ since \in stamps
    BY <1>1 DEF BaseInv, UnderWay, ViewTypes
  <2>4. \A e \in Entities : rows[e].updated <= clock + 1
    BY <1>1 DEF BaseInv, UnderWay, ViewTypes, Row
  <2> QED
    BY <1>1, <2>1, <2>2, <2>3, <2>4 DEF UnderWay, Present, Reading
<1> QED
  BY <1>1, <1>3, <1>4 DEF BaseInv, Modes, Owned, Present

(* A write begins.                                                         *)
LEMMA WriteKeepsBase ==
  ASSUME BaseInv, NEW e \in Entities, NEW content \in Contents(e), Write(e, content)
  PROVE  BaseInv'
<1>1. clock \in Nat /\ UNCHANGED <<clock, rows, since, stamps, view, answer>>
  BY DEF BaseInv, ViewTypes, Write
<1>0. content \in Content
  BY DEF Contents, Content
<1>2. UpdatedAt(e) \in Nat /\ clock < UpdatedAt(e) + Second /\ UpdatedAt(e) <= clock
  BY <1>1, FloorIsNear DEF UpdatedAt
<1>3. /\ writing' = [entity |-> e, stamp |-> UpdatedAt(e), begun |-> clock, content |-> content]
      /\ writing' \in Writing
      /\ writing'.entity = e /\ writing'.stamp = UpdatedAt(e) /\ writing'.begun = clock
  BY <1>0, <1>1, <1>2 DEF Write, Writing
<1>4. ViewTypes'
  BY <1>1, <1>3 DEF BaseInv, ViewTypes
<1>5. UnderWay'
  <2>1. Delay \in Nat /\ clock <= clock + Delay
    BY <1>1
  <2>2. Present(Owner[e]) \/ Owner[e] = e
    BY DEF Write
  <2> QED
    BY <1>1, <1>2, <1>3, <2>1, <2>2 DEF BaseInv, UnderWay, Present, Reading
<1> QED
  BY <1>1, <1>4, <1>5 DEF BaseInv, Modes, Owned, Present

(* A write is committed.                                                   *)
LEMMA CommitKeepsBase ==
  ASSUME BaseInv, Commit
  PROVE  BaseInv'
<1> DEFINE e == writing.entity
<1>1. /\ e \in Entities
      /\ rows' \in [Entities -> Row]
      /\ rows'[e].version = rows[e].version + 1
      /\ \A d \in Entities \ {e} : rows'[d] = rows[d]
      /\ \A d \in Entities : rows'[d].version >= rows[d].version
      /\ rows'[e].updated = writing.stamp /\ writing.stamp <= clock
  BY CommitWrites
<1>2. writing' = NoWrite /\ UNCHANGED <<clock, since, stamps, view, answer>>
  BY DEF Commit
<1>3. \A d \in Entities : rows[d].version \in Nat /\ answer.found[d] \in Nat
  BY DEF BaseInv, ViewTypes, Row
<1>4. ViewTypes'
  BY <1>1, <1>2 DEF BaseInv, ViewTypes, NoWrite, Blank, Writing, Content
<1>5. UnderWay'
  BY <1>1, <1>2 DEF BaseInv, UnderWay, NoWrite, Reading
<1>6. Owned'
  <2>1. ASSUME NEW d \in Entities, Present(d)' PROVE Present(Owner[d])'
    <3>0. Owner[d] \in Entities
      OBVIOUS
    <3>1. CASE Present(d)
      BY <1>1, <1>3, <3>0, <3>1 DEF BaseInv, Owned, Present
    <3>2. CASE ~Present(d)
      <4>1. d = e
        BY <1>1, <2>1, <3>2 DEF Present
      <4>2. Present(Owner[e]) \/ Owner[e] = e
        BY <1>1 DEF BaseInv, UnderWay
      <4> QED
        BY <1>1, <1>3, <2>1, <3>0, <4>1, <4>2 DEF Present
    <3> QED
      BY <3>1, <3>2
  <2>2. ASSUME NEW d \in Entities
        PROVE  answer.found[d] <= rows'[d].version
    <3>1. rows'[d].version \in Nat
      BY <1>1 DEF Row
    <3>2. answer.found[d] <= rows[d].version
      BY DEF BaseInv, Owned
    <3> QED
      BY <1>1, <1>3, <3>1, <3>2 DEF BaseInv, Owned
  <2> QED
    BY <1>2, <2>1, <2>2 DEF Owned
<1> QED
  BY <1>2, <1>4, <1>5, <1>6 DEF BaseInv, Modes


(* The answer that begins.                                                 *)
LEMMA NewAnswer ==
  ASSUME BaseInv, GetChanges
  PROVE  /\ UNCHANGED <<clock, rows, writing, since, stamps, view>>
         /\ answer' \in [todo : Todos, found : [Entities -> Nat], stamp : Nat \cup {Never}, begun : Nat]
         /\ answer'.begun = clock
         /\ \A e \in Entities : answer'.found[e] = 0
         /\ \/ since = Never /\ answer'.todo = FiveLeft /\ answer'.stamp = clock
            \/ since # Never /\ answer'.todo = <<"changes">>
<1>1. clock \in Nat
  BY DEF BaseInv, ViewTypes
<1>2. FiveLeft \in Todos /\ <<"changes">> \in Todos
  BY DEF Todos, ReadsTables
<1>3. [e \in Entities |-> 0] \in [Entities -> Nat]
  OBVIOUS
<1>4. CASE since = Never
  <2>1. answer' = [todo |-> FiveLeft, found |-> [e \in Entities |-> 0], stamp |-> clock,
                   begun |-> clock]
    BY <1>4 DEF GetChanges, NoAnswer, FiveLeft
  <2>2. answer'.todo = FiveLeft /\ answer'.stamp = clock /\ answer'.begun = clock
        /\ answer'.found = [e \in Entities |-> 0]
    BY <2>1
  <2>3. answer' \in [todo : Todos, found : [Entities -> Nat], stamp : Nat \cup {Never}, begun : Nat]
    BY <1>1, <1>2, <1>3, <2>1
  <2> QED
    BY <1>4, <2>2, <2>3 DEF GetChanges
<1>5. CASE since # Never
  <2>1. answer' = [todo |-> <<"changes">>, found |-> [e \in Entities |-> 0], stamp |-> Never,
                   begun |-> clock]
    BY <1>5 DEF GetChanges, NoAnswer
  <2>2. answer'.todo = <<"changes">> /\ answer'.stamp = Never /\ answer'.begun = clock
        /\ answer'.found = [e \in Entities |-> 0]
    BY <2>1
  <2>3. answer' \in [todo : Todos, found : [Entities -> Nat], stamp : Nat \cup {Never}, begun : Nat]
    BY <1>1, <1>2, <1>3, <2>1
  <2> QED
    BY <1>5, <2>2, <2>3 DEF GetChanges
<1> QED
  BY <1>4, <1>5

(* The client asks.                                                        *)
LEMMA GetChangesKeepsBase ==
  ASSUME BaseInv, GetChanges
  PROVE  BaseInv'
<1>1. clock \in Nat /\ Delay \in Nat /\ clock <= clock + Delay
  BY DEF BaseInv, ViewTypes
<1>2. ViewTypes'
  BY NewAnswer DEF BaseInv, ViewTypes
<1>3. UnderWay'
  BY <1>1, NewAnswer DEF BaseInv, UnderWay, Present, Reading
<1>4. Modes'
  BY NewAnswer, TodoLists DEF BaseInv, Modes, ReadsTables
<1>5. Owned'
  <2>1. \A e \in Entities : rows[e].version \in Nat
    BY DEF BaseInv, ViewTypes, Row
  <2> QED
    BY <2>1, NewAnswer DEF BaseInv, Owned, Present
<1> QED
  BY <1>2, <1>3, <1>4, <1>5 DEF BaseInv

(* A table is read.                                                        *)
LEMMA TableIsRead ==
  ASSUME BaseInv, ReadTable
  PROVE  /\ UNCHANGED <<clock, rows, writing>>
         /\ answer.todo \in ReadsTables
         /\ answer'.todo = Tail(answer.todo)
         /\ answer'.begun = answer.begun /\ answer'.stamp = answer.stamp
         /\ answer'.found \in [Entities -> Nat]
         /\ answer' \in [todo : Todos, found : [Entities -> Nat], stamp : Nat \cup {Never}, begun : Nat]
         /\ \A e \in Entities :
              answer'.found[e] = IF Kind[e] = Head(answer.todo) /\ OwnerWasRead(e)
                                   THEN rows[e].version ELSE answer.found[e]
         /\ answer'.todo # <<>> => UNCHANGED <<since, stamps, view>>
         /\ answer'.todo = <<>> =>
              /\ since' = answer.stamp
              /\ stamps' = stamps \cup {answer.stamp}
              /\ view' = [e \in Entities |->
                            IF answer'.found[e] > 0 THEN answer'.found[e] ELSE view[e]]
<1> DEFINE f == [e \in Entities |-> IF Kind[e] = Head(answer.todo) /\ OwnerWasRead(e)
                                      THEN rows[e].version ELSE answer.found[e]]
<1>1. answer.todo \in ReadsTables
  BY TodoOf DEF BaseInv, ReadTable
<1>2. Tail(answer.todo) \in Todos
  BY <1>1, TodoLists DEF Todos
<1>3. f \in [Entities -> Nat]
  BY DEF BaseInv, ViewTypes, Row
<1>4. answer' = [answer EXCEPT !.todo = Tail(@), !.found = f]
  BY DEF ReadTable
<1>5. answer \in [todo : Todos, found : [Entities -> Nat], stamp : Nat \cup {Never}, begun : Nat]
  BY DEF BaseInv, ViewTypes
<1>6. \A e \in Entities :
        f[e] = IF Kind[e] = Head(answer.todo) /\ OwnerWasRead(e)
                 THEN rows[e].version ELSE answer.found[e]
  OBVIOUS
<1> HIDE DEF f
<1>7. /\ answer'.todo = Tail(answer.todo) /\ answer'.found = f
      /\ answer'.begun = answer.begun /\ answer'.stamp = answer.stamp
      /\ answer' \in [todo : Todos, found : [Entities -> Nat], stamp : Nat \cup {Never}, begun : Nat]
  BY <1>2, <1>3, <1>4, <1>5
<1> QED
  BY <1>1, <1>3, <1>6, <1>7 DEF ReadTable, IntoPublic

(* Owned after a table is read.                                            *)
LEMMA ReadTableKeepsOwned ==
  ASSUME BaseInv, ReadTable
  PROVE  Owned'
<1>0. /\ UNCHANGED rows
      /\ \A e \in Entities :
           answer'.found[e] = IF Kind[e] = Head(answer.todo) /\ OwnerWasRead(e)
                                THEN rows[e].version ELSE answer.found[e]
  BY TableIsRead
<1>1. \A e \in Entities : rows[e].version \in Nat /\ answer.found[e] \in Nat
  BY DEF BaseInv, ViewTypes, Row
<1> SUFFICES ASSUME NEW e \in Entities
             PROVE  /\ Present(e)' => Present(Owner[e])'
                    /\ answer'.found[e] <= rows'[e].version
  BY DEF Owned
<1>2. Present(e)' => Present(Owner[e])'
  BY <1>0 DEF BaseInv, Owned, Present
<1>3. answer'.found[e] <= rows'[e].version
  BY <1>0, <1>1 DEF BaseInv, Owned
<1> QED
  BY <1>2, <1>3

(* The invariant after a table is read.                                    *)
LEMMA ReadTableKeepsBase ==
  ASSUME BaseInv, ReadTable
  PROVE  BaseInv'
<1>1. Owned'
  BY ReadTableKeepsOwned
<1>3. answer.begun \in Nat /\ since = Never /\ answer.stamp = answer.begun /\ Reading
  BY TableIsRead DEF BaseInv, ViewTypes, Modes, ReadTable
<1>4. view' \in [Entities -> Nat]
  <2>0. answer'.found \in [Entities -> Nat] /\ view \in [Entities -> Nat]
    BY TableIsRead DEF BaseInv, ViewTypes
  <2>1. CASE answer'.todo = <<>>
    <3>1. view' = [e \in Entities |->
                     IF answer'.found[e] > 0 THEN answer'.found[e] ELSE view[e]]
      BY <2>1, TableIsRead
    <3> QED
      BY ONLY <2>0, <3>1
  <2>2. CASE answer'.todo # <<>>
    BY <2>0, <2>2, TableIsRead
  <2> QED
    BY <2>1, <2>2
<1>5. since' \in Nat \cup {Never}
  BY <1>3, TableIsRead DEF BaseInv, ViewTypes
<1>6. ViewTypes'
  BY <1>4, <1>5, TableIsRead DEF BaseInv, ViewTypes
<1>7. UnderWay'
  <2>1. answer.begun <= clock /\ clock <= answer.begun + Delay
    BY <1>3 DEF BaseInv, UnderWay
  <2>2. since' # Never => since' <= clock' /\ since' \in stamps'
    BY <1>3, <2>1, TableIsRead
  <2>3. Reading' => answer'.begun <= clock' /\ clock' <= answer'.begun + Delay
    BY <2>1, TableIsRead
  <2> QED
    BY <2>2, <2>3, TableIsRead DEF BaseInv, UnderWay, Present
<1>8. Modes'
  <2>1. CASE answer'.todo = <<>>
    <3>1. since' # Never
      BY <1>3, <2>1, TableIsRead
    <3> QED
      BY <2>1, <3>1, TodoLists DEF Modes
  <2>2. CASE answer'.todo # <<>>
    <3>1. answer.todo \in ReadsTables /\ answer'.todo = Tail(answer.todo)
      BY TableIsRead
    <3>2. Tail(answer.todo) \in ReadsTables \cup {<<>>}
      BY ONLY <3>1, TodoLists
    <3>3. answer'.todo \in ReadsTables
      BY ONLY <2>2, <3>1, <3>2
    <3>4. answer'.todo # <<"changes">> /\ answer'.todo # <<"stamp">>
      BY ONLY <3>3, TodoLists
    <3> QED
      BY <1>3, <2>2, <3>4, TableIsRead DEF BaseInv, Modes
  <2> QED
    BY <2>1, <2>2
<1> QED
  BY <1>1, <1>6, <1>7, <1>8 DEF BaseInv


(* The changes are read.                                                   *)
LEMMA ChangesAreRead ==
  ASSUME BaseInv, ReadChanges
  PROVE  /\ UNCHANGED <<clock, rows, writing, since, stamps, view>>
         /\ answer.todo = <<"changes">> /\ answer'.todo = <<"stamp">>
         /\ answer'.begun = answer.begun
         /\ answer' \in [todo : Todos, found : [Entities -> Nat], stamp : Nat \cup {Never}, begun : Nat]
         /\ \A e \in Entities :
              answer'.found[e] = IF Owner[e] \in ChangedInvoices(since) /\ Carried(e)
                                   THEN rows[e].version ELSE 0
<1> DEFINE f == [e \in Entities |-> IF Owner[e] \in ChangedInvoices(since) /\ Carried(e)
                                      THEN rows[e].version ELSE 0]
<1>1. answer.todo = <<"changes">>
  BY TodoOf DEF BaseInv, ReadChanges
<1>2. f \in [Entities -> Nat]
  BY DEF BaseInv, ViewTypes, Row
<1>3. answer' = [answer EXCEPT !.todo = <<"stamp">>, !.found = f]
  BY DEF ReadChanges
<1>4. answer \in [todo : Todos, found : [Entities -> Nat], stamp : Nat \cup {Never}, begun : Nat]
  BY DEF BaseInv, ViewTypes
<1>5. \A e \in Entities :
        f[e] = IF Owner[e] \in ChangedInvoices(since) /\ Carried(e) THEN rows[e].version ELSE 0
  OBVIOUS
<1>6. <<"stamp">> \in Todos
  BY DEF Todos
<1> HIDE DEF f
<1>7. /\ answer'.todo = <<"stamp">> /\ answer'.found = f /\ answer'.begun = answer.begun
      /\ answer' \in [todo : Todos, found : [Entities -> Nat], stamp : Nat \cup {Never}, begun : Nat]
  BY <1>2, <1>3, <1>4, <1>6
<1> QED
  BY <1>1, <1>5, <1>7 DEF ReadChanges

(* The invariant after the changes are read.                               *)
LEMMA ReadChangesKeepsBase ==
  ASSUME BaseInv, ReadChanges
  PROVE  BaseInv'
<1>1. ViewTypes'
  BY ChangesAreRead DEF BaseInv, ViewTypes
<1>2. UnderWay'
  BY ChangesAreRead DEF BaseInv, UnderWay, Present, Reading, ReadChanges
<1>3. Modes'
  BY ChangesAreRead, TodoLists DEF BaseInv, Modes
<1>4. Owned'
  <2>1. \A e \in Entities : rows[e].version \in Nat
    BY DEF BaseInv, ViewTypes, Row
  <2> SUFFICES ASSUME NEW e \in Entities
               PROVE  /\ Present(e)' => Present(Owner[e])'
                      /\ answer'.found[e] <= rows'[e].version
    BY DEF Owned
  <2>3. Present(e) => Present(Owner[e])
    BY DEF BaseInv, Owned
  <2>4. answer'.found[e] <= rows'[e].version
    BY <2>1, ChangesAreRead
  <2> QED
    BY <2>3, <2>4, ChangesAreRead DEF Present
<1> QED
  BY <1>1, <1>2, <1>3, <1>4 DEF BaseInv

(* The answer is given.                                                    *)
LEMMA StampKeepsBase ==
  ASSUME BaseInv, StampChanges
  PROVE  BaseInv'
<1>1. /\ UNCHANGED <<clock, rows, writing>> /\ since' = clock /\ clock \in Nat /\ since' # Never
      /\ stamps' = stamps \cup {clock}
  BY DEF BaseInv, ViewTypes, StampChanges
<1>2. /\ answer'.todo = <<>> /\ answer'.begun = 0
      /\ answer'.found = [e \in Entities |-> 0]
      /\ answer' \in [todo : Todos, found : [Entities -> Nat], stamp : Nat \cup {Never}, begun : Nat]
  BY DEF StampChanges, NoAnswer, Todos
<1>3. answer.found \in [Entities -> Nat]
  BY DEF BaseInv, ViewTypes
<1>4. view' \in [Entities -> Nat]
  BY <1>3 DEF BaseInv, ViewTypes, StampChanges, IntoPublic
<1>5. ViewTypes'
  BY <1>1, <1>2, <1>4 DEF BaseInv, ViewTypes
<1>6. UnderWay'
  BY <1>1, <1>2 DEF BaseInv, UnderWay, Present, Reading
<1>7. Modes'
  BY <1>1, <1>2, TodoLists DEF Modes
<1>8. Owned'
  <2>1. \A e \in Entities : rows[e].version \in Nat
    BY DEF BaseInv, ViewTypes, Row
  <2> QED
    BY <1>1, <1>2, <2>1 DEF BaseInv, Owned, Present
<1> QED
  BY <1>5, <1>6, <1>7, <1>8 DEF BaseInv

(* The walk through a list only reads.                                     *)
WalkStep ==
  \/ \E list \in Lists, sort_by \in {"CreatedAt", "Amount"},
        wanted \in (SUBSET Versions) \ {{}} : StartWalk(list, sort_by, wanted)
  \/ ReadPage
  \/ ReadTotal
  \/ TurnPage
  \/ UNCHANGED viewVars

(* It leaves alone what the feed is about.                                 *)
LEMMA WalkOnlyReads ==
  ASSUME WalkStep
  PROVE  UNCHANGED <<clock, rows, writing, since, stamps, view, answer>>
BY DEF WalkStep, StartWalk, ReadPage, ReadTotal, TurnPage, viewVars

(* So every step keeps the base of the invariant.                          *)
LEMMA NextKeepsBase ==
  ASSUME BaseInv, [ViewsNext]_viewVars
  PROVE  BaseInv'
<1>1. CASE WalkStep
  BY <1>1, WalkOnlyReads DEF BaseInv, ViewTypes, UnderWay, Modes, Owned, Present, Reading
<1> QED
  BY <1>1, TickKeepsBase, WriteKeepsBase, CommitKeepsBase, GetChangesKeepsBase, ReadTableKeepsBase,
     ReadChangesKeepsBase, StampKeepsBase
     DEF ViewsNext, WalkStep

(* And the initial state has it.                                           *)
LEMMA InitHasBase ==
  ASSUME ViewsInit
  PROVE  BaseInv
<1> USE DEF ViewsInit
<1>1. /\ answer = [todo |-> <<>>, found |-> [e \in Entities |-> 0], stamp |-> Never, begun |-> 0]
      /\ <<>> \in Todos
  BY DEF NoAnswer, Todos
<1>2. /\ answer.todo = <<>> /\ answer.found = [e \in Entities |-> 0]
      /\ answer \in [todo : Todos, found : [Entities -> Nat], stamp : Nat \cup {Never}, begun : Nat]
  BY <1>1
<1>3. \A e \in Entities : rows[e].version = 0 /\ view[e] = 0
  BY DEF Absent
<1>4. ViewTypes
  BY <1>2 DEF ViewTypes, Row, Absent, NoWrite, Blank, Writing, Content
<1>5. UnderWay
  BY <1>2 DEF UnderWay, NoWrite, Reading, Absent
<1>6. Modes
  BY <1>2, <1>3, TodoLists DEF Modes
<1>7. Owned
  BY <1>2, <1>3 DEF Owned, Present
<1> QED
  BY <1>4, <1>5, <1>6, <1>7 DEF BaseInv

(* The base holds always.                                                  *)
LEMMA BaseAlways ==
  ViewsSpec => []BaseInv
BY InitHasBase, NextKeepsBase, PTL DEF ViewsSpec

-----------------------------------------------------------------------------
(* What the client misses.                                                 *)

(* A row that is written while the client has a timestamp is new to it or  *)
(* in the blind time of that timestamp, and late for an answer under way.  *)
LEMMA CommitIsLate ==
  ASSUME BaseInv, Commit
  PROVE  LET e == writing.entity IN
         /\ since # Never => rows'[e].updated > since \/ Blind(rows'[e].updated)
         /\ Reading => rows'[e].updated > Horizon
<1> DEFINE u == rows'[writing.entity].updated
<1>1. u = writing.stamp /\ clock < writing.stamp + Second + Delay /\ writing.entity \in Entities
  BY CommitWrites
<1>2. u \in Nat /\ clock \in Nat /\ Second \in Nat /\ Delay \in Nat /\ answer.begun \in Nat
  BY <1>1 DEF BaseInv, ViewTypes, Writing
<1>3. clock < u + Second + Delay
  BY <1>1
<1> HIDE DEF u
<1>4. ASSUME since # Never PROVE u > since \/ Blind(u)
  <2>1. since \in Nat /\ since <= clock /\ since \in stamps
    BY <1>4 DEF BaseInv, ViewTypes, UnderWay
  <2>2. since - Second - Delay - Delay < u
    BY <1>2, <1>3, <2>1
  <2>3. u > since \/ u <= since
    BY <1>2, <2>1
  <2> QED
    BY <2>1, <2>2, <2>3 DEF Blind
<1>5. ASSUME Reading PROVE u > Horizon
  <2>1. answer.begun <= clock
    BY <1>5 DEF BaseInv, UnderWay
  <2> QED
    BY <1>2, <1>3, <2>1 DEF Horizon
<1> QED
  BY <1>4, <1>5 DEF u

(* A commit.                                                               *)
LEMMA CommitKeepsFeed ==
  ASSUME BaseInv, FeedInv, Commit
  PROVE  FeedInv'
<1> DEFINE w == writing.entity
<1>1. UNCHANGED <<clock, since, stamps, view, answer>>
  BY DEF Commit
<1>2. /\ w \in Entities
      /\ \A x \in Entities : x # w => rows'[x] = rows[x]
  BY CommitWrites
<1>3. /\ since # Never => rows'[w].updated > since \/ Blind(rows'[w].updated)
      /\ Reading => rows'[w].updated > Horizon
  BY CommitIsLate
<1>4. /\ Horizon' = Horizon /\ \A t : Blind(t)' <=> Blind(t)
      /\ \A x : Sent(x)' = Sent(x)
  BY <1>1 DEF Horizon, Blind, Sent
<1>5. (since # Never =>
         \A e \in Entities : Carried(e) /\ rows[e].version > view[e] =>
           rows[e].updated > since \/ Blind(rows[e].updated))'
  <2> SUFFICES ASSUME since # Never, NEW e \in Entities, Carried(e)', rows'[e].version > view[e]
               PROVE  rows'[e].updated > since \/ Blind(rows'[e].updated)
    BY <1>1, <1>4
  <2>1. CASE e = w
    BY <1>3, <2>1
  <2>2. CASE e # w
    BY <1>2, <2>2 DEF FeedInv, Carried
  <2> QED
    BY <2>1, <2>2
<1>6. (answer.todo = <<"stamp">> =>
         \A e \in Entities : Carried(e) /\ rows[e].version > Sent(e) =>
           Late(e) \/ Blind(rows[e].updated))'
  <2> SUFFICES ASSUME answer.todo = <<"stamp">>, NEW e \in Entities, Carried(e)',
                      rows'[e].version > Sent(e)
               PROVE  rows'[e].updated > Horizon \/ Blind(rows'[e].updated)
    BY <1>1, <1>4 DEF Late
  <2>0. Reading
    BY TodoLists DEF Reading
  <2>1. CASE e = w
    BY <1>3, <2>0, <2>1
  <2>2. CASE e # w
    BY <1>2, <2>2 DEF FeedInv, Carried, Late
  <2> QED
    BY <2>1, <2>2
<1>7. (answer.todo \in ReadsTables =>
         \A e \in Entities :
           /\ Kind[e] \notin Unread(answer.todo) /\ rows[e].version > answer.found[e] => Late(e)
           /\ "invoices" \notin Unread(answer.todo) /\ Present(e) /\ ~(answer.found[Owner[e]] > 0) =>
                Late(e))'
  <2> SUFFICES ASSUME answer.todo \in ReadsTables, NEW e \in Entities,
                      \/ Kind[e] \notin Unread(answer.todo) /\ rows'[e].version > answer.found[e]
                      \/ /\ "invoices" \notin Unread(answer.todo)
                         /\ rows'[e].version > 0 /\ ~(answer.found[Owner[e]] > 0)
               PROVE  rows'[e].updated > Horizon
    BY <1>1, <1>4 DEF Late, Present
  <2>0. Reading
    BY TodoLists DEF Reading
  <2>1. CASE e = w
    BY <1>3, <2>0, <2>1
  <2>2. CASE e # w
    BY <1>2, <2>2 DEF FeedInv, Late, Present
  <2> QED
    BY <2>1, <2>2
<1> QED
  BY <1>5, <1>6, <1>7 DEF FeedInv

(* What a read of a table leaves out.                                      *)
LEMMA TableMisses ==
  ASSUME BaseInv, FeedInv, ReadTable, NEW e \in Entities
  PROVE  /\ Kind[e] \notin Unread(answer'.todo) /\ rows[e].version > answer'.found[e] => Late(e)
         /\ "invoices" \notin Unread(answer'.todo) /\ Present(e) /\ ~(answer'.found[Owner[e]] > 0) =>
              Late(e)
<1>1. /\ answer.todo \in ReadsTables /\ answer'.todo = Tail(answer.todo)
      /\ \A x \in Entities :
           answer'.found[x] = IF Kind[x] = Head(answer.todo) /\ OwnerWasRead(x)
                                THEN rows[x].version ELSE answer.found[x]
  BY TableIsRead
<1>2. \A x \in Entities : rows[x].version \in Nat /\ answer.found[x] \in Nat
                          /\ answer.found[x] <= rows[x].version
  BY DEF BaseInv, ViewTypes, Row, Owned
<1>3. /\ Unread(answer'.todo) = Unread(answer.todo) \ {Head(answer.todo)}
      /\ "invoices" \in Unread(answer.todo) => Head(answer.todo) = "invoices"
  BY <1>1, TodoLists
<1>4. /\ Owner[e] \in Entities /\ Kind[Owner[e]] = "invoices" /\ Owner[Owner[e]] = Owner[e]
      /\ Kind[e] = "invoices" <=> Owner[e] = e
  OBVIOUS
<1>5. ASSUME "invoices" \notin Unread(answer'.todo), Present(e), ~(answer'.found[Owner[e]] > 0)
      PROVE  Late(e)
  <2>1. rows[Owner[e]].version > 0
    BY <1>5 DEF BaseInv, Owned, Present
  <2>2. ~(Kind[Owner[e]] = Head(answer.todo))
    BY <1>1, <1>4, <1>5, <2>1 DEF OwnerWasRead
  <2>3. answer'.found[Owner[e]] = answer.found[Owner[e]] /\ "invoices" \notin Unread(answer.todo)
    BY <1>1, <1>3, <1>4, <1>5, <2>2
  <2> QED
    BY <1>1, <1>5, <2>3 DEF FeedInv
<1>6. ASSUME Kind[e] \notin Unread(answer'.todo), rows[e].version > answer'.found[e]
      PROVE  Late(e)
  <2>1. /\ answer'.found[e] = answer.found[e]
        /\ ~(Kind[e] = Head(answer.todo) /\ OwnerWasRead(e))
    BY <1>1, <1>2, <1>6
  <2>2. CASE Kind[e] \notin Unread(answer.todo)
    BY <1>1, <1>6, <2>1, <2>2 DEF FeedInv
  <2>3. CASE Kind[e] \in Unread(answer.todo)
    <3>1. Kind[e] = Head(answer.todo)
      BY <1>3, <1>6, <2>3
    <3>2. Owner[e] # e /\ ~(answer.found[Owner[e]] > 0)
      BY <2>1, <3>1 DEF OwnerWasRead
    <3>3. "invoices" \notin Unread(answer.todo)
      BY <1>3, <1>4, <3>1, <3>2
    <3>4. Present(e)
      <4>1. rows[e].version \in Nat /\ answer.found[e] \in Nat /\ rows[e].version > answer.found[e]
        BY <1>2, <1>6, <2>1
      <4> QED
        BY <4>1 DEF Present
    <3> QED
      BY <1>1, <3>2, <3>3, <3>4 DEF FeedInv
  <2> QED
    BY <2>2, <2>3
<1> QED
  BY <1>5, <1>6

(* The read of a table, and the end of the first answer.                   *)
LEMMA ReadTableKeepsFeed ==
  ASSUME BaseInv, FeedInv, ReadTable
  PROVE  FeedInv'
<1>1. /\ UNCHANGED <<clock, rows, writing>>
      /\ answer.todo \in ReadsTables /\ answer'.todo = Tail(answer.todo)
      /\ answer'.begun = answer.begun
      /\ answer'.todo # <<>> => since' = since
      /\ answer'.todo = <<>> =>
           /\ since' = answer.stamp
           /\ stamps' = stamps \cup {answer.stamp}
           /\ view' = [e \in Entities |->
                         IF answer'.found[e] > 0 THEN answer'.found[e] ELSE view[e]]
  BY TableIsRead
<1>2. since = Never /\ answer.stamp = answer.begun /\ \A e \in Entities : view[e] = 0
  BY <1>1 DEF BaseInv, Modes
<1>3. answer'.todo # <<"stamp">>
  BY <1>1, TodoLists
<1>4. Horizon' = Horizon /\ \A e : (Late(e)' <=> Late(e)) /\ (Present(e)' <=> Present(e))
  BY <1>1 DEF Horizon, Late, Present
<1>5. ASSUME since' # Never, NEW e \in Entities, rows'[e].version > view'[e]
      PROVE  (rows[e].updated > since \/ Blind(rows[e].updated))'
  <2>1. answer'.todo = <<>>
    BY <1>1, <1>2, <1>5
  <2>2. Kind[e] \notin Unread(answer'.todo)
    BY <2>1, TodoLists
  <2>3. rows[e].version > answer'.found[e]
    <3>1. view'[e] = IF answer'.found[e] > 0 THEN answer'.found[e] ELSE view[e]
      <4>1. view' = [x \in Entities |->
                       IF answer'.found[x] > 0 THEN answer'.found[x] ELSE view[x]]
        BY <1>1, <2>1
      <4> QED
        BY ONLY <4>1, e \in Entities
    <3>2. rows[e].version \in Nat
      BY DEF BaseInv, ViewTypes, Row
    <3>3. answer'.found[e] \in Nat
      <4>1. answer'.found \in [Entities -> Nat]
        BY TableIsRead
      <4> QED
        BY ONLY <4>1, e \in Entities
    <3> QED
      BY <1>1, <1>2, <1>5, <3>1, <3>2, <3>3
  <2>4. Late(e)
    BY <2>2, <2>3, TableMisses
  <2>5. since' = answer.begun /\ answer.begun \in Nat /\ since' \in stamps'
    BY <1>1, <1>2, <2>1 DEF BaseInv, ViewTypes
  <2>6. Second \in Nat /\ Delay \in Nat /\ rows[e].updated \in Nat
    BY DEF BaseInv, ViewTypes, Row
  <2>7. since' - Second - Delay - Delay < rows[e].updated
    BY <2>4, <2>5, <2>6 DEF Late, Horizon
  <2>8. rows[e].updated > since' \/ rows[e].updated <= since'
    BY <2>5, <2>6
  <2> QED
    BY <1>1, <2>5, <2>7, <2>8 DEF Blind
<1>6. (since # Never =>
         \A e \in Entities : Carried(e) /\ rows[e].version > view[e] =>
           rows[e].updated > since \/ Blind(rows[e].updated))'
  BY <1>5
<1>7. (answer.todo \in ReadsTables =>
         \A e \in Entities :
           /\ Kind[e] \notin Unread(answer.todo) /\ rows[e].version > answer.found[e] => Late(e)
           /\ "invoices" \notin Unread(answer.todo) /\ Present(e) /\ ~(answer.found[Owner[e]] > 0) =>
                Late(e))'
  BY <1>1, <1>4, TableMisses
<1> QED
  BY <1>3, <1>6, <1>7 DEF FeedInv

(* The changes are read: what they leave out was in a blind time.          *)
LEMMA ReadChangesKeepsFeed ==
  ASSUME BaseInv, FeedInv, ReadChanges
  PROVE  FeedInv'
<1>1. /\ UNCHANGED <<clock, rows, writing, since, stamps, view>>
      /\ answer.todo = <<"changes">> /\ answer'.todo = <<"stamp">>
      /\ \A e \in Entities :
           answer'.found[e] = IF Owner[e] \in ChangedInvoices(since) /\ Carried(e)
                                THEN rows[e].version ELSE 0
  BY ChangesAreRead
<1>2. since # Never
  BY <1>1 DEF BaseInv, Modes
<1>3. \A e \in Entities : rows[e].version \in Nat /\ view[e] \in Nat
  BY DEF BaseInv, ViewTypes, Row
<1>4. \A t : Blind(t)' <=> Blind(t)
  BY <1>1 DEF Blind
<1>5. ASSUME NEW e \in Entities, Carried(e), rows[e].version > Sent(e)'
      PROVE  Blind(rows[e].updated)
  <2>1. Sent(e)' = IF answer'.found[e] > 0 THEN answer'.found[e] ELSE view[e]
    BY <1>1 DEF Sent
  <2>2. Owner[e] \notin ChangedInvoices(since)
    BY <1>1, <1>3, <1>5, <2>1
  <2>3. Sent(e)' = view[e]
    BY <1>1, <2>1, <2>2
  <2>4. rows[e].updated > since \/ Blind(rows[e].updated)
    BY <1>2, <1>5, <2>3 DEF FeedInv
  <2>5. Present(e) /\ Present(Owner[e]) /\ Owner[e] \in Entities /\ Owner[Owner[e]] = Owner[e]
    <3>1. Present(e)
      BY <1>3, <1>5, <2>3 DEF Present
    <3> QED
      BY <3>1 DEF BaseInv, Owned
  <2>6. ~(rows[e].updated > since)
    BY <2>2, <2>5 DEF ChangedInvoices
  <2> QED
    BY <2>4, <2>6
<1>6. (since # Never =>
         \A e \in Entities : Carried(e) /\ rows[e].version > view[e] =>
           rows[e].updated > since \/ Blind(rows[e].updated))'
  BY <1>1, <1>4 DEF FeedInv, Carried
<1>7. (\A e \in Entities : Carried(e) /\ rows[e].version > Sent(e) =>
         Late(e) \/ Blind(rows[e].updated))'
  BY <1>1, <1>4, <1>5 DEF Carried
<1>8. answer'.todo \notin ReadsTables
  BY <1>1, TodoLists
<1> QED
  BY <1>6, <1>7, <1>8 DEF FeedInv

(* The answer is given, less than Delay after it began.                    *)
LEMMA StampKeepsFeed ==
  ASSUME BaseInv, FeedInv, StampChanges
  PROVE  FeedInv'
<1>1. answer.todo = <<"stamp">> /\ Reading
  BY TodoOf DEF BaseInv, StampChanges
<1>2. /\ UNCHANGED <<clock, rows>> /\ since' = clock /\ stamps' = stamps \cup {clock}
      /\ answer'.todo = <<>>
  BY DEF StampChanges, NoAnswer
<1>3. \A e \in Entities : view'[e] = Sent(e)
  BY DEF StampChanges, IntoPublic, Sent
<1>4. \A t : Blind(t) => Blind(t)'
  BY <1>2 DEF Blind
<1>5. ASSUME NEW e \in Entities, Carried(e), rows[e].version > Sent(e)
      PROVE  Blind(rows[e].updated)'
  <2>1. Late(e) \/ Blind(rows[e].updated)
    BY <1>1, <1>5 DEF FeedInv
  <2>2. CASE Late(e)
    <3>1. clock <= answer.begun + Delay /\ rows[e].updated <= clock
      BY <1>1 DEF BaseInv, UnderWay
    <3>2. /\ clock \in Nat /\ answer.begun \in Nat /\ Second \in Nat /\ Delay \in Nat
          /\ rows[e].updated \in Nat
      BY DEF BaseInv, ViewTypes, Row
    <3>3. clock - Second - Delay - Delay < rows[e].updated
      BY <2>2, <3>1, <3>2 DEF Late, Horizon
    <3> QED
      BY <1>2, <3>1, <3>3 DEF Blind
  <2>3. CASE Blind(rows[e].updated)
    BY <1>2, <1>4, <2>3
  <2> QED
    BY <2>1, <2>2, <2>3
<1>6. (since # Never =>
         \A e \in Entities : Carried(e) /\ rows[e].version > view[e] =>
           rows[e].updated > since \/ Blind(rows[e].updated))'
  BY <1>2, <1>3, <1>5 DEF Carried
<1> QED
  BY <1>2, <1>6, TodoLists DEF FeedInv

(* Every step keeps the invariant of the feed.                             *)
LEMMA NextKeepsFeed ==
  ASSUME BaseInv, FeedInv, [ViewsNext]_viewVars
  PROVE  FeedInv'
<1>1. CASE UNCHANGED <<rows, since, stamps, view, answer>>
  BY <1>1 DEF FeedInv, Blind, Carried, Late, Present, Sent, Horizon
<1>2. CASE WalkStep \/ Tick \/ \E e \in Entities : \E content \in Contents(e) : Write(e, content)
  BY <1>1, <1>2, WalkOnlyReads DEF Tick, Write
<1>3. CASE GetChanges
  <2>1. /\ UNCHANGED <<rows, since, stamps, view>>
        /\ answer'.todo = FiveLeft \/ answer'.todo = <<"changes">>
    BY <1>3, NewAnswer
  <2>2. answer'.todo # <<"stamp">>
    BY <2>1, TodoLists DEF ReadsTables
  <2>3. answer'.todo \in ReadsTables =>
          \A e \in Entities : Kind[e] \in Unread(answer'.todo) /\ "invoices" \in Unread(answer'.todo)
    BY <2>1, TodoLists DEF Tables
  <2>4. (since # Never =>
           \A e \in Entities : Carried(e) /\ rows[e].version > view[e] =>
             rows[e].updated > since \/ Blind(rows[e].updated))'
    BY <2>1 DEF FeedInv, Blind, Carried
  <2> QED
    BY <2>2, <2>3, <2>4 DEF FeedInv
<1> QED
  BY <1>2, <1>3, CommitKeepsFeed, ReadTableKeepsFeed, ReadChangesKeepsFeed, StampKeepsFeed
     DEF ViewsNext, WalkStep

(* A client that asks get_changes with the last sync_timestamp misses only *)
(* what is stamped less than a second, a transaction and an answer before  *)
(* a timestamp it was given, for any rows and any durations, though rows   *)
(* note their time before they are committed, an UPDATE notes whole        *)
(* seconds, and the timestamp is taken after the changes are read.         *)
THEOREM MissedIsRecentAlways ==
  ViewsSpec => []MissedIsRecent
<1>1. ASSUME ViewsInit PROVE FeedInv
  <2>1. answer.todo = <<>> /\ since = Never
    BY <1>1 DEF ViewsInit, NoAnswer
  <2> QED
    BY <2>1, TodoLists DEF FeedInv
<1>2. ASSUME BaseInv, FeedInv PROVE MissedIsRecent
  <2> SUFFICES ASSUME NEW e \in Missed
               PROVE  Blind(rows[e].updated)
    BY DEF MissedIsRecent, Blind
  <2>1. /\ e \in Entities /\ since # Never /\ Carried(e) /\ rows[e].version > view[e]
        /\ Owner[e] \notin ChangedInvoices(since)
    BY DEF Missed
  <2>2. rows[e].updated > since \/ Blind(rows[e].updated)
    BY <1>2, <2>1 DEF FeedInv
  <2>3. Present(e)
    BY <1>2, <2>1 DEF BaseInv, ViewTypes, Row, Present
  <2>4. Present(Owner[e]) /\ Owner[e] \in Entities /\ Owner[Owner[e]] = Owner[e]
    BY <1>2, <2>1, <2>3 DEF BaseInv, Owned
  <2>5. ~(rows[e].updated > since)
    BY <2>1, <2>3, <2>4 DEF ChangedInvoices
  <2> QED
    BY <2>2, <2>5
<1>3. BaseInv /\ FeedInv /\ [ViewsNext]_viewVars => FeedInv'
  BY NextKeepsFeed
<1> QED
  BY <1>1, <1>2, <1>3, BaseAlways, PTL DEF ViewsSpec

-----------------------------------------------------------------------------
(* The walk through a list.                                                *)

(* The page numbers and offsets of the lists, which are u32, do not wrap.  *)
ListsFit == Cardinality(Entities) <= U32

Wanted == SUBSET (Nat \ {0})
Items == (SUBSET Entities) \cup {Never}

Walk == [list : Tables \cup {Never}, sort_by : {"CreatedAt", "Amount"}, wanted : Wanted, page : Int,
         start : SUBSET Entities, seen : SUBSET Entities,
         items : Items, total : Nat \cup {Never}, stale : BOOLEAN, shifted : BOOLEAN]

(* How many rows of the list come before a row.                            *)
Rank(e) == Cardinality(Before(e))

(* Rows the walk began with and has not met.                               *)
Missing == walk.start \ walk.seen

(* As long as the list has not shifted, the rows that are missing are on   *)
(* this page or a later one; once it is read, those that were not on it    *)
(* are on a later one, and the total says that there is one.               *)
WalkIsAhead ==
  walk.page > 0 /\ ~walk.shifted =>
    /\ walk.start \subseteq Listed
    /\ \A e \in Missing : Rank(e) >= (walk.page - 1) * PerPage
    /\ walk.items # Never =>
         \A e \in Missing \ walk.items :
           /\ Rank(e) >= walk.page * PerPage
           /\ walk.total # Never /\ ~walk.stale => walk.total > walk.page * PerPage

(* The inductive invariant of the walk.                                    *)
WalkInv ==
  /\ walk \in Walk
  /\ walk.items # Never => walk.page > 0
  /\ WalkIsAhead
  /\ WalkSkipsNothing

(* A row comes after fewer rows than are listed, and after fewer than      *)
(* there are.                                                              *)
LEMMA RankIsBelow ==
  ASSUME BaseInv, NEW e \in Listed
  PROVE  /\ Rank(e) \in Nat /\ Cardinality(Listed) \in Nat
         /\ Rank(e) < Cardinality(Listed)
         /\ Cardinality(Listed) <= Cardinality(Entities) /\ Cardinality(Entities) \in Nat
<1>1. Listed \in SUBSET Entities /\ Before(e) \in SUBSET Listed
  BY DEF Listed, Before
<1>2. IsFiniteSet(Listed) /\ IsFiniteSet(Before(e))
  BY <1>1, FS_Subset
<1>3. /\ Cardinality(Before(e)) \in Nat /\ Cardinality(Listed) \in Nat
      /\ Cardinality(Before(e)) <= Cardinality(Listed)
      /\ Cardinality(Listed) <= Cardinality(Entities) /\ Cardinality(Entities) \in Nat
  BY <1>1, <1>2, FS_Subset, FS_CardinalityType
<1>4. Before(e) # Listed => Cardinality(Before(e)) # Cardinality(Listed)
  BY <1>1, <1>2, FS_Subset
<1>5. Before(e) # Listed
  <2> SUFFICES ASSUME e \in Before(e) PROVE FALSE
    OBVIOUS
  <2>1. rows[e].created \in Nat /\ Amount(e) \in Nat
    BY DEF BaseInv, ViewTypes, Row, Content, Listed, Amount
  <2> QED
    BY <2>1 DEF Before, Below
<1> QED
  BY <1>3, <1>4, <1>5 DEF Rank

(* The arithmetic of pages.                                                *)
LEMMA Pages ==
  ASSUME NEW page \in Nat \ {0}
  PROVE  /\ (page - 1) * PerPage \in Nat /\ page * PerPage \in Nat
         /\ page * PerPage = (page - 1) * PerPage + PerPage
         /\ (page - 1) * PerPage < U32 => offset(page) = (page - 1) * PerPage
         /\ \A t \in Nat : t > page * PerPage => page < total_pages(t)
<1>1. PerPage \in Nat \ {0} /\ U32 \in Nat \ {0}
  OBVIOUS
<1>2. (page - 1) * PerPage \in Nat /\ page * PerPage \in Nat
  BY <1>1
<1>3. page * PerPage = (page - 1) * PerPage + PerPage
  BY <1>1
<1>4. \A x \in Nat : x < U32 => x % U32 = x
  BY <1>1
<1>5. ASSUME NEW t \in Nat, t > page * PerPage
      PROVE  page < total_pages(t)
  <2> DEFINE q == total_pages(t)
  <2>1. q \in Int /\ t + PerPage - 1 < q * PerPage + PerPage
    BY <1>1 DEF total_pages
  <2> HIDE DEF q
  <2>2. page * PerPage < q * PerPage
    BY <1>1, <1>2, <1>5, <2>1
  <2>3. page < q
    BY <1>1, <2>1, <2>2
  <2> QED
    BY <2>3 DEF q
<1> QED
  BY <1>2, <1>3, <1>4, <1>5 DEF offset

(* A commit that does not shift the list only adds rows before a row.      *)
LEMMA CommitRanks ==
  ASSUME BaseInv, WalkInv, Commit, ~walk.shifted, ~walk'.shifted
  PROVE  /\ Listed \subseteq Listed'
         /\ \A e \in Listed : Rank(e) <= Rank(e)' /\ Rank(e)' \in Nat
<1> DEFINE w == writing.entity
<1>1. /\ w \in Entities
      /\ rows' \in [Entities -> Row]
      /\ rows'[w].version = rows[w].version + 1
      /\ rows'[w].content = writing.content
      /\ \A d \in Entities \ {w} : rows'[d] = rows[d]
  BY CommitWrites
<1>2. /\ walk'.list = walk.list /\ walk'.wanted = walk.wanted /\ walk'.sort_by = walk.sort_by
      /\ ~Shifts(w, rows[w].version + 1, writing.content)
  BY DEF Commit, WalkInv, Walk
<1>3. \A d \in Entities : rows[d] \in Row /\ rows'[d] \in Row
  BY <1>1 DEF BaseInv, ViewTypes
<1>4. rows[w].version # 0 => rows'[w].created = rows[w].created
  BY <1>1, <1>3 DEF Commit, Row, BaseInv, ViewTypes
<1>5. \A d \in Listed : /\ d \in Listed' /\ rows'[d].created = rows[d].created
                        /\ Amount(d)' = Amount(d)
  <2> SUFFICES ASSUME NEW d \in Listed
               PROVE  d \in Listed' /\ rows'[d].created = rows[d].created /\ Amount(d)' = Amount(d)
    OBVIOUS
  <2>1. CASE d # w
    BY <1>1, <1>2, <2>1 DEF Listed, Present, Amount
  <2>2. CASE d = w
    <3>1. /\ rows'[w].version \in walk.wanted
          /\ walk.sort_by = "Amount" => rows'[w].content.amount = rows[w].content.amount
      BY <1>1, <1>2, <2>2 DEF Shifts
    <3>2. d \in Listed' /\ rows'[d].created = rows[d].created
      BY <1>1, <1>2, <1>3, <1>4, <2>2, <3>1 DEF Listed, Present, Row
    <3> QED
      BY <1>2, <2>2, <3>1, <3>2 DEF Amount
  <2> QED
    BY <2>1, <2>2
<1>6. ASSUME NEW e \in Listed
      PROVE  Rank(e) <= Rank(e)' /\ Rank(e)' \in Nat
  <2>1. Before(e) \in SUBSET Before(e)'
    BY <1>5, <1>6 DEF Before, Below
  <2>2. Before(e)' \in SUBSET Entities
    BY DEF Before, Listed
  <2>3. IsFiniteSet(Before(e)')
    BY <2>2, FS_Subset
  <2> QED
    BY <2>1, <2>3, FS_Subset, FS_CardinalityType DEF Rank
<1> QED
  BY <1>5, <1>6

(* A commit leaves the walk ahead of what is missing, or shifts the list.  *)
LEMMA CommitKeepsWalk ==
  ASSUME BaseInv, WalkInv, Commit
  PROVE  WalkInv'
<1>1. PICK gone \in BOOLEAN : walk' = [walk EXCEPT !.shifted = gone]
  <2>1. walk' = [walk EXCEPT !.shifted = walk.shifted
                   \/ Shifts(writing.entity, rows[writing.entity].version + 1, writing.content)]
    BY DEF Commit
  <2> QED
    BY <2>1
<1>2. /\ walk' \in Walk
      /\ walk'.page = walk.page /\ walk'.start = walk.start /\ walk'.seen = walk.seen
      /\ walk'.items = walk.items /\ walk'.total = walk.total /\ walk'.stale = walk.stale
      /\ walk'.list = walk.list /\ walk'.wanted = walk.wanted /\ walk'.sort_by = walk.sort_by
  BY <1>1 DEF WalkInv, Walk
<1>3. walk.shifted => walk'.shifted
  BY DEF Commit, WalkInv, Walk
<1>4. WalkSkipsNothing'
  BY <1>2, <1>3 DEF WalkInv, WalkSkipsNothing
<1>5. WalkIsAhead'
  <2> SUFFICES ASSUME walk'.page > 0, ~walk'.shifted
               PROVE  WalkIsAhead'
    BY DEF WalkIsAhead
  <2>1. walk.page > 0 /\ ~walk.shifted
    BY <1>2, <1>3
  <2>2. /\ Listed \subseteq Listed'
        /\ \A e \in Listed : Rank(e) <= Rank(e)' /\ Rank(e)' \in Nat
    BY <2>1, CommitRanks
  <2>3. walk.start \subseteq Listed
    BY <2>1 DEF WalkInv, WalkIsAhead
  <2>4. \A e \in Listed : Rank(e) \in Nat
    BY RankIsBelow
  <2>5. Missing' = Missing
    BY <1>2 DEF Missing
  <2>0. walk.page \in Nat \ {0}
    BY <2>1 DEF WalkInv, Walk
  <2>6. (walk.page - 1) * PerPage \in Nat /\ walk.page * PerPage \in Nat
    BY <2>0, Pages
  <2>7. \A e \in Missing : Rank(e)' >= (walk.page - 1) * PerPage
    BY <2>1, <2>2, <2>3, <2>4, <2>6 DEF WalkInv, WalkIsAhead, Missing
  <2>8. walk.items # Never => \A e \in Missing \ walk.items :
          /\ Rank(e)' >= walk.page * PerPage
          /\ walk.total # Never /\ ~walk.stale => walk.total > walk.page * PerPage
    BY <2>1, <2>2, <2>3, <2>4, <2>6 DEF WalkInv, WalkIsAhead, Missing
  <2> QED
    BY <1>2, <2>2, <2>3, <2>5, <2>7, <2>8 DEF WalkIsAhead
<1> QED
  BY <1>2, <1>4, <1>5 DEF WalkInv

(* A walk begins on the first page with everything missing.                *)
LEMMA StartWalkKeepsWalk ==
  ASSUME BaseInv, NEW list \in Lists, NEW sort_by \in {"CreatedAt", "Amount"},
         NEW wanted \in (SUBSET Versions) \ {{}}, StartWalk(list, sort_by, wanted)
  PROVE  WalkInv'
<1> DEFINE start == {e \in Entities : Kind[e] = list /\ rows[e].version \in wanted}
<1>1. walk' = [list |-> list, sort_by |-> sort_by, wanted |-> wanted, page |-> 1, start |-> start, seen |-> {},
               items |-> Never, total |-> Never, stale |-> FALSE, shifted |-> FALSE]
  BY DEF StartWalk, NoWalk
<1>2. walk' \in Walk
  <2>0. \A v \in Versions : v \in Nat \ {0}
    BY DEF Versions
  <2>1. wanted \in Wanted /\ Never \in Items /\ list \in Tables \cup {Never}
    BY <2>0 DEF Wanted, Items, Lists
  <2>2. start \in SUBSET Entities
    OBVIOUS
  <2> HIDE DEF start
  <2> QED
    BY <1>1, <2>1, <2>2 DEF Walk
<1>3. start \subseteq Listed'
  <2>1. \A v \in wanted : v > 0
    BY DEF Versions
  <2> QED
    BY <1>1, <2>1 DEF Listed, Present, StartWalk
<1>4. \A e \in start : Rank(e)' \in Nat
  <2> SUFFICES ASSUME NEW e \in start PROVE Rank(e)' \in Nat
    OBVIOUS
  <2>1. Before(e)' \in SUBSET Entities
    BY DEF Before, Listed
  <2>2. IsFiniteSet(Before(e)')
    BY <2>1, FS_Subset
  <2> QED
    BY <2>2, FS_CardinalityType DEF Rank
<1> HIDE DEF start
<1>5. WalkIsAhead'
  <2>1. /\ walk'.page = 1 /\ walk'.start = start /\ walk'.items = Never /\ walk'.seen = {}
        /\ (walk'.page - 1) * PerPage = 0
    BY <1>1
  <2> QED
    BY <1>3, <1>4, <2>1 DEF WalkIsAhead, Missing
<1>6. WalkSkipsNothing'
  BY <1>1 DEF WalkSkipsNothing
<1>7. walk'.items = Never
  BY <1>1
<1> QED
  BY <1>2, <1>5, <1>6, <1>7 DEF WalkInv

(* What is missing and not on the page that is read comes after it.        *)
LEMMA ReadPageKeepsWalk ==
  ASSUME ListsFit, BaseInv, WalkInv, ReadPage
  PROVE  WalkInv'
<1> DEFINE items == get_paginated(walk.page)
<1>1. walk' = [walk EXCEPT !.items = items, !.stale = walk.total # Never]
  BY DEF ReadPage
<1>2. items \in Items /\ (walk.total # Never) \in BOOLEAN
  BY DEF get_paginated, Listed, Items
<1>3. /\ walk' \in Walk
      /\ walk'.items = items /\ walk'.stale = (walk.total # Never)
      /\ walk'.page = walk.page /\ walk'.start = walk.start /\ walk'.seen = walk.seen
      /\ walk'.total = walk.total /\ walk'.shifted = walk.shifted
      /\ walk'.list = walk.list /\ walk'.wanted = walk.wanted /\ walk'.sort_by = walk.sort_by
  BY <1>1, <1>2 DEF WalkInv, Walk
<1>4. walk.page \in Nat \ {0}
  BY DEF ReadPage, WalkInv, Walk
<1>5. /\ Listed' = Listed /\ Missing' = Missing /\ \A e : Rank(e)' = Rank(e)
  <2>1. rows' = rows
    BY DEF ReadPage
  <2> QED
    BY <1>3, <2>1 DEF Listed, Missing, Rank, Before, Below, Amount, Present
<1>6. ASSUME ~walk.shifted
      PROVE  \A e \in Missing \ items : Rank(e) >= walk.page * PerPage
  <2> SUFFICES ASSUME NEW e \in Missing, e \notin items
               PROVE  Rank(e) >= walk.page * PerPage
    OBVIOUS
  <2>1. e \in Listed /\ Rank(e) >= (walk.page - 1) * PerPage
    BY <1>4, <1>6 DEF WalkInv, WalkIsAhead, Missing
  <2>2. Rank(e) \in Nat /\ Rank(e) < U32
    BY <2>1, RankIsBelow DEF ListsFit
  <2>3. /\ (walk.page - 1) * PerPage \in Nat /\ walk.page * PerPage \in Nat
        /\ walk.page * PerPage = (walk.page - 1) * PerPage + PerPage
        /\ (walk.page - 1) * PerPage < U32 => offset(walk.page) = (walk.page - 1) * PerPage
    BY <1>4, Pages
  <2>4. offset(walk.page) = (walk.page - 1) * PerPage
    BY <2>1, <2>2, <2>3
  <2>5. Rank(e) \notin offset(walk.page) .. offset(walk.page) + PerPage - 1
    BY <2>1 DEF get_paginated, Rank
  <2> QED
    BY <2>1, <2>2, <2>3, <2>4, <2>5
<1> HIDE DEF items
<1>7. WalkIsAhead'
  BY <1>3, <1>4, <1>5, <1>6 DEF WalkInv, WalkIsAhead
<1>8. WalkSkipsNothing'
  BY <1>3, <1>4 DEF WalkSkipsNothing
<1> QED
  BY <1>3, <1>4, <1>7, <1>8 DEF WalkInv

(* A total that is read after the page counts what comes after the page.   *)
LEMMA ReadTotalKeepsWalk ==
  ASSUME BaseInv, WalkInv, ReadTotal
  PROVE  WalkInv'
<1>1. walk' = [walk EXCEPT !.total = Cardinality(Listed)]
  BY DEF ReadTotal
<1>2. Cardinality(Listed) \in Nat
  <2>1. IsFiniteSet(Listed)
    BY FS_Subset DEF Listed
  <2> QED
    BY <2>1, FS_CardinalityType
<1>3. /\ walk' \in Walk
      /\ walk'.total = Cardinality(Listed)
      /\ walk'.page = walk.page /\ walk'.start = walk.start /\ walk'.seen = walk.seen
      /\ walk'.items = walk.items /\ walk'.shifted = walk.shifted /\ walk'.stale = walk.stale
      /\ walk'.list = walk.list /\ walk'.wanted = walk.wanted /\ walk'.sort_by = walk.sort_by
  BY <1>1, <1>2 DEF WalkInv, Walk
<1>4. walk.page \in Nat \ {0}
  BY DEF ReadTotal, WalkInv, Walk
<1>5. /\ Listed' = Listed /\ Missing' = Missing /\ \A e : Rank(e)' = Rank(e)
  <2>1. rows' = rows
    BY DEF ReadTotal
  <2> QED
    BY <1>3, <2>1 DEF Listed, Missing, Rank, Before, Below, Amount, Present
<1>6. ASSUME ~walk.shifted, walk.items # Never, NEW e \in Missing \ walk.items
      PROVE  Cardinality(Listed) > walk.page * PerPage
  <2>1. e \in Listed /\ Rank(e) >= walk.page * PerPage
    BY <1>4, <1>6 DEF WalkInv, WalkIsAhead, Missing
  <2>2. Rank(e) \in Nat /\ Rank(e) < Cardinality(Listed) /\ walk.page * PerPage \in Nat
    BY <1>4, <2>1, RankIsBelow, Pages
  <2> QED
    BY <1>2, <2>1, <2>2
<1>7. WalkIsAhead'
  BY <1>3, <1>4, <1>5, <1>6 DEF WalkInv, WalkIsAhead
<1>8. WalkSkipsNothing'
  BY <1>3, <1>4 DEF WalkSkipsNothing
<1> QED
  BY <1>3, <1>4, <1>7, <1>8 DEF WalkInv

(* So the walk turns the page as long as something is missing.             *)
LEMMA TurnPageKeepsWalk ==
  ASSUME BaseInv, WalkInv, TurnPage
  PROVE  WalkInv'
<1> DEFINE next == IF walk.page < total_pages(walk.total) THEN walk.page + 1 ELSE -1
<1>0. walk \in Walk /\ walk.items \subseteq Entities /\ walk.total \in Nat
  <2>1. walk \in Walk /\ walk.items # Never /\ walk.total # Never
    BY DEF TurnPage, WalkInv
  <2>2. walk.items \in Items /\ walk.total \in Nat \cup {Never}
    BY <2>1 DEF Walk
  <2> QED
    BY <2>1, <2>2 DEF Items
<1>1. walk' = [walk EXCEPT !.seen = walk.seen \cup walk.items, !.page = next,
                           !.items = Never, !.total = Never]
  BY DEF TurnPage
<1>2. next \in Int /\ Never \in Items /\ walk.seen \cup walk.items \in SUBSET Entities
  BY <1>0 DEF Walk, Items
<1> HIDE DEF next
<1>3. /\ walk' \in Walk
      /\ walk'.seen = walk.seen \cup walk.items /\ walk'.page = next
      /\ walk'.items = Never
      /\ walk'.start = walk.start /\ walk'.shifted = walk.shifted /\ walk'.stale = walk.stale
      /\ walk'.list = walk.list /\ walk'.wanted = walk.wanted /\ walk'.sort_by = walk.sort_by
  BY <1>0, <1>1, <1>2 DEF Walk
<1>5. /\ Listed' = Listed /\ Missing' = Missing \ walk.items /\ \A e : Rank(e)' = Rank(e)
  <2>1. rows' = rows
    BY DEF TurnPage
  <2> QED
    BY <1>3, <2>1 DEF Listed, Missing, Rank, Before, Below, Amount, Present
<1>6. walk.items # Never /\ walk.total # Never
  BY DEF TurnPage
<1>7. walk.page \in Nat \ {0}
  BY <1>0, <1>6 DEF WalkInv, Walk
<1>8. ASSUME ~walk.shifted, NEW e \in Missing \ walk.items
      PROVE  /\ Rank(e) >= walk.page * PerPage
             /\ ~walk.stale => next = walk.page + 1
  <2>1. /\ Rank(e) >= walk.page * PerPage
        /\ ~walk.stale => walk.total > walk.page * PerPage
    BY <1>6, <1>7, <1>8 DEF WalkInv, WalkIsAhead
  <2> QED
    BY <1>0, <1>7, <2>1, Pages DEF next
<1>9. WalkIsAhead'
  <2> SUFFICES ASSUME next > 0, ~walk.shifted
               PROVE  /\ walk.start \subseteq Listed
                      /\ \A e \in Missing \ walk.items : Rank(e) >= (next - 1) * PerPage
    BY <1>3, <1>5 DEF WalkIsAhead
  <2>1. next = walk.page + 1
    BY <1>7 DEF next
  <2>2. next - 1 = walk.page
    BY <1>7, <2>1
  <2> QED
    BY <1>7, <1>8, <2>2 DEF WalkInv, WalkIsAhead
<1>10. WalkSkipsNothing'
  <2> SUFFICES ASSUME next = -1, ~walk.stale, ~walk.shifted
               PROVE  Missing \ walk.items = {}
    BY <1>3 DEF WalkSkipsNothing, Missing
  <2> QED
    BY <1>7, <1>8
<1> QED
  BY <1>3, <1>9, <1>10 DEF WalkInv

(* The invariant of the walk is inductive.                                 *)
LEMMA NextKeepsWalk ==
  ASSUME ListsFit, BaseInv, WalkInv, [ViewsNext]_viewVars
  PROVE  WalkInv'
<1>1. CASE UNCHANGED <<rows, walk>>
  <2>1. Listed' = Listed /\ Missing' = Missing /\ \A e : Rank(e)' = Rank(e)
    <3>1. Listed' = Listed /\ Missing' = Missing
      BY <1>1 DEF Missing, Listed, Present
    <3>2. \A e : Before(e)' = Before(e)
      BY <1>1, <3>1 DEF Before, Below, Amount
    <3> QED
      BY <3>1, <3>2 DEF Rank
  <2>2. WalkIsAhead'
    BY <1>1, <2>1 DEF WalkInv, WalkIsAhead
  <2> QED
    BY <1>1, <2>2 DEF WalkInv, WalkSkipsNothing
<1>2. CASE Tick \/ GetChanges \/ ReadTable \/ ReadChanges \/ StampChanges
           \/ UNCHANGED viewVars
           \/ \E e \in Entities : \E content \in Contents(e) : Write(e, content)
  BY <1>1, <1>2 DEF Tick, GetChanges, ReadTable, ReadChanges, StampChanges, Write, viewVars
<1>3. CASE Commit
  BY <1>3, CommitKeepsWalk
<1>4. CASE \E list \in Lists, sort_by \in {"CreatedAt", "Amount"}, wanted \in (SUBSET Versions) \ {{}} :
             StartWalk(list, sort_by, wanted)
  BY <1>4, StartWalkKeepsWalk
<1>5. CASE ReadPage \/ ReadTotal \/ TurnPage
  BY <1>5, ReadPageKeepsWalk, ReadTotalKeepsWalk, TurnPageKeepsWalk
<1> QED
  BY <1>2, <1>3, <1>4, <1>5 DEF ViewsNext

(* A walk through the pages of a list of the admin API, sorted by          *)
(* created_at or by amount, meets every row that was listed when it began, *)
(* for any number of rows and any per_page, while rows are written and     *)
(* come into the list, unless its last total was read before its last      *)
(* page, or a row left the list or got another amount it is sorted by.     *)
THEOREM WalkSkipsNothingAlways ==
  ASSUME ListsFit
  PROVE  ViewsSpec => []WalkSkipsNothing
<1>1. ASSUME ViewsInit PROVE WalkInv
  <2>1. walk = [list |-> Never, sort_by |-> "CreatedAt", wanted |-> {}, page |-> 0, start |-> {}, seen |-> {},
                items |-> Never, total |-> Never, stale |-> FALSE, shifted |-> FALSE]
    BY <1>1 DEF ViewsInit, NoWalk
  <2>2. {} \in Wanted /\ Never \in Items
    BY DEF Wanted, Items
  <2>3. walk \in Walk /\ walk.page = 0 /\ walk.items = Never
    BY <2>1, <2>2 DEF Walk
  <2> QED
    BY <2>3 DEF WalkInv, WalkIsAhead, WalkSkipsNothing
<1>2. BaseInv /\ WalkInv /\ [ViewsNext]_viewVars => WalkInv'
  BY NextKeepsWalk
<1>3. WalkInv => WalkSkipsNothing
  BY DEF WalkInv
<1> QED
  BY <1>1, <1>2, <1>3, BaseAlways, PTL DEF ViewsSpec
=============================================================================
