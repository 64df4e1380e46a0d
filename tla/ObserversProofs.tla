---------------------------- MODULE ObserversProofs ----------------------------
(***************************************************************************)
(* Theorems about what only listens to the bus: the journal and the        *)
(* monitors.                                                               *)
(*                                                                         *)
(* EventJournal loses no event unnoticed, stores none twice, and its rows  *)
(* follow the order of the appends.  InOnePlace counts the places of one   *)
(* event; PlaceInv says it of the sets of events in each place, which are  *)
(* apart and make up the log, and that a buffer, a batch and the table     *)
(* hold an event at most once.                                             *)
(*                                                                         *)
(* Alerts are a cooldown apart and suppressed only as duplicates, an       *)
(* outage is reported once, and what the collector computes its snapshot   *)
(* from is sound.  What is behind the alerts is the order of three         *)
(* moments: the alerts issued, the cooldown taken last, and now (Spaced).  *)
(* Behind the collector it is that the one loop there is belongs to _task, *)
(* and that its samples are an interval apart.                             *)
(***************************************************************************)
EXTENDS EventJournal, Monitoring, FiniteSetTheorems, TLAPS

-----------------------------------------------------------------------------
(* The journal.                                                            *)

Buffered == EventsOf(Elements(buffer))
Written  == UNION {EventsOf(Elements(b)) : b \in writes}
Stored   == EventsOf(table)

OneEventEach(s) == \A i, j \in DOMAIN s : s[i].event = s[j].event => i = j

AreSequences == buffer \in Seq(Elements(buffer)) /\ log \in Seq(Elements(log))
Singly ==
  /\ OneEventEach(buffer)
  /\ \A b \in writes : OneEventEach(b)
  /\ \A b, c \in writes : b # c => EventsOf(Elements(b)) \cap EventsOf(Elements(c)) = {}
  /\ \A q, r \in table : q.event = r.event => q = r
Apart ==
  /\ Buffered \cap (Written \cup Stored \cup failed \cup dropped) = {}
  /\ Written \cap (Stored \cup failed \cup dropped) = {}
  /\ Stored \cap (failed \cup dropped) = {}
  /\ failed \cap dropped = {}
Complete == Elements(log) = Buffered \cup Written \cup Stored \cup failed \cup dropped
PlaceInv == AreSequences /\ Singly /\ Apart /\ Complete

-----------------------------------------------------------------------------
LEMMA AppendAdds ==
  ASSUME NEW s, s \in Seq(Elements(s)), NEW x
  PROVE  LET t == Append(s, x)
         IN /\ t \in Seq(Elements(t))
            /\ Elements(t) = Elements(s) \cup {x}
            /\ \A i \in DOMAIN t : (i \in DOMAIN s /\ t[i] = s[i]) \/ (i = Len(s) + 1 /\ t[i] = x)
<1> DEFINE S == Elements(s) \cup {x}
           t == Append(s, x)
<1>1. s \in Seq(S)
  OBVIOUS
<1>2. /\ t \in Seq(S) /\ Len(t) = Len(s) + 1
      /\ t[Len(s) + 1] = x
      /\ \A i \in 1..Len(s) : t[i] = s[i]
  BY <1>1
<1>3. DOMAIN t = 1..(Len(s) + 1) /\ DOMAIN s = 1..Len(s) /\ Len(s) \in Nat
  BY <1>1, <1>2
<1> HIDE DEF t
<1>4. Elements(t) = S
  BY <1>2, <1>3 DEF Elements
<1>5. /\ t \in Seq(Elements(t)) /\ Elements(t) = Elements(s) \cup {x}
      /\ \A i \in DOMAIN t : (i \in DOMAIN s /\ t[i] = s[i]) \/ (i = Len(s) + 1 /\ t[i] = x)
  BY <1>2, <1>3, <1>4
<1> QED
  BY <1>5 DEF t

LEMMA EmptyHolds ==
  /\ <<>> \in Seq(Elements(<<>>)) /\ Elements(<<>>) = {} /\ EventsOf({}) = {}
  /\ OneEventEach(<<>>)
BY DEF Elements, EventsOf, OneEventEach

LEMMA RowsOfUnion ==
  ASSUME NEW q, NEW r
  PROVE  EventsOf(q \cup r) = EventsOf(q) \cup EventsOf(r)
BY DEF EventsOf

(* Handing a batch apart from the others to a thread.                      *)
LEMMA HandOver ==
  ASSUME Singly, NEW b, OneEventEach(b),
         EventsOf(Elements(b)) \cap Written = {}, writes' = writes \cup {b}
  PROVE  /\ Written' = Written \cup EventsOf(Elements(b))
         /\ \A c \in writes' : OneEventEach(c)
         /\ \A c, d \in writes' : c # d => EventsOf(Elements(c)) \cap EventsOf(Elements(d)) = {}
<1>1. Written' = Written \cup EventsOf(Elements(b))
  BY DEF Written
<1>2. \A c \in writes : EventsOf(Elements(c)) \subseteq Written
  BY DEF Written
<1>3. \A c \in writes' : OneEventEach(c)
  BY DEF Singly
<1>4. \A c, d \in writes' : c # d => EventsOf(Elements(c)) \cap EventsOf(Elements(d)) = {}
  BY <1>2 DEF Singly
<1> QED
  BY <1>1, <1>3, <1>4

(* A thread that is done, or was never begun, takes its batch's events     *)
(* away, and nobody else's.                                                *)
LEMMA TakeAway ==
  ASSUME Singly, NEW b \in writes, writes' = writes \ {b}
  PROVE  /\ Written = Written' \cup EventsOf(Elements(b))
         /\ Written' \cap EventsOf(Elements(b)) = {}
         /\ \A c \in writes' : OneEventEach(c)
         /\ \A c, d \in writes' : c # d => EventsOf(Elements(c)) \cap EventsOf(Elements(d)) = {}
<1>1. Written = Written' \cup EventsOf(Elements(b))
  BY DEF Written
<1>2. Written' \cap EventsOf(Elements(b)) = {}
  BY DEF Written, Singly
<1>3. \A c \in writes' : OneEventEach(c)
  BY DEF Singly
<1>4. \A c, d \in writes' : c # d => EventsOf(Elements(c)) \cap EventsOf(Elements(d)) = {}
  BY DEF Singly
<1> QED
  BY <1>1, <1>2, <1>3, <1>4

(* The rows of a batch or buffer join the table.                           *)
LEMMA RowsJoin ==
  ASSUME Singly, NEW b, OneEventEach(b), EventsOf(Elements(b)) \cap Stored = {},
         table' = table \cup Elements(b)
  PROVE  /\ Stored' = Stored \cup EventsOf(Elements(b))
         /\ \A q, r \in table' : q.event = r.event => q = r
<1>1. Stored' = Stored \cup EventsOf(Elements(b))
  BY DEF Stored, EventsOf
<1>2. \A q, r \in Elements(b) : q.event = r.event => q = r
  BY DEF Elements, OneEventEach
<1>3. \A q \in table, r \in Elements(b) : q.event # r.event
  BY DEF Stored, EventsOf
<1> QED
  BY <1>1, <1>2, <1>3 DEF Singly

-----------------------------------------------------------------------------
LEMMA AppendKeeps ==
  ASSUME PlaceInv, NEW a \in Appenders, NEW e \in Events, AppendEvent(a, e)
  PROVE  PlaceInv'
<1> DEFINE row == [sequence |-> sequence + 1, event |-> e]
           batch == Append(buffer, row)
<1>1. /\ e \notin Elements(log) /\ log' = Append(log, e)
      /\ UNCHANGED <<table, failed, dropped>>
      /\ \/ buffer' = <<>> /\ writes' = writes \cup {batch}
         \/ buffer' = batch /\ UNCHANGED writes
  BY DEF AppendEvent
<1>2. log' \in Seq(Elements(log')) /\ Elements(log') = Elements(log) \cup {e}
  BY <1>1, AppendAdds DEF PlaceInv, AreSequences
<1>3. /\ batch \in Seq(Elements(batch))
      /\ Elements(batch) = Elements(buffer) \cup {row}
      /\ \A i \in DOMAIN batch :
           (i \in DOMAIN buffer /\ batch[i] = buffer[i]) \/ (i = Len(buffer) + 1 /\ batch[i] = row)
  BY AppendAdds DEF PlaceInv, AreSequences
<1> HIDE DEF batch
<1>4. row.event = e
  OBVIOUS
<1> HIDE DEF row
<1>5. EventsOf(Elements(batch)) = Buffered \cup {e}
  BY <1>3, <1>4 DEF EventsOf, Buffered
<1>6. e \notin Buffered \cup Written \cup Stored \cup failed \cup dropped
  BY <1>1 DEF PlaceInv, Complete
<1>7. \A i \in DOMAIN buffer : buffer[i].event # e
  BY <1>6 DEF Buffered, EventsOf, Elements
<1>8. OneEventEach(batch)
  BY <1>3, <1>4, <1>7 DEF OneEventEach, PlaceInv, Singly
<1>9. Stored' = Stored
  BY <1>1 DEF Stored
<1>10. CASE buffer' = <<>> /\ writes' = writes \cup {batch}
  <2>1. EventsOf(Elements(batch)) \cap Written = {}
    BY <1>5, <1>6 DEF PlaceInv, Apart
  <2>2. Singly
    BY DEF PlaceInv
  <2>3. /\ Written' = Written \cup EventsOf(Elements(batch))
        /\ \A c \in writes' : OneEventEach(c)
        /\ \A c, d \in writes' : c # d => EventsOf(Elements(c)) \cap EventsOf(Elements(d)) = {}
    BY <2>1, <2>2, <1>8, <1>10, HandOver
  <2>4. Buffered' = {}
    BY <1>10, EmptyHolds DEF Buffered
  <2>5. AreSequences'
    BY <1>2, <1>10, EmptyHolds DEF AreSequences
  <2>6. Singly'
    BY <1>1, <1>10, <2>2, <2>3, EmptyHolds DEF Singly
  <2>7. Apart'
    BY <1>1, <1>5, <1>6, <1>9, <2>3, <2>4 DEF PlaceInv, Apart
  <2>8. Complete'
    BY <1>1, <1>2, <1>5, <1>9, <2>3, <2>4 DEF PlaceInv, Complete
  <2> QED
    BY <2>5, <2>6, <2>7, <2>8 DEF PlaceInv
<1>11. CASE buffer' = batch /\ UNCHANGED writes
  <2>1. Buffered' = Buffered \cup {e} /\ Written' = Written
    BY <1>5, <1>11 DEF Buffered, Written
  <2>2. AreSequences'
    BY <1>2, <1>3, <1>11 DEF AreSequences
  <2>3. Singly'
    BY <1>1, <1>8, <1>11 DEF PlaceInv, Singly
  <2>4. Apart'
    BY <1>1, <1>6, <1>9, <2>1 DEF PlaceInv, Apart
  <2>5. Complete'
    BY <1>1, <1>2, <1>9, <2>1 DEF PlaceInv, Complete
  <2> QED
    BY <2>2, <2>3, <2>4, <2>5 DEF PlaceInv
<1> QED
  BY <1>1, <1>10, <1>11

(* A batch leaves the threads for the table or for the lost ones.          *)
LEMMA BatchEnds ==
  ASSUME PlaceInv, NEW b \in writes, writes' = writes \ {b}, UNCHANGED <<buffer, log>>,
         \/ table' = table \cup Elements(b) /\ UNCHANGED <<failed, dropped>>
         \/ failed' = failed \cup EventsOf(Elements(b)) /\ UNCHANGED <<table, dropped>>
         \/ dropped' = dropped \cup EventsOf(Elements(b)) /\ UNCHANGED <<table, failed>>
  PROVE  PlaceInv'
<1> DEFINE E == EventsOf(Elements(b))
<1>1. Singly /\ OneEventEach(b)
  BY DEF PlaceInv, Singly
<1>2. /\ Written = Written' \cup E /\ Written' \cap E = {}
      /\ \A c \in writes' : OneEventEach(c)
      /\ \A c, d \in writes' : c # d => EventsOf(Elements(c)) \cap EventsOf(Elements(d)) = {}
  BY <1>1, TakeAway
<1>3. Buffered' = Buffered /\ AreSequences'
  BY DEF Buffered, PlaceInv, AreSequences
<1>4. CASE table' = table \cup Elements(b) /\ UNCHANGED <<failed, dropped>>
  <2>1. E \cap Stored = {}
    BY <1>2 DEF PlaceInv, Apart
  <2>2. Stored' = Stored \cup E /\ \A q, r \in table' : q.event = r.event => q = r
    BY <1>1, <1>4, <2>1, RowsJoin
  <2>3. Singly'
    BY <1>1, <1>2, <2>2 DEF Singly
  <2>4. Apart' /\ Complete'
    BY <1>2, <1>3, <1>4, <2>2 DEF PlaceInv, Apart, Complete
  <2> QED
    BY <1>3, <2>3, <2>4 DEF PlaceInv
<1>5. CASE UNCHANGED table
  <2>1. Stored' = Stored
    BY <1>5 DEF Stored
  <2>2. Singly'
    BY <1>1, <1>2, <1>5 DEF Singly
  <2>3. Apart' /\ Complete'
    <3>1. CASE failed' = failed \cup E /\ UNCHANGED dropped
      BY <1>2, <1>3, <2>1, <3>1 DEF PlaceInv, Apart, Complete
    <3>2. CASE dropped' = dropped \cup E /\ UNCHANGED failed
      BY <1>2, <1>3, <2>1, <3>2 DEF PlaceInv, Apart, Complete
    <3>3. CASE table' = table \cup Elements(b) /\ UNCHANGED <<failed, dropped>>
      BY <1>4, <3>3 DEF PlaceInv
    <3> QED
      BY <3>1, <3>2, <3>3
  <2> QED
    BY <1>3, <2>2, <2>3 DEF PlaceInv
<1> QED
  BY <1>4, <1>5

(* The buffer goes to a thread, or straight to the table.                  *)
LEMMA BufferEmptied ==
  ASSUME PlaceInv, buffer' = <<>>, UNCHANGED <<log, failed, dropped>>,
         \/ writes' = writes \cup {buffer} /\ UNCHANGED table
         \/ table' = table \cup Elements(buffer) /\ UNCHANGED writes
  PROVE  PlaceInv'
<1>1. Singly /\ OneEventEach(buffer)
  BY DEF PlaceInv, Singly
<1>2. Buffered' = {} /\ AreSequences'
  BY EmptyHolds DEF Buffered, PlaceInv, AreSequences
<1>3. CASE writes' = writes \cup {buffer} /\ UNCHANGED table
  <2>1. EventsOf(Elements(buffer)) \cap Written = {} /\ Stored' = Stored
    BY <1>3 DEF PlaceInv, Apart, Buffered, Stored
  <2>2. /\ Written' = Written \cup Buffered
        /\ \A c \in writes' : OneEventEach(c)
        /\ \A c, d \in writes' : c # d => EventsOf(Elements(c)) \cap EventsOf(Elements(d)) = {}
    BY <1>1, <1>3, <2>1, HandOver DEF Buffered
  <2>3. Singly'
    BY <1>1, <1>3, <2>2, EmptyHolds DEF Singly
  <2>4. Apart' /\ Complete'
    BY <1>2, <2>1, <2>2 DEF PlaceInv, Apart, Complete
  <2> QED
    BY <1>2, <2>3, <2>4 DEF PlaceInv
<1>4. CASE table' = table \cup Elements(buffer) /\ UNCHANGED writes
  <2>1. EventsOf(Elements(buffer)) \cap Stored = {} /\ Written' = Written
    BY <1>4 DEF PlaceInv, Apart, Buffered, Written
  <2>2. /\ Stored' = Stored \cup Buffered
        /\ \A q, r \in table' : q.event = r.event => q = r
    BY <1>1, <1>4, <2>1, RowsJoin DEF Buffered
  <2>3. Singly'
    BY <1>1, <1>4, <2>2, EmptyHolds DEF Singly
  <2>4. Apart' /\ Complete'
    BY <1>2, <2>1, <2>2 DEF PlaceInv, Apart, Complete
  <2> QED
    BY <1>2, <2>3, <2>4 DEF PlaceInv
<1> QED
  BY <1>3, <1>4

LEMMA RestartKeeps == ASSUME PlaceInv, Restart PROVE PlaceInv'
<1>1. /\ dropped' = dropped \cup Buffered \cup Written
      /\ buffer' = <<>> /\ writes' = {} /\ UNCHANGED <<log, table, failed>>
  BY DEF Restart, Buffered, Written
<1>2. Buffered' = {} /\ Written' = {} /\ Stored' = Stored /\ AreSequences'
  BY <1>1, EmptyHolds DEF Buffered, Written, Stored, PlaceInv, AreSequences
<1>3. Singly'
  BY <1>1, EmptyHolds DEF PlaceInv, Singly
<1>4. Apart' /\ Complete'
  BY <1>1, <1>2 DEF PlaceInv, Apart, Complete
<1> QED
  BY <1>2, <1>3, <1>4 DEF PlaceInv

LEMMA Elsewhere ==
  ASSUME PlaceInv, UNCHANGED <<buffer, log, table, writes, failed, dropped>>
  PROVE  PlaceInv'
BY DEF PlaceInv, AreSequences, Singly, Apart, Complete, Buffered, Written, Stored

(* A step of a reader's thread: it touches no event.                       *)
Ensure(r) ==
  EnsureCheck(r) \/ EnsureQuery(r) \/ EnsureFails(r) \/ EnsureAssign(r) \/ EnsureDone(r)

LEMMA EnsureLeaves ==
  ASSUME NEW r \in Readers, Ensure(r)
  PROVE  UNCHANGED <<buffer, log, unread, table, writes, failed, dropped>>
BY DEF Ensure, EnsureCheck, EnsureQuery, EnsureFails, EnsureAssign, EnsureDone, appendVars

LEMMA StepKeeps == PlaceInv /\ [Next]_vars => PlaceInv'
<1> SUFFICES ASSUME PlaceInv, [Next]_vars PROVE PlaceInv'
  OBVIOUS
<1>1. ASSUME NEW a \in Appenders, NEW e \in Events, AppendEvent(a, e) PROVE PlaceInv'
  BY <1>1, AppendKeeps
<1>2. ASSUME NEW a \in Appenders, AppendEnds(a) PROVE PlaceInv'
  BY <1>2, Elsewhere DEF AppendEnds, appendVars
<1>3. ASSUME NEW a \in Appenders, AppendCancelled(a) PROVE PlaceInv'
  <2>1. UNCHANGED <<buffer, log, table, failed>>
    BY <1>3 DEF AppendCancelled, appendVars
  <2>2. CASE UNCHANGED <<writes, dropped>>
    BY <2>1, <2>2, Elsewhere
  <2>3. CASE /\ waiting[a] \in writes
             /\ writes' = writes \ {waiting[a]}
             /\ dropped' = dropped \cup EventsOf(Elements(waiting[a]))
    BY <2>1, <2>3, BatchEnds
  <2> QED
    BY <1>3, <2>2, <2>3 DEF AppendCancelled
<1>4. ASSUME NEW b \in writes, Commit(b) \/ WriteFails(b) PROVE PlaceInv'
  BY <1>4, BatchEnds DEF Commit, WriteFails, appendVars
<1>5. CASE Flush \/ Close
  BY <1>5, BufferEmptied DEF Flush, Close
<1>6. ASSUME NEW r \in Readers, Ensure(r) PROVE PlaceInv'
  BY <1>6, Elsewhere, EnsureLeaves
<1>7. CASE Restart
  BY <1>7, RestartKeeps
<1>8. CASE UNCHANGED vars
  BY <1>8, Elsewhere DEF vars, appendVars
<1> QED
  BY <1>1, <1>2, <1>3, <1>4, <1>5, <1>6, <1>7, <1>8 DEF Next, Ensure

-----------------------------------------------------------------------------
(* What is apart is in one place, counted.                                 *)
LEMMA OnePlace == PlaceInv => InOnePlace
<1> SUFFICES ASSUME PlaceInv, NEW e \in Elements(log) PROVE \E x : PlacesOf(e) = {x}
  BY FS_Singleton DEF InOnePlace
<1> DEFINE InBuffer == {<<"buffer", i>> : i \in {j \in DOMAIN buffer : buffer[j].event = e}}
           InWrites == {<<"write", b>> : b \in {c \in writes : e \in EventsOf(Elements(c))}}
           InTable  == {<<"row", r>> : r \in {q \in table : q.event = e}}
           Lost     == IF e \in failed THEN {<<"failed", e>>} ELSE {}
           Gone     == IF e \in dropped THEN {<<"dropped", e>>} ELSE {}
<1>1. e \in Buffered => \E x : InBuffer = {x}
  <2>1. SUFFICES ASSUME e \in Buffered PROVE \E x : InBuffer = {x}
    OBVIOUS
  <2>2. PICK i \in DOMAIN buffer : buffer[i].event = e
    BY <2>1 DEF Buffered, EventsOf, Elements
  <2>3. {j \in DOMAIN buffer : buffer[j].event = e} = {i}
    BY <2>2 DEF PlaceInv, Singly, OneEventEach
  <2>4. InBuffer = {<<"buffer", i>>}
    BY <2>3
  <2> QED
    BY <2>4
<1>2. e \notin Buffered => InBuffer = {}
  BY DEF Buffered, EventsOf, Elements
<1>3. e \in Written => \E x : InWrites = {x}
  <2>1. SUFFICES ASSUME e \in Written PROVE \E x : InWrites = {x}
    OBVIOUS
  <2>2. PICK b \in writes : e \in EventsOf(Elements(b))
    BY <2>1 DEF Written
  <2>3. {c \in writes : e \in EventsOf(Elements(c))} = {b}
    BY <2>2 DEF PlaceInv, Singly
  <2>4. InWrites = {<<"write", b>>}
    BY <2>3
  <2> QED
    BY <2>4
<1>4. e \notin Written => InWrites = {}
  BY DEF Written
<1>5. e \in Stored => \E x : InTable = {x}
  <2>1. SUFFICES ASSUME e \in Stored PROVE \E x : InTable = {x}
    OBVIOUS
  <2>2. PICK r \in table : r.event = e
    BY <2>1 DEF Stored, EventsOf
  <2>3. {q \in table : q.event = e} = {r}
    BY <2>2 DEF PlaceInv, Singly
  <2>4. InTable = {<<"row", r>>}
    BY <2>3
  <2> QED
    BY <2>4
<1>6. e \notin Stored => InTable = {}
  BY DEF Stored, EventsOf
<1>7. PlacesOf(e) = InBuffer \cup InWrites \cup InTable \cup Lost \cup Gone
  BY DEF PlacesOf
<1> HIDE DEF InBuffer, InWrites, InTable
<1>8. e \in Buffered \cup Written \cup Stored \cup failed \cup dropped
  BY DEF PlaceInv, Complete
<1>9. CASE e \in Buffered
  BY <1>1, <1>4, <1>6, <1>7, <1>9 DEF PlaceInv, Apart
<1>10. CASE e \in Written
  BY <1>2, <1>3, <1>6, <1>7, <1>10 DEF PlaceInv, Apart
<1>11. CASE e \in Stored
  BY <1>2, <1>4, <1>5, <1>7, <1>11 DEF PlaceInv, Apart
<1>12. CASE e \in failed
  BY <1>2, <1>4, <1>6, <1>7, <1>12 DEF PlaceInv, Apart
<1>13. CASE e \in dropped
  BY <1>2, <1>4, <1>6, <1>7, <1>13 DEF PlaceInv, Apart
<1> QED
  BY <1>8, <1>9, <1>10, <1>11, <1>12, <1>13

(* Every event appended stays in exactly one place, for any number of      *)
(* tasks and events, any batch size, and whatever fails, is cancelled or   *)
(* ends with the process: none is lost unnoticed, none is stored twice.    *)
THEOREM StoredOnce == Spec => []InOnePlace
<1>1. Init => PlaceInv
  BY EmptyHolds DEF Init, PlaceInv, AreSequences, Singly, Apart, Complete, Buffered,
                    Written, Stored
<1> QED
  BY <1>1, StepKeeps, OnePlace, PTL DEF Spec

-----------------------------------------------------------------------------
(* The order of replay.  As long as every process has read the table       *)
(* before it appended, and has no reader left that may still assign, the   *)
(* counter is at or above every sequence given, so that rows wherever they *)
(* are follow the log.                                                     *)

Rows == table \cup Elements(buffer) \cup UNION {Elements(b) : b \in writes}

HasLast(rows) == rows = {} \/ \E m \in rows : \A r \in rows : r.sequence <= m.sequence

InOrder(rows) ==
  \A r1, r2 \in rows : \A i, j \in DOMAIN log :
    log[i] = r1.event /\ log[j] = r2.event /\ i < j => r1.sequence < r2.sequence

(* Where a reader is, and what it found; whether any reader has assigned.  *)
ReadTypes ==
  /\ reader \in [Readers -> {"idle", "checked", "queried", "assigned"}]
  /\ lastSeen \in [Readers -> Nat]
Numbered == initialized \/ \E r \in Readers : reader[r] = "assigned"

OrderInv ==
  /\ sequence \in Nat /\ ReadTypes
  /\ \A r \in Rows : r.sequence \in Nat
  /\ Numbered => \A r \in Rows : r.sequence <= sequence
  /\ InOrder(Rows)
  /\ HasLast(table) /\ HasLast(Elements(buffer))
  /\ \A b \in writes : HasLast(Elements(b))
  /\ ~initialized \/ Reading => buffer = <<>> /\ writes = {}
  /\ \A r \in Readers : reader[r] = "queried" => lastSeen[r] = LastRow

JournalInv == PlaceInv /\ (unread \/ OrderInv)

LEMMA LastOfTwo ==
  ASSUME NEW q, NEW r, HasLast(q), HasLast(r),
         \A x \in q \cup r : x.sequence \in Nat
  PROVE  HasLast(q \cup r)
<1>1. CASE q = {} \/ r = {}
  BY <1>1 DEF HasLast
<1>2. CASE q # {} /\ r # {}
  <2>1. PICK m \in q : \A x \in q : x.sequence <= m.sequence
    BY <1>2 DEF HasLast
  <2>2. PICK n \in r : \A x \in r : x.sequence <= n.sequence
    BY <1>2 DEF HasLast
  <2>3. CASE m.sequence <= n.sequence
    <3>1. \A x \in q \cup r : x.sequence <= n.sequence
      BY <2>1, <2>2, <2>3
    <3> QED
      BY <3>1 DEF HasLast
  <2>4. CASE n.sequence <= m.sequence
    <3>1. \A x \in q \cup r : x.sequence <= m.sequence
      BY <2>1, <2>2, <2>4
    <3> QED
      BY <3>1 DEF HasLast
  <2> QED
    BY <2>1, <2>2, <2>3, <2>4
<1> QED
  BY <1>1, <1>2

(* What _ensure_sequence finds is at or above every row of the table.      *)
LEMMA LastRowIsLast ==
  ASSUME HasLast(table), \A r \in table : r.sequence \in Nat
  PROVE  LastRow \in Nat /\ \A r \in table : r.sequence <= LastRow
<1>1. CASE table = {}
  BY <1>1 DEF LastRow
<1>2. CASE table # {}
  <2> DEFINE S == {r.sequence : r \in table}
  <2>1. S \subseteq Nat /\ \E m \in S : \A x \in S : m >= x
    BY <1>2 DEF HasLast
  <2>2. Max(S) \in S /\ \A x \in S : Max(S) >= x
    BY <2>1 DEF Max
  <2>3. LastRow = Max(S)
    BY <1>2 DEF LastRow
  <2> HIDE DEF S
  <2>4. LastRow \in Nat /\ \A x \in S : x <= LastRow
    BY <2>1, <2>2, <2>3
  <2> QED
    BY <2>4 DEF S
<1> QED
  BY <1>1, <1>2

LEMMA AppendOrdered ==
  ASSUME PlaceInv, OrderInv, ~unread', NEW a \in Appenders, NEW e \in Events,
         AppendEvent(a, e)
  PROVE  OrderInv'
<1> DEFINE row == [sequence |-> sequence + 1, event |-> e]
           batch == Append(buffer, row)
<1>1. /\ e \notin Elements(log) /\ log' = Append(log, e)
      /\ sequence' = sequence + 1 /\ initialized /\ ~Reading
      /\ UNCHANGED <<table, initialized, readVars>>
      /\ \/ buffer' = <<>> /\ writes' = writes \cup {batch}
         \/ buffer' = batch /\ UNCHANGED writes
  BY DEF AppendEvent
<1>2. \A i \in DOMAIN log' : (i \in DOMAIN log /\ log'[i] = log[i]) \/ (i = Len(log) + 1 /\ log'[i] = e)
  BY <1>1, AppendAdds DEF PlaceInv, AreSequences
<1>3. Elements(batch) = Elements(buffer) \cup {row}
  BY AppendAdds DEF PlaceInv, AreSequences
<1> HIDE DEF batch
<1>4. row.event = e /\ row.sequence = sequence + 1
  OBVIOUS
<1> HIDE DEF row
<1>5. Rows' = Rows \cup {row}
  BY <1>1, <1>3, EmptyHolds DEF Rows
<1>6. \A r \in Rows : r.event \in Elements(log)
  BY DEF Rows, PlaceInv, Complete, Buffered, Written, Stored, EventsOf
<1>7. \A r \in Rows : r.sequence \in Nat /\ r.sequence < row.sequence
  BY <1>1, <1>4 DEF OrderInv, Numbered
<1>8. \A i \in DOMAIN log' : i \in Nat /\ i <= Len(log) + 1
  <2>1. DOMAIN log = 1..Len(log) /\ Len(log) \in Nat
    BY DEF PlaceInv, AreSequences
  <2> QED
    BY <1>2, <2>1
<1>9. InOrder(Rows)'
  <2> SUFFICES ASSUME NEW r1 \in Rows', NEW r2 \in Rows', NEW i \in DOMAIN log', NEW j \in DOMAIN log',
                      log'[i] = r1.event, log'[j] = r2.event, i < j
               PROVE  r1.sequence < r2.sequence
    BY DEF InOrder
  <2>1. i \in DOMAIN log /\ log[i] = r1.event
    BY <1>2, <1>8
  <2>2. r1 \in Rows
    BY <1>1, <1>4, <1>5, <2>1 DEF Elements
  <2>3. CASE r2 = row
    BY <1>7, <2>2, <2>3
  <2>4. CASE r2 \in Rows
    <3>1. j \in DOMAIN log /\ log[j] = r2.event
      BY <1>1, <1>2, <1>6, <2>4
    <3> QED
      BY <2>1, <2>2, <2>4, <3>1 DEF OrderInv, InOrder
  <2> QED
    BY <1>5, <2>3, <2>4
<1>10. HasLast(Elements(batch))
  <2>1. \A r \in Elements(buffer) \cup {row} : r.sequence <= row.sequence
    BY <1>4, <1>7 DEF OrderInv, Rows
  <2> QED
    BY <1>3, <2>1 DEF HasLast
<1>11. HasLast(table') /\ HasLast(Elements(buffer')) /\ \A b \in writes' : HasLast(Elements(b))
  BY <1>1, <1>10, EmptyHolds DEF OrderInv, HasLast
<1>12. sequence' \in Nat /\ \A r \in Rows' : r.sequence \in Nat /\ r.sequence <= sequence'
  BY <1>1, <1>4, <1>5, <1>7 DEF OrderInv
<1>13. initialized' /\ ~Reading' /\ ReadTypes' /\ \A r \in Readers : reader'[r] # "queried"
  BY <1>1 DEF OrderInv, ReadTypes, Reading, readVars
<1> QED
  BY <1>1, <1>9, <1>11, <1>12, <1>13 DEF OrderInv

(* A step that appends nothing: rows move or are lost, and the table gets  *)
(* whole batches.                                                          *)
LEMMA RowsMove ==
  ASSUME OrderInv, UNCHANGED <<sequence, initialized, readVars, log>>,
         (initialized /\ ~Reading) \/ UNCHANGED table,
         Rows' \subseteq Rows,
         HasLast(table'), buffer' = buffer \/ buffer' = <<>>,
         writes' \subseteq writes \cup {buffer},
         buffer = <<>> => writes' \subseteq writes
  PROVE  OrderInv'
<1>1. HasLast(Elements(buffer')) /\ \A b \in writes' : HasLast(Elements(b))
  BY EmptyHolds DEF OrderInv, HasLast
<1>2. InOrder(Rows)'
  BY DEF OrderInv, InOrder
<1>3. /\ \A r \in Rows' : r.sequence \in Nat
      /\ Numbered' => \A r \in Rows' : r.sequence <= sequence'
  BY DEF OrderInv, Numbered, readVars
<1>4. Reading' = Reading /\ (~initialized' \/ Reading' => buffer' = <<>> /\ writes' = {})
  BY DEF OrderInv, Reading, readVars
<1>5. \A r \in Readers : reader'[r] = "queried" => lastSeen'[r] = LastRow'
  BY DEF OrderInv, LastRow, Reading, readVars
<1>6. sequence' \in Nat /\ ReadTypes'
  BY DEF OrderInv, ReadTypes, readVars
<1> QED
  BY <1>1, <1>2, <1>3, <1>4, <1>5, <1>6 DEF OrderInv

(* A reader's thread goes on. Only one that found the flag unset assigns,  *)
(* and until it has, nothing is appended beside it.                        *)
LEMMA EnsureOrdered ==
  ASSUME OrderInv, NEW r \in Readers, Ensure(r)
  PROVE  OrderInv'
<1>1. UNCHANGED <<buffer, log, table, writes>> /\ Rows' = Rows /\ LastRow' = LastRow
  BY EnsureLeaves DEF Rows, LastRow
<1>2. InOrder(Rows)' /\ \A q \in Rows' : q.sequence \in Nat
  BY <1>1 DEF OrderInv, InOrder
<1>3. ASSUME ReadTypes', UNCHANGED sequence,
             Numbered' => Numbered,
             ~initialized' \/ Reading' => ~initialized \/ Reading,
             \A q \in Readers : reader'[q] = "queried" =>
               lastSeen'[q] = LastRow \/ (reader[q] = "queried" /\ lastSeen'[q] = lastSeen[q])
      PROVE  OrderInv'
  BY <1>1, <1>2, <1>3 DEF OrderInv
<1>4. ReadTypes
  BY DEF OrderInv
<1>5. CASE EnsureCheck(r) \/ EnsureFails(r)
  <2>1. PICK place \in {"idle", "checked"} : reader' = [reader EXCEPT ![r] = place]
    BY <1>5 DEF EnsureCheck, EnsureFails
  <2>2. /\ UNCHANGED <<sequence, lastSeen, initialized>>
        /\ ~initialized \/ Reading
    BY <1>5 DEF EnsureCheck, EnsureFails, appendVars, Reading
  <2>3. ReadTypes' /\ \A q \in Readers : q # r => reader'[q] = reader[q]
    BY <1>4, <2>1, <2>2 DEF ReadTypes
  <2>4. reader'[r] = place
    BY <1>4, <2>1 DEF ReadTypes
  <2>5. Numbered' => Numbered
    BY <2>2, <2>3, <2>4 DEF Numbered
  <2>6. \A q \in Readers : reader'[q] = "queried" =>
          reader[q] = "queried" /\ lastSeen'[q] = lastSeen[q]
    BY <2>2, <2>3, <2>4
  <2> QED
    BY <1>3, <2>2, <2>3, <2>5, <2>6
<1>6. CASE EnsureQuery(r)
  <2>1. /\ reader' = [reader EXCEPT ![r] = "queried"] /\ reader[r] = "checked"
        /\ lastSeen' = [lastSeen EXCEPT ![r] = LastRow]
        /\ UNCHANGED <<sequence, initialized>>
    BY <1>6 DEF EnsureQuery, appendVars
  <2>2. LastRow \in Nat
    BY LastRowIsLast DEF OrderInv, Rows
  <2>3. ReadTypes' /\ \A q \in Readers : q # r => reader'[q] = reader[q] /\ lastSeen'[q] = lastSeen[q]
    BY <1>4, <2>1, <2>2 DEF ReadTypes
  <2>4. reader'[r] = "queried" /\ lastSeen'[r] = LastRow
    BY <1>4, <2>1 DEF ReadTypes
  <2>5. Numbered' => Numbered
    BY <2>1, <2>3, <2>4 DEF Numbered
  <2>6. Reading
    BY <2>1 DEF Reading
  <2> QED
    BY <1>3, <2>1, <2>3, <2>4, <2>5, <2>6
<1>7. CASE EnsureAssign(r)
  <2>1. /\ reader[r] = "queried" /\ reader' = [reader EXCEPT ![r] = "assigned"]
        /\ sequence' = IF lastSeen[r] > 0 THEN lastSeen[r] ELSE sequence
        /\ lastSeen' = [lastSeen EXCEPT ![r] = 0] /\ UNCHANGED initialized
    BY <1>7 DEF EnsureAssign
  <2>2. buffer = <<>> /\ writes = {} /\ lastSeen[r] = LastRow
    BY <2>1 DEF OrderInv, Reading
  <2>3. Rows = table
    BY <2>2, EmptyHolds DEF Rows
  <2>4. LastRow \in Nat /\ \A q \in table : q.sequence <= LastRow
    BY <2>3, LastRowIsLast DEF OrderInv
  <2>5. sequence' \in Nat /\ \A q \in Rows' : q.sequence <= sequence'
    BY <1>1, <1>2, <2>1, <2>2, <2>3, <2>4 DEF OrderInv
  <2>6. ReadTypes' /\ \A q \in Readers : q # r => reader'[q] = reader[q] /\ lastSeen'[q] = lastSeen[q]
    BY <1>4, <2>1 DEF ReadTypes
  <2>7. reader'[r] = "assigned"
    BY <1>4, <2>1 DEF ReadTypes
  <2>8. \A q \in Readers : reader'[q] = "queried" => lastSeen'[q] = LastRow'
    BY <1>1, <2>6, <2>7 DEF OrderInv
  <2> QED
    BY <1>1, <1>2, <2>2, <2>5, <2>6, <2>8 DEF OrderInv
<1>8. CASE EnsureDone(r)
  <2>1. /\ reader[r] = "assigned" /\ reader' = [reader EXCEPT ![r] = "idle"]
        /\ initialized' /\ UNCHANGED <<sequence, lastSeen>>
    BY <1>8 DEF EnsureDone, appendVars
  <2>2. ReadTypes' /\ \A q \in Readers : q # r => reader'[q] = reader[q]
    BY <1>4, <2>1 DEF ReadTypes
  <2>3. reader'[r] = "idle"
    BY <1>4, <2>1 DEF ReadTypes
  <2>4. Numbered /\ (Reading' => Reading)
    BY <2>1, <2>2, <2>3 DEF Numbered, Reading
  <2>5. \A q \in Readers : reader'[q] = "queried" =>
          reader[q] = "queried" /\ lastSeen'[q] = lastSeen[q]
    BY <2>1, <2>2, <2>3
  <2> QED
    BY <1>3, <2>1, <2>2, <2>4, <2>5
<1> QED
  BY <1>5, <1>6, <1>7, <1>8 DEF Ensure

LEMMA OrderKept == JournalInv /\ [Next]_vars => JournalInv'
<1> SUFFICES ASSUME JournalInv, [Next]_vars, ~unread' PROVE OrderInv'
  BY StepKeeps DEF JournalInv
<1>1. PlaceInv /\ (~unread => OrderInv)
  BY DEF JournalInv
<1>2. ~unread
  BY EnsureLeaves DEF Next, Ensure, AppendEvent, AppendEnds, AppendCancelled, Commit,
         WriteFails, Flush, Close, Restart, vars, appendVars
<1> USE <1>1, <1>2
<1>3. ASSUME NEW a \in Appenders, NEW e \in Events, AppendEvent(a, e) PROVE OrderInv'
  BY <1>3, AppendOrdered
<1>4. ASSUME NEW a \in Appenders, AppendEnds(a) \/ AppendCancelled(a) PROVE OrderInv'
  <2>1. /\ UNCHANGED <<sequence, initialized, readVars, log, table, buffer>>
        /\ writes' \subseteq writes
    BY <1>4 DEF AppendEnds, AppendCancelled, appendVars
  <2>2. Rows' \subseteq Rows
    BY <2>1 DEF Rows
  <2> QED
    BY <2>1, <2>2, RowsMove DEF OrderInv
<1>5. ASSUME NEW b \in writes, Commit(b) \/ WriteFails(b) PROVE OrderInv'
  <2>1. /\ UNCHANGED <<sequence, initialized, readVars, log, buffer>>
        /\ writes' \subseteq writes /\ initialized /\ ~Reading
        /\ table' = table \/ table' = table \cup Elements(b)
    BY <1>5 DEF Commit, WriteFails, appendVars, OrderInv
  <2>2. Rows' \subseteq Rows
    BY <2>1 DEF Rows
  <2>3. HasLast(table')
    BY <2>1, LastOfTwo DEF OrderInv, Rows
  <2> QED
    BY <2>1, <2>2, <2>3, RowsMove
<1>6. CASE Flush \/ Close
  <2>1. /\ UNCHANGED <<sequence, initialized, readVars, log>> /\ buffer' = <<>>
        /\ writes' \subseteq writes \cup {buffer} /\ initialized /\ ~Reading
        /\ buffer # <<>>
        /\ table' = table \/ table' = table \cup Elements(buffer)
    BY <1>6 DEF Flush, Close, OrderInv
  <2>2. Rows' \subseteq Rows
    BY <2>1, EmptyHolds DEF Rows
  <2>3. HasLast(table')
    BY <2>1, LastOfTwo DEF OrderInv, Rows
  <2> QED
    BY <2>1, <2>2, <2>3, RowsMove
<1>7. ASSUME NEW r \in Readers, Ensure(r) PROVE OrderInv'
  BY <1>7, EnsureOrdered
<1>8. CASE Restart
  <2>1. /\ sequence' = 0 /\ ~initialized' /\ buffer' = <<>> /\ writes' = {}
        /\ UNCHANGED <<log, table>>
        /\ reader' = [r \in Readers |-> "idle"] /\ lastSeen' = [r \in Readers |-> 0]
    BY <1>8 DEF Restart
  <2>2. Rows' = table
    BY <2>1, EmptyHolds DEF Rows
  <2>3. InOrder(Rows)' /\ \A r \in Rows' : r.sequence \in Nat
    BY <2>1, <2>2 DEF OrderInv, InOrder, Rows
  <2>4. ReadTypes' /\ ~Numbered' /\ \A r \in Readers : reader'[r] = "idle"
    BY <2>1 DEF ReadTypes, Numbered
  <2> QED
    BY <2>1, <2>3, <2>4, EmptyHolds DEF OrderInv, HasLast
<1>9. CASE UNCHANGED vars
  <2>1. /\ UNCHANGED <<sequence, initialized, readVars, log, table, buffer, writes>>
        /\ Rows' = Rows
    BY <1>9 DEF vars, appendVars, Rows
  <2> QED
    BY <2>1, RowsMove DEF OrderInv
<1> QED
  BY <1>3, <1>4, <1>5, <1>6, <1>7, <1>8, <1>9 DEF Next, Ensure

(* replay() returns events in the order they were appended in, however     *)
(* many threads commit in whatever order, whatever is lost and however     *)
(* often the process is restarted, provided every process reads the table  *)
(* before its first append, and no reader is still to assign what it found *)
(* when one appends.                                                       *)
THEOREM ReplayKeepsOrder == Spec => []ReplayInAppendOrder
<1>1. Init => PlaceInv
  BY EmptyHolds DEF Init, PlaceInv, AreSequences, Singly, Apart, Complete, Buffered,
                    Written, Stored
<1>2. ASSUME Init PROVE OrderInv
  <2>1. Rows = {} /\ sequence = 0 /\ buffer = <<>> /\ writes = {} /\ table = {}
    BY <1>2, EmptyHolds DEF Init, Rows
  <2>2. ReadTypes /\ \A r \in Readers : reader[r] = "idle"
    BY <1>2 DEF Init, ReadTypes
  <2> QED
    BY <2>1, <2>2, EmptyHolds DEF OrderInv, InOrder, HasLast
<1>3. JournalInv => ReplayInAppendOrder
  BY DEF JournalInv, OrderInv, InOrder, Rows, ReplayInAppendOrder
<1> QED
  BY <1>1, <1>2, <1>3, OrderKept, PTL DEF JournalInv, Spec

-----------------------------------------------------------------------------
(* The monitors.                                                           *)

Late == "heartbeat_missed"

AlertTypes ==
  /\ time \in Nat /\ time > 0
  /\ lastAlertTime \in [AllTypes -> Nat]
  /\ issued \in [AllTypes -> Seq(Nat)]
  /\ reports \in Nat
  /\ alertedMiss \in BOOLEAN /\ muffled \in BOOLEAN /\ late \in BOOLEAN

(* Alerts of a type are issued when its cooldown is taken; only the last   *)
(* of the loop may have waited beyond it, and while one waits everything   *)
(* but the last is a cooldown older than the cooldown it has taken.        *)
Spaced(type) ==
  LET alerts == issued[type]
      taken == lastAlertTime[type]
  IN /\ taken <= time
     /\ \A i \in 1..Len(alerts) : alerts[i] <= time
     /\ \A i \in 1..Len(alerts) - 1 : alerts[i] <= taken
     /\ (type = Late => ~late \/ check = "publishing") =>
          \A i \in 1..Len(alerts) : alerts[i] <= taken
     /\ type = Late /\ check = "publishing" =>
          \A i \in 1..Len(alerts) - 1 : alerts[i] + Cooldown <= taken
     /\ \A i \in 3..Len(alerts) : alerts[i] - alerts[i - 2] >= Cooldown
     /\ (type = Late => ~late) =>
          \A i \in 2..Len(alerts) : alerts[i] - alerts[i - 1] >= Cooldown

(* A cooldown that was taken for an alert that got out began before it.    *)
Answered(type) ==
  type \notin lost =>
    lastAlertTime[type] = 0 \/ (issued[type] # <<>>
                                /\ issued[type][Len(issued[type])] >= lastAlertTime[type])

Reported ==
  /\ check = "publishing" => late
  /\ ~late => /\ reports <= 1
              /\ reports = 1 => alertedMiss
              /\ alertedMiss /\ ~muffled => reports = 1

AlertInv ==
  /\ AlertTypes
  /\ \A type \in AllTypes : Spaced(type) /\ Answered(type)
  /\ Reported

LEMMA AlertsStart == AlertInit => AlertInv
<1> SUFFICES ASSUME AlertInit PROVE AlertInv
  OBVIOUS
<1>1. AlertTypes /\ Reported
  <2>1. /\ time = StartTime /\ reports = 0 /\ check = "off"
        /\ ~alertedMiss /\ alertedMiss \in BOOLEAN
        /\ muffled \in BOOLEAN /\ late \in BOOLEAN
    BY DEF AlertInit
  <2>3. lastAlertTime \in [AllTypes -> Nat] /\ issued \in [AllTypes -> Seq(Nat)]
    BY DEF AlertInit
  <2>2. time \in Nat /\ time > 0 /\ reports \in Nat /\ reports <= 1 /\ reports # 1
    BY <2>1, AlertAssumption
  <2> QED
    BY <2>1, <2>2, <2>3 DEF AlertTypes, Reported
<1>2. ASSUME NEW type \in AllTypes
      PROVE  Spaced(type) /\ Answered(type)
  <2>1. /\ issued[type] = <<>> /\ Len(issued[type]) = 0 /\ lastAlertTime[type] = 0
        /\ time \in Nat
    BY <1>1, <1>2 DEF AlertInit, AlertTypes
  <2>2. 1..Len(issued[type]) = {} /\ 1..Len(issued[type]) - 1 = {}
        /\ 2..Len(issued[type]) = {} /\ 3..Len(issued[type]) = {}
    BY <2>1
  <2>3. lastAlertTime[type] <= time
    BY <2>1
  <2> QED
    BY <2>1, <2>2, <2>3 DEF Spaced, Answered
<1> QED
  BY <1>1, <1>2 DEF AlertInv

(* What does not touch a type's alerts keeps them spaced as time passes.   *)
LEMMA OthersSpaced ==
  ASSUME AlertInv, NEW type \in AllTypes,
         time' \in Nat, time' >= time,
         lastAlertTime'[type] = lastAlertTime[type], issued'[type] = issued[type],
         type \notin lost' => type \notin lost,
         type = Late => late' = late,
         type = Late /\ check' = "publishing" => check = "publishing"
  PROVE  Spaced(type)' /\ Answered(type)'
<1> DEFINE alerts == issued[type]
           taken == lastAlertTime[type]
<1>1. time \in Nat /\ taken \in Nat /\ alerts \in Seq(Nat) /\ Spaced(type) /\ Answered(type)
  BY DEF AlertInv, AlertTypes
<1>2. Len(alerts) \in Nat /\ \A i \in 1..Len(alerts) : alerts[i] \in Nat
  BY <1>1
<1>3. Answered(type)'
  BY <1>1 DEF Answered
<1>4. /\ taken <= time' /\ \A i \in 1..Len(alerts) : alerts[i] <= time'
  BY <1>1, <1>2 DEF Spaced
<1>5. Spaced(type)'
  BY <1>1, <1>4 DEF Spaced
<1> QED
  BY <1>3, <1>5

(* An alert issued now, with the cooldown before it over.                  *)
LEMMA IssueSpaced ==
  ASSUME AlertInv, NEW type \in AllTypes, CooldownOver(type),
         type = Late => check # "publishing" /\ check' # "publishing" /\ late' = late,
         time' = time, lastAlertTime'[type] = time,
         issued'[type] = Append(issued[type], time)
  PROVE  Spaced(type)' /\ Answered(type)'
<1> DEFINE alerts == issued[type]
           taken == lastAlertTime[type]
           after == Append(alerts, time)
<1>1. /\ time \in Nat /\ taken \in Nat /\ alerts \in Seq(Nat)
      /\ Spaced(type) /\ Cooldown \in Nat /\ time - taken >= Cooldown
  BY AlertAssumption DEF AlertInv, AlertTypes, CooldownOver
<1>2. Len(alerts) \in Nat /\ \A i \in 1..Len(alerts) : alerts[i] \in Nat
  BY <1>1
<1>3. /\ Len(after) = Len(alerts) + 1 /\ after[Len(after)] = time
      /\ \A i \in 1..Len(alerts) : after[i] = alerts[i]
      /\ after = issued'[type]
  BY <1>1
<1> HIDE DEF after
<1>0. after # <<>>
  BY <1>2, <1>3
<1>4. Answered(type)'
  BY <1>0, <1>1, <1>3 DEF Answered
<1>5. /\ \A i \in 1..Len(after) : after[i] <= time /\ after[i] \in Nat
      /\ \A i \in 3..Len(after) : after[i] - after[i - 2] >= Cooldown
      /\ (type = Late => ~late) =>
           \A i \in 2..Len(after) : after[i] - after[i - 1] >= Cooldown
  <2>1. \A i \in 1..Len(after) : after[i] <= time /\ after[i] \in Nat
    BY <1>1, <1>2, <1>3 DEF Spaced
  <2>2. ASSUME NEW i \in 3..Len(after)
        PROVE  after[i] - after[i - 2] >= Cooldown
    <3>1. CASE i <= Len(alerts)
      BY <1>1, <1>2, <1>3, <2>2, <3>1 DEF Spaced
    <3>2. CASE i = Len(alerts) + 1
      <4>1. i - 2 \in 1..Len(alerts) - 1
        BY <1>2, <2>2, <3>2
      <4>2. alerts[i - 2] <= taken
        BY <1>1, <4>1 DEF Spaced
      <4>3. after[i] = time /\ after[i - 2] = alerts[i - 2] /\ alerts[i - 2] \in Nat
        BY <1>2, <1>3, <3>2, <4>1
      <4>4. \A x \in Nat : x <= taken => time - x >= Cooldown
        BY <1>1
      <4> QED
        BY <4>2, <4>3, <4>4
    <3> QED
      BY <1>2, <1>3, <2>2, <3>1, <3>2
  <2>3. ASSUME NEW i \in 2..Len(after), type = Late => ~late
        PROVE  after[i] - after[i - 1] >= Cooldown
    <3>1. CASE i <= Len(alerts)
      <4>1. after[i] = alerts[i] /\ after[i - 1] = alerts[i - 1] /\ i \in 2..Len(alerts)
        BY <1>2, <1>3, <3>1
      <4> QED
        BY <1>1, <2>3, <4>1 DEF Spaced
    <3>2. CASE i = Len(alerts) + 1
      <4>1. i - 1 \in 1..Len(alerts)
        BY <1>2, <2>3, <3>2
      <4>2. alerts[i - 1] <= taken
        BY <1>1, <2>3, <4>1 DEF Spaced
      <4>3. after[i] = time /\ after[i - 1] = alerts[i - 1] /\ alerts[i - 1] \in Nat
        BY <1>2, <1>3, <3>2, <4>1
      <4>4. \A x \in Nat : x <= taken => time - x >= Cooldown
        BY <1>1
      <4> QED
        BY <4>2, <4>3, <4>4
    <3> QED
      BY <1>2, <1>3, <2>3, <3>1, <3>2
  <2> QED
    BY <2>1, <2>2, <2>3
<1>6. time' = time /\ time <= time /\ \A i \in 1..Len(after) - 1 : after[i] <= time
  BY <1>1, <1>2, <1>3, <1>5
<1>7. Spaced(type)'
  BY <1>3, <1>5, <1>6 DEF Spaced
<1> QED
  BY <1>4, <1>7

(* An alert lost, or held back by a full queue: its cooldown is taken.     *)
LEMMA LoseSpaced ==
  ASSUME AlertInv, NEW type \in AllTypes, CooldownOver(type),
         type = Late => late' = TRUE,
         time' = time, lastAlertTime'[type] = time, issued'[type] = issued[type],
         type \in lost'
  PROVE  Spaced(type)' /\ Answered(type)'
<1> DEFINE alerts == issued[type]
           taken == lastAlertTime[type]
<1>1. /\ time \in Nat /\ taken \in Nat /\ alerts \in Seq(Nat)
      /\ Spaced(type) /\ Cooldown \in Nat /\ time - taken >= Cooldown
  BY AlertAssumption DEF AlertInv, AlertTypes, CooldownOver
<1>2. Len(alerts) \in Nat /\ \A i \in 1..Len(alerts) : alerts[i] \in Nat
  BY <1>1
<1>3. \A i \in 1..Len(alerts) - 1 : alerts[i] + Cooldown <= time
  <2>1. \A i \in 1..Len(alerts) - 1 : alerts[i] <= taken
    BY <1>1 DEF Spaced
  <2> SUFFICES ASSUME NEW i \in 1..Len(alerts) - 1 PROVE alerts[i] + Cooldown <= time
    OBVIOUS
  <2>2. alerts[i] \in Nat
    BY <1>2
  <2> QED
    BY <1>1, <2>1, <2>2
<1>4. Spaced(type)'
  BY <1>1, <1>2, <1>3 DEF Spaced
<1> QED
  BY <1>4 DEF Answered

LEMMA HandleKeeps ==
  ASSUME AlertInv, NEW type \in Types, Handle(type)
  PROVE  AlertInv'
<1>1. type \in AllTypes /\ type # Late
  BY AlertAssumption DEF AllTypes, Late
<1>2. /\ UNCHANGED <<time, alertedMiss, check, reports, muffled, late>>
      /\ lastAlertTime' = [lastAlertTime EXCEPT ![type] = time]
      /\ CooldownOver(type)
  BY DEF Handle, TakeCooldown
<1>3. AlertTypes' /\ lastAlertTime'[type] = time
  <2>1. lastAlertTime' \in [AllTypes -> Nat] /\ lastAlertTime'[type] = time
    BY <1>1, <1>2 DEF AlertInv, AlertTypes
  <2>2. issued' \in [AllTypes -> Seq(Nat)]
    <3>1. Append(issued[type], time) \in Seq(Nat)
      BY <1>1 DEF AlertInv, AlertTypes
    <3> QED
      BY <3>1 DEF AlertInv, AlertTypes, Handle, Issue, Lose
  <2> QED
    BY <1>2, <2>1, <2>2 DEF AlertInv, AlertTypes
<1>4. Reported'
  BY <1>2 DEF AlertInv, Reported
<1>5. Spaced(type)' /\ Answered(type)'
  <2>1. CASE Issue(type)
    <3>1. issued'[type] = Append(issued[type], time)
      BY <1>1, <2>1 DEF AlertInv, AlertTypes, Issue
    <3> QED
      BY <1>1, <1>2, <1>3, <3>1, IssueSpaced
  <2>2. CASE Lose(type)
    BY <1>1, <1>2, <1>3, <2>2, LoseSpaced DEF Lose
  <2> QED
    BY <2>1, <2>2 DEF Handle
<1>6. ASSUME NEW other \in AllTypes, other # type
      PROVE  Spaced(other)' /\ Answered(other)'
  <2>1. /\ lastAlertTime'[other] = lastAlertTime[other] /\ issued'[other] = issued[other]
        /\ other \notin lost' => other \notin lost
    BY <1>2, <1>6 DEF AlertInv, AlertTypes, Handle, Issue, Lose
  <2>2. time' \in Nat /\ time' >= time
    BY <1>2 DEF AlertInv, AlertTypes
  <2> QED
    BY <1>2, <2>1, <2>2, OthersSpaced
<1> QED
  BY <1>3, <1>4, <1>5, <1>6 DEF AlertInv

LEMMA CheckKeeps ==
  ASSUME AlertInv, CheckHeartbeat
  PROVE  AlertInv'
<1>1. /\ Late \in AllTypes
      /\ UNCHANGED time /\ check = "asleep" /\ alertedMiss' = (alertedMiss \/ Missed)
      /\ time' \in Nat /\ time' >= time
  BY DEF AllTypes, Late, CheckHeartbeat, AlertInv, AlertTypes
<1>2. CASE /\ ~NotesMiss \/ ~CooldownOver(Late)
           /\ Sleep
           /\ muffled' = (muffled \/ NotesMiss)
           /\ UNCHANGED <<lastAlertTime, issued, lost, late, reports>>
  <2>1. AlertTypes'
    BY <1>1, <1>2 DEF AlertInv, AlertTypes, NotesMiss, Missed
  <2>2. Reported'
    BY <1>1, <1>2 DEF AlertInv, Reported, NotesMiss, Sleep
  <2>3. \A type \in AllTypes : Spaced(type)' /\ Answered(type)'
    BY <1>1, <1>2, OthersSpaced DEF Sleep
  <2> QED
    BY <2>1, <2>2, <2>3 DEF AlertInv
<1>3. CASE NotesMiss /\ CooldownOver(Late) /\ TakeCooldown(Late) /\ UNCHANGED muffled
           /\ Issue(Late) /\ reports' = reports + 1 /\ Sleep /\ UNCHANGED late
  <2>1. /\ issued' = [issued EXCEPT ![Late] = Append(@, time)]
        /\ lastAlertTime' = [lastAlertTime EXCEPT ![Late] = time]
        /\ lost' = lost \ {Late} /\ check' = "asleep"
    BY <1>3 DEF Issue, TakeCooldown, Sleep
  <2>2. AlertTypes' /\ lastAlertTime'[Late] = time
    BY <1>1, <1>3, <2>1 DEF AlertInv, AlertTypes, NotesMiss, Missed
  <2>3. Reported'
    <3>1. Missed /\ ~alertedMiss /\ alertedMiss'
      BY <1>1, <1>3 DEF NotesMiss
    <3>2. ~late => reports # 1 /\ reports <= 1
      BY <3>1 DEF AlertInv, Reported
    <3>3. ~late => reports' = 1 /\ reports' <= 1
      BY <1>3, <3>2 DEF AlertInv, AlertTypes
    <3> QED
      BY <1>3, <2>1, <3>1, <3>3 DEF Reported
  <2>4. issued'[Late] = Append(issued[Late], time)
    BY <1>1, <2>1 DEF AlertInv, AlertTypes
  <2>5. Spaced(Late)' /\ Answered(Late)'
    BY <1>1, <1>3, <2>1, <2>2, <2>4, IssueSpaced
  <2>6. ASSUME NEW other \in AllTypes, other # Late
        PROVE  Spaced(other)' /\ Answered(other)'
    <3>1. /\ lastAlertTime'[other] = lastAlertTime[other] /\ issued'[other] = issued[other]
          /\ other \notin lost' => other \notin lost
      BY <2>1, <2>6 DEF AlertInv, AlertTypes
    <3> QED
      BY <1>1, <2>6, <3>1, OthersSpaced
  <2> QED
    BY <2>2, <2>3, <2>5, <2>6 DEF AlertInv
<1>4. CASE CooldownOver(Late) /\ TakeCooldown(Late) /\ UNCHANGED muffled
           /\ Lose(Late) /\ check' = "publishing" /\ late' = TRUE
           /\ UNCHANGED <<reports, wakeAt>>
  <2>1. /\ issued' = issued
        /\ lastAlertTime' = [lastAlertTime EXCEPT ![Late] = time]
        /\ lost' = lost \cup {Late}
    BY <1>4 DEF Lose, TakeCooldown
  <2>2. AlertTypes' /\ lastAlertTime'[Late] = time
    BY <1>1, <1>4, <2>1 DEF AlertInv, AlertTypes, Missed
  <2>3. Reported'
    BY <1>4 DEF Reported
  <2>4. Spaced(Late)' /\ Answered(Late)'
    BY <1>1, <1>4, <2>1, <2>2, LoseSpaced
  <2>5. ASSUME NEW other \in AllTypes, other # Late
        PROVE  Spaced(other)' /\ Answered(other)'
    <3>1. /\ lastAlertTime'[other] = lastAlertTime[other] /\ issued'[other] = issued[other]
          /\ other \notin lost' => other \notin lost
      BY <2>1, <2>5 DEF AlertInv, AlertTypes
    <3> QED
      BY <1>1, <2>5, <3>1, OthersSpaced
  <2> QED
    BY <2>2, <2>3, <2>4, <2>5 DEF AlertInv
<1> QED
  BY <1>2, <1>3, <1>4 DEF CheckHeartbeat, Late

(* The alert that waited comes out after the cooldown it took began.       *)
LEMMA RoomKeeps ==
  ASSUME AlertInv, Room
  PROVE  AlertInv'
<1> DEFINE alerts == issued[Late]
           taken == lastAlertTime[Late]
           after == Append(alerts, time)
<1>1. /\ Late \in AllTypes /\ check = "publishing" /\ check' = "asleep"
      /\ UNCHANGED <<time, lastAlertTime, alertedMiss, muffled, late>>
      /\ issued' = [issued EXCEPT ![Late] = after] /\ lost' = lost \ {Late}
      /\ reports' = reports + 1
  BY DEF AllTypes, Late, Room, Issue, Sleep
<1>2. late = TRUE /\ Spaced(Late) /\ Cooldown \in Nat
  BY <1>1, AlertAssumption DEF AlertInv, AlertTypes, Reported
<1>3. AlertTypes' /\ issued'[Late] = after
  BY <1>1 DEF AlertInv, AlertTypes
<1>4. Reported'
  BY <1>1, <1>2 DEF Reported
<1>5. time \in Nat /\ taken \in Nat /\ alerts \in Seq(Nat)
  BY <1>1 DEF AlertInv, AlertTypes
<1>6. Len(alerts) \in Nat /\ \A i \in 1..Len(alerts) : alerts[i] \in Nat
  BY <1>5
<1>7. /\ Len(after) = Len(alerts) + 1 /\ after[Len(after)] = time
      /\ \A i \in 1..Len(alerts) : after[i] = alerts[i]
  BY <1>5
<1> HIDE DEF after
<1>0. after # <<>>
  BY <1>6, <1>7
<1>8. taken <= time /\ \A i \in 1..Len(alerts) - 1 : alerts[i] + Cooldown <= taken
  BY <1>1, <1>2 DEF Spaced
<1>9. \A i \in 3..Len(after) : after[i] - after[i - 2] >= Cooldown
  <2> SUFFICES ASSUME NEW i \in 3..Len(after) PROVE after[i] - after[i - 2] >= Cooldown
    OBVIOUS
  <2>1. CASE i <= Len(alerts)
    BY <1>2, <1>6, <1>7, <2>1 DEF Spaced
  <2>2. CASE i = Len(alerts) + 1
    <3>1. i - 2 \in 1..Len(alerts) - 1
      BY <1>6, <2>2
    <3>2. /\ after[i] = time /\ after[i - 2] = alerts[i - 2]
          /\ alerts[i - 2] \in Nat /\ alerts[i - 2] + Cooldown <= taken
      BY <1>6, <1>7, <1>8, <2>2, <3>1
    <3>3. \A x \in Nat : x + Cooldown <= taken => time - x >= Cooldown
      BY <1>2, <1>5, <1>8
    <3> QED
      BY <3>2, <3>3
  <2> QED
    BY <1>6, <1>7, <2>1, <2>2
<1>10. \A i \in 1..Len(alerts) : alerts[i] <= taken
  BY <1>1, <1>2 DEF Spaced
<1>11. \A i \in 1..Len(after) : after[i] <= time
  <2>1. \A x \in Nat : x <= taken => x <= time
    BY <1>5, <1>8
  <2>2. time <= time
    BY <1>5
  <2>3. ASSUME NEW i \in 1..Len(after) PROVE i \in 1..Len(alerts) \/ i = Len(after)
    BY <1>6, <1>7
  <2> QED
    BY <1>6, <1>7, <1>10, <2>1, <2>2, <2>3
<1>12. \A i \in 1..Len(after) - 1 : after[i] <= taken
  BY <1>6, <1>7, <1>10
<1>13. Spaced(Late)' /\ Answered(Late)'
  BY <1>0, <1>1, <1>2, <1>3, <1>5, <1>7, <1>8, <1>9, <1>11, <1>12 DEF Spaced, Answered
<1>14. ASSUME NEW other \in AllTypes, other # Late
       PROVE  Spaced(other)' /\ Answered(other)'
  <2>1. /\ lastAlertTime'[other] = lastAlertTime[other] /\ issued'[other] = issued[other]
        /\ other \notin lost' => other \notin lost
    BY <1>1, <1>14 DEF AlertInv, AlertTypes
  <2>2. time' \in Nat /\ time' >= time
    BY <1>1, <1>5
  <2> QED
    BY <1>14, <2>1, <2>2, OthersSpaced
<1> QED
  BY <1>3, <1>4, <1>13, <1>14 DEF AlertInv

LEMMA AlertsElse ==
  ASSUME AlertInv, OnHeartbeat \/ Start \/ Stop \/ PassTime
  PROVE  AlertInv'
<1>1. /\ UNCHANGED <<lastAlertTime, issued, lost, late>>
      /\ check' = "publishing" => check = "publishing"
  BY DEF OnHeartbeat, Start, Stop, PassTime, history
<1>2. time' \in Nat /\ time' >= time
  BY DEF AlertInv, AlertTypes, OnHeartbeat, Start, Stop, PassTime
<1>3. AlertTypes'
  <2>1. time' > 0
    BY DEF AlertInv, AlertTypes, OnHeartbeat, Start, Stop, PassTime
  <2>2. reports' \in Nat /\ alertedMiss' \in BOOLEAN /\ muffled' \in BOOLEAN
    <3>1. CASE OnHeartbeat
      BY <3>1 DEF OnHeartbeat
    <3>2. CASE Start \/ Stop \/ PassTime
      BY <3>2 DEF AlertInv, AlertTypes, Start, Stop, PassTime, history
    <3> QED
      BY <3>1, <3>2
  <2> QED
    BY <1>1, <1>2, <2>1, <2>2 DEF AlertInv, AlertTypes
<1>4. Reported'
  BY <1>1 DEF AlertInv, Reported, OnHeartbeat, Start, Stop, PassTime, history
<1>5. \A type \in AllTypes : Spaced(type)' /\ Answered(type)'
  BY <1>1, <1>2, OthersSpaced
<1> QED
  BY <1>3, <1>4, <1>5 DEF AlertInv

LEMMA AlertsStay ==
  ASSUME AlertInv, UNCHANGED alertVars
  PROVE  AlertInv'
BY DEF AlertInv, AlertTypes, Spaced, Answered, Reported, alertVars, history, CooldownOver
-----------------------------------------------------------------------------
CollectorTypes ==
  /\ uncalled \in Nat /\ eventCount \in Nat /\ dispatched \in Nat
  /\ starts \in Nat /\ task \in Nat /\ stopping \in Nat /\ since \in Nat
  /\ wakes \in [1..MaxStarts -> Nat]
  /\ samples \in Seq(Nat)
  /\ collecting \in BOOLEAN /\ torn \in BOOLEAN /\ overlapped \in BOOLEAN

(* What one start has to count: its handler is called for each event in    *)
(* dispatch, and counts while it collects.                                 *)
Counting ==
  /\ starts = 0 => ~collecting /\ uncalled = 0
  /\ starts <= 1 /\ ~torn =>
       /\ collecting => dispatched = eventCount + uncalled
       /\ ~collecting => dispatched = eventCount

(* While nothing overlaps the loop belongs to _task, and ends with stop(). *)
Looping ==
  ~overlapped =>
    /\ collecting => task # 0 /\ stopping = 0
    /\ \A n \in 1..MaxStarts : wakes[n] # 0 => n = task /\ collecting

(* What is kept of the samples is an interval less than a minute. The code *)
(* keeps 60 of them; its interval is a second unless it is told otherwise. *)
KeepsTheWindow == SampleKeep * SampleInterval >= RateWindow

(* The samples of one loop are an interval apart, the next one included.   *)
Sampling ==
  /\ \A n \in 1..MaxStarts : wakes[n] # 0 => n <= starts
  /\ starts = 0 => samples = <<>>
  /\ starts <= 1 =>
       /\ \A i, j \in 1..Len(samples) :
            i < j => samples[i] + (j - i) * SampleInterval <= samples[j]
       /\ samples # <<>> => \A n \in 1..MaxStarts :
            wakes[n] # 0 => samples[Len(samples)] + SampleInterval <= wakes[n]
  /\ KeepsTheWindow => SamplesReachBack

CollectorInv == CollectorTypes /\ Counting /\ Looping /\ Sampling

LEMMA CollectorStarts ==
  ASSUME CollectorInit
  PROVE  CollectorInv
<1>1. /\ uncalled = 0 /\ eventCount = 0 /\ dispatched = 0 /\ starts = 0
      /\ task = 0 /\ stopping = 0 /\ since = 0 /\ samples = <<>>
      /\ wakes \in [1..MaxStarts -> Nat]
      /\ \A n \in 1..MaxStarts : wakes[n] = 0
  BY DEF CollectorInit
<1>2. collecting = FALSE /\ torn = FALSE /\ overlapped = FALSE
  BY DEF CollectorInit
<1>3. CollectorTypes /\ Counting
  <2>1. /\ uncalled \in Nat /\ eventCount \in Nat /\ dispatched \in Nat
        /\ starts \in Nat /\ task \in Nat /\ stopping \in Nat /\ since \in Nat
        /\ samples \in Seq(Nat)
    BY <1>1
  <2> QED
    BY <1>1, <1>2, <2>1 DEF CollectorTypes, Counting
<1>4. Looping
  BY <1>1, <1>2 DEF Looping
<1>5. Sampling
  <2>1. Len(samples) = 0 /\ 1..Len(samples) = {}
    BY <1>1
  <2> QED
    BY <1>1, <2>1 DEF Sampling, SamplesReachBack
<1> QED
  BY <1>3, <1>4, <1>5 DEF CollectorInv

LEMMA OneTimes ==
  ASSUME NEW n \in Nat, NEW s \in Nat
  PROVE  n * s \in Nat /\ (n + 1) * s = n * s + s /\ 1 * s = s
OBVIOUS

LEMMA AppendsSample ==
  ASSUME CollectorInv, starts <= 1,
         NEW now \in Nat, NEW n \in 1..MaxStarts, wakes[n] # 0, now >= wakes[n],
         NEW after, after = Trim(Append(samples, now))
  PROVE  /\ after \in Seq(Nat) /\ after # <<>> /\ after[Len(after)] = now
         /\ \A i, j \in 1..Len(after) :
              i < j => after[i] + (j - i) * SampleInterval <= after[j]
         /\ KeepsTheWindow =>
              \/ Head(after) = IF samples = <<>> THEN now ELSE since
              \/ Last(after) - Head(after) + SampleInterval >= RateWindow
<1> DEFINE N == Len(samples)
<1>1. /\ samples \in Seq(Nat) /\ N \in Nat /\ SampleInterval \in Nat /\ RateWindow \in Nat
      /\ SampleKeep \in Nat /\ SampleLimit \in Nat
      /\ SampleKeep >= 1 /\ SampleKeep <= SampleLimit
      /\ \A i \in 1..N : samples[i] \in Nat
  BY CollectorAssumption DEF CollectorInv, CollectorTypes
<1>2. PICK long : long = Append(samples, now)
  OBVIOUS
<1>3. /\ long \in Seq(Nat) /\ Len(long) = N + 1 /\ long[N + 1] = now
      /\ \A i \in 1..N : long[i] = samples[i]
      /\ \A i \in 1..N + 1 : long[i] \in Nat
  BY <1>1, <1>2
<1>0. /\ \A i, j \in 1..N : i < j => samples[i] + (j - i) * SampleInterval <= samples[j]
      /\ samples # <<>> => samples[N] + SampleInterval <= wakes[n]
      /\ wakes[n] \in Nat
  BY DEF CollectorInv, CollectorTypes, Sampling
<1>4. ASSUME NEW i \in 1..N + 1, NEW j \in 1..N + 1, i < j
      PROVE  long[i] + (j - i) * SampleInterval <= long[j]
  <2>1. CASE j <= N
    <3>1. N \in Nat
      BY <1>1
    <3>2. i \in 1..N /\ j \in 1..N
      BY <1>4, <2>1, <3>1
    <3>3. long[i] = samples[i] /\ long[j] = samples[j]
      BY <1>3, <3>2
    <3> QED
      BY <1>0, <1>4, <3>2, <3>3
  <2>2. CASE j = N + 1
    <3>1. i \in 1..N /\ N >= 1 /\ N - i \in Nat /\ j - i = (N - i) + 1
      BY <1>1, <1>4, <2>2
    <3>2. samples[N] + SampleInterval <= now
      <4>1. samples # <<>>
        BY <3>1
      <4>2. samples[N] + SampleInterval <= wakes[n] /\ wakes[n] \in Nat /\ samples[N] \in Nat
        BY <1>0, <1>1, <3>1, <4>1
      <4> QED
        BY <1>1, <4>2
    <3>3. samples[i] + (N - i) * SampleInterval <= samples[N]
      <4>1. CASE i < N
        BY <1>0, <1>1, <3>1, <4>1
      <4>2. CASE i = N
        BY <1>1, <3>1, <4>2
      <4> QED
        BY <1>1, <3>1, <4>1, <4>2
    <3>4. /\ (j - i) * SampleInterval = (N - i) * SampleInterval + SampleInterval
          /\ (N - i) * SampleInterval \in Nat
      BY <1>1, <3>1, OneTimes
    <3>5. long[i] = samples[i] /\ long[j] = now /\ samples[i] \in Nat /\ samples[N] \in Nat
      BY <1>1, <1>3, <2>2, <3>1
    <3>6. PICK x \in Nat, y \in Nat : x = (N - i) * SampleInterval /\ y = samples[i]
      BY <3>4, <3>5
    <3>8. y + x <= samples[N] /\ samples[N] \in Nat
      BY <3>3, <3>5, <3>6
    <3>7. y + (x + SampleInterval) <= now
      BY <1>1, <3>2, <3>8
    <3> QED
      BY <3>4, <3>5, <3>6, <3>7
  <2> QED
    BY <1>1, <1>4, <2>1, <2>2
<1>5. CASE N + 1 <= SampleLimit
  <2>1. after = long
    BY <1>1, <1>2, <1>3, <1>5 DEF Trim
  <2>2. after # <<>> /\ Head(after) = long[1] /\ Last(after) = now
    BY <1>1, <1>3, <2>1 DEF Last
  <2>3. ASSUME KeepsTheWindow
        PROVE  \/ Head(after) = IF samples = <<>> THEN now ELSE since
               \/ Last(after) - Head(after) + SampleInterval >= RateWindow
    <3>1. CASE samples = <<>>
      BY <1>3, <2>2, <3>1
    <3>2. CASE samples # <<>>
      <4>1. N >= 1 /\ Head(samples) = samples[1] /\ Last(samples) = samples[N]
            /\ long[1] = samples[1] /\ samples[1] \in Nat /\ samples[N] \in Nat
        BY <1>1, <1>3, <3>2 DEF Last
      <4>2. samples[N] <= now
        <5>1. 1..N + 1 # {} /\ N \in 1..N + 1 /\ N + 1 \in 1..N + 1 /\ N < N + 1
              /\ N + 1 - N = 1
          BY <1>1, <4>1
        <5>2. long[N] + (N + 1 - N) * SampleInterval <= long[N + 1]
          BY <1>4, <5>1
        <5>3. long[N] = samples[N] /\ long[N + 1] = now /\ 1 * SampleInterval = SampleInterval
          BY <1>1, <1>3, <4>1, OneTimes
        <5> QED
          BY <1>1, <4>1, <5>1, <5>2, <5>3
      <4>3. Head(samples) = since \/ Last(samples) - Head(samples) + SampleInterval >= RateWindow
        BY <2>3, <3>2 DEF CollectorInv, Sampling, SamplesReachBack
      <4>4. CASE Head(samples) = since
        BY <2>2, <3>2, <4>1, <4>4
      <4>5. CASE Last(samples) - Head(samples) + SampleInterval >= RateWindow
        <5>1. now - long[1] + SampleInterval >= RateWindow
          BY <1>1, <4>1, <4>2, <4>5
        <5> QED
          BY <2>2, <5>1
      <4> QED
        BY <4>3, <4>4, <4>5
    <3> QED
      BY <3>1, <3>2
  <2> QED
    BY <1>1, <1>3, <1>4, <2>1, <2>2, <2>3
<1>6. CASE N + 1 > SampleLimit
  <2> DEFINE cut == N + 1 - SampleKeep
  <2>1. cut \in Nat /\ cut + SampleKeep = N + 1 /\ N + 1 - SampleKeep + 1 = cut + 1
    BY <1>1, <1>6
  <2>2. after = SubSeq(long, cut + 1, N + 1)
    <3>1. Len(long) > SampleLimit
      BY <1>3, <1>6
    <3>2. after = SubSeq(long, Len(long) - SampleKeep + 1, Len(long))
      BY <1>2, <3>1 DEF Trim
    <3>3. Len(long) = N + 1 /\ N \in Nat /\ SampleKeep \in Nat
      BY <1>1, <1>3
    <3>4. Len(long) - SampleKeep + 1 = cut + 1
      BY <3>3
    <3> QED
      BY <3>2, <3>3, <3>4
  <2>3. /\ after \in Seq(Nat) /\ Len(after) = SampleKeep
        /\ \A i \in 1..SampleKeep : after[i] = long[cut + i]
    <3>1. \A i \in cut + 1..N + 1 : long[i] \in Nat
      BY <1>1, <1>3, <2>1
    <3> QED
      BY <1>1, <1>3, <2>1, <2>2, <3>1
  <2> HIDE DEF cut
  <2>4. after # <<>> /\ Head(after) = after[1] /\ Last(after) = after[SampleKeep]
        /\ after[SampleKeep] = now
    <3>1. SampleKeep \in 1..SampleKeep
      BY <1>1
    <3> QED
      BY <1>1, <1>3, <2>1, <2>3, <3>1 DEF Last
  <2>5. ASSUME NEW i \in 1..SampleKeep, NEW j \in 1..SampleKeep, i < j
        PROVE  after[i] + (j - i) * SampleInterval <= after[j]
    <3>1. /\ cut + i \in 1..N + 1 /\ cut + j \in 1..N + 1 /\ cut + i < cut + j
          /\ (cut + j) - (cut + i) = j - i
      BY <1>1, <2>1, <2>5
    <3>2. long[cut + i] + ((cut + j) - (cut + i)) * SampleInterval <= long[cut + j]
      BY <1>4, <3>1
    <3> QED
      BY <2>3, <3>1, <3>2
  <2>6. ASSUME KeepsTheWindow
        PROVE  Last(after) - Head(after) + SampleInterval >= RateWindow
    <3>1. after[1] \in Nat /\ SampleKeep - 1 \in Nat
      BY <1>1, <2>3
    <3>2. /\ (SampleKeep - 1 + 1) * SampleInterval = (SampleKeep - 1) * SampleInterval + SampleInterval
          /\ (SampleKeep - 1) * SampleInterval \in Nat
      BY <1>1, <3>1, OneTimes
    <3>3. SampleKeep - 1 + 1 = SampleKeep
      BY <1>1
    <3>4. SampleKeep * SampleInterval >= RateWindow
      BY <2>6 DEF KeepsTheWindow
    <3>5. after[1] + (SampleKeep - 1) * SampleInterval <= now
      <4>1. CASE SampleKeep = 1
        BY <1>1, <2>4, <3>1, <4>1
      <4>2. CASE SampleKeep > 1
        <5>1. 1 \in 1..SampleKeep /\ SampleKeep \in 1..SampleKeep
          BY <1>1
        <5> QED
          BY <2>4, <2>5, <4>2, <5>1
      <4> QED
        BY <1>1, <4>1, <4>2
    <3> QED
      BY <1>1, <2>4, <3>1, <3>2, <3>3, <3>4, <3>5
  <2> QED
    BY <2>3, <2>4, <2>5, <2>6
<1> QED
  BY <1>1, <1>5, <1>6
LEMMA EventCounts ==
  ASSUME CollectorInv, CollectorEvent \/ Count \/ CollectorMisses
  PROVE  CollectorInv'
<1>1. /\ UNCHANGED <<wakes, samples, since, starts, task, collecting, stopping, overlapped>>
      /\ UNCHANGED torn \/ torn' = TRUE
  BY DEF CollectorEvent, Count, CollectorMisses, sampleVars, lifeVars
<1>2. /\ uncalled \in Nat /\ eventCount \in Nat /\ dispatched \in Nat /\ starts \in Nat
      /\ collecting \in BOOLEAN /\ torn \in BOOLEAN
  BY DEF CollectorInv, CollectorTypes
<1>3. uncalled' \in Nat /\ eventCount' \in Nat /\ dispatched' \in Nat
  BY <1>2 DEF CollectorEvent, Count, CollectorMisses
<1>4. CollectorTypes'
  BY <1>1, <1>3 DEF CollectorInv, CollectorTypes
<1>5. Counting'
  <2>1. ASSUME starts' = 0
        PROVE  ~collecting' /\ uncalled' = 0
    <3>1. ~collecting /\ uncalled = 0 /\ starts = 0
      BY <1>1, <2>1 DEF CollectorInv, Counting
    <3>2. CollectorEvent
      BY <1>2, <3>1 DEF Count, CollectorMisses
    <3>3. uncalled' = 0
      BY <3>1, <3>2 DEF CollectorEvent
    <3> QED
      BY <1>1, <3>1, <3>3
  <2>2. ASSUME starts' <= 1, ~torn'
        PROVE  /\ collecting' => dispatched' = eventCount' + uncalled'
               /\ ~collecting' => dispatched' = eventCount'
    <3>1. /\ starts <= 1 /\ ~torn /\ ~CollectorMisses
          /\ collecting => dispatched = eventCount + uncalled /\ starts # 0
          /\ ~collecting => dispatched = eventCount
      BY <1>1, <2>2 DEF CollectorInv, Counting, CollectorMisses
    <3>2. CASE CollectorEvent
      <4>1. CASE collecting
        <5>1. starts = 1
          BY <1>2, <3>1, <4>1
        <5>2. dispatched' = dispatched + 1 /\ eventCount' = eventCount /\ uncalled' = uncalled + 1
          BY <3>2, <4>1, <5>1 DEF CollectorEvent
        <5>3. dispatched' = eventCount' + uncalled'
          BY <1>2, <3>1, <4>1, <5>2
        <5> QED
          BY <1>1, <4>1, <5>3
      <4>2. CASE ~collecting
        BY <1>1, <3>1, <3>2, <4>2 DEF CollectorEvent
      <4> QED
        BY <4>1, <4>2
    <3>3. CASE Count
      <4>1. CASE collecting
        <5>1. uncalled > 0 /\ eventCount' = eventCount + 1 /\ uncalled' = uncalled - 1
              /\ dispatched' = dispatched
          BY <3>3, <4>1 DEF Count
        <5>2. dispatched' = eventCount' + uncalled'
          BY <1>2, <3>1, <4>1, <5>1
        <5> QED
          BY <1>1, <4>1, <5>2
      <4>2. CASE ~collecting
        BY <1>1, <3>1, <3>3, <4>2 DEF Count
      <4> QED
        BY <4>1, <4>2
    <3> QED
      BY <3>1, <3>2, <3>3
  <2> QED
    BY <2>1, <2>2 DEF Counting
<1>6. Looping' /\ Sampling'
  BY <1>1 DEF CollectorInv, Looping, Sampling, SamplesReachBack
<1> QED
  BY <1>4, <1>5, <1>6 DEF CollectorInv

LEMMA SampleKeeps ==
  ASSUME CollectorInv, NEW now \in Nat,
         NEW n \in 1..MaxStarts, Sample(n, now)
  PROVE  CollectorInv'
<1>1. /\ UNCHANGED <<uncalled, eventCount, dispatched, starts, task, collecting,
                     stopping, torn, overlapped>>
      /\ wakes[n] # 0 /\ now >= wakes[n]
  BY DEF Sample, countVars, lifeVars
<1>2. /\ wakes \in [1..MaxStarts -> Nat] /\ samples \in Seq(Nat) /\ since \in Nat
      /\ SampleInterval \in Nat /\ SampleInterval # 0 /\ now + SampleInterval \in Nat
      /\ starts \in Nat
  BY CollectorAssumption DEF CollectorInv, CollectorTypes
<1>3. Counting'
  BY <1>1 DEF CollectorInv, Counting
<1>4. CASE ~collecting
  <2>1. wakes' = [wakes EXCEPT ![n] = 0] /\ UNCHANGED <<samples, since>>
    BY <1>4 DEF Sample
  <2>2. \A m \in 1..MaxStarts : wakes'[m] # 0 => wakes[m] # 0 /\ wakes'[m] = wakes[m]
    BY <1>2, <2>1
  <2>3. CollectorTypes'
    BY <1>1, <1>2, <2>1 DEF CollectorInv, CollectorTypes
  <2>4. Looping'
    BY <1>1, <2>2 DEF CollectorInv, Looping
  <2>5. Sampling'
    BY <1>1, <2>1, <2>2 DEF CollectorInv, Sampling, SamplesReachBack
  <2> QED
    BY <1>3, <2>3, <2>4, <2>5 DEF CollectorInv
<1>5. CASE collecting
  <2>1. /\ samples' = Trim(Append(samples, now))
        /\ since' = IF samples = <<>> THEN now ELSE since
        /\ wakes' = [wakes EXCEPT ![n] = now + SampleInterval]
    BY <1>5 DEF Sample
  <2>2. \A m \in 1..MaxStarts : m # n => wakes'[m] = wakes[m]
    BY <1>2, <2>1
  <2>3. samples' \in Seq(Nat)
    <3>1. /\ SampleKeep \in Nat /\ SampleLimit \in Nat /\ SampleKeep >= 1
          /\ SampleKeep <= SampleLimit
      BY CollectorAssumption
    <3>2. PICK long : long = Append(samples, now)
      OBVIOUS
    <3>3. long \in Seq(Nat) /\ Len(long) \in Nat /\ \A i \in 1..Len(long) : long[i] \in Nat
      BY <1>2, <3>2
    <3>4. CASE Len(long) > SampleLimit
      <4>1. samples' = SubSeq(long, Len(long) - SampleKeep + 1, Len(long))
        BY <2>1, <3>2, <3>4 DEF Trim
      <4>2. Len(long) - SampleKeep + 1 \in Nat /\ Len(long) - SampleKeep + 1 >= 1
        BY <3>1, <3>3, <3>4
      <4>3. \A i \in Len(long) - SampleKeep + 1..Len(long) : long[i] \in Nat
        BY <3>3, <4>2
      <4> QED
        BY <3>3, <4>1, <4>2, <4>3
    <3>5. CASE ~(Len(long) > SampleLimit)
      BY <2>1, <3>2, <3>3, <3>5 DEF Trim
    <3> QED
      BY <3>4, <3>5
  <2>4. CollectorTypes'
    BY <1>1, <1>2, <2>1, <2>3 DEF CollectorInv, CollectorTypes
  <2>5. Looping'
    BY <1>1, <1>5, <2>2 DEF CollectorInv, Looping
  <2>6. n <= starts /\ n >= 1 /\ starts # 0
    BY <1>1, <1>2 DEF CollectorInv, Sampling
  <2>7. \A m \in 1..MaxStarts : wakes'[m] # 0 => m <= starts'
    BY <1>1, <2>2, <2>6 DEF CollectorInv, Sampling
  <2>8. ASSUME starts' <= 1
        PROVE  /\ \A i, j \in 1..Len(samples') :
                    i < j => samples'[i] + (j - i) * SampleInterval <= samples'[j]
               /\ samples' # <<>> => \A m \in 1..MaxStarts :
                    wakes'[m] # 0 => samples'[Len(samples')] + SampleInterval <= wakes'[m]
               /\ KeepsTheWindow => SamplesReachBack'
    <3>1. /\ samples'[Len(samples')] = now
          /\ \A i, j \in 1..Len(samples') :
               i < j => samples'[i] + (j - i) * SampleInterval <= samples'[j]
          /\ KeepsTheWindow =>
               \/ Head(samples') = since'
               \/ Last(samples') - Head(samples') + SampleInterval >= RateWindow
      BY <1>1, <2>1, <2>8, AppendsSample
    <3>2. ASSUME NEW m \in 1..MaxStarts, wakes'[m] # 0
          PROVE  wakes'[m] = now + SampleInterval
      <4>1. m = n
        BY <1>1, <1>2, <2>6, <2>7, <2>8, <3>2
      <4> QED
        BY <1>2, <2>1, <4>1
    <3>3. now + SampleInterval <= now + SampleInterval
      BY <1>2
    <3> QED
      BY <3>1, <3>2, <3>3 DEF SamplesReachBack
  <2>9. Sampling'
    BY <1>1, <2>6, <2>7, <2>8 DEF Sampling, SamplesReachBack
  <2> QED
    BY <1>3, <2>4, <2>5, <2>9 DEF CollectorInv
<1> QED
  BY <1>4, <1>5 DEF CollectorInv, CollectorTypes

LEMMA StartKeeps ==
  ASSUME CollectorInv, NEW now \in Nat, now > 0, CollectorStart(now)
  PROVE  CollectorInv'
<1>1. /\ UNCHANGED <<uncalled, eventCount, dispatched, samples, since, stopping>>
      /\ ~collecting /\ collecting' = TRUE /\ starts' = starts + 1 /\ task' = starts'
      /\ wakes' = [wakes EXCEPT ![starts'] = now]
      /\ torn' = (torn \/ uncalled > 0) /\ overlapped' = (overlapped \/ stopping > 0)
      /\ starts < MaxStarts
  BY DEF CollectorStart, countVars
<1>2. /\ starts \in Nat /\ starts' \in Nat /\ starts' # 0 /\ starts' \in 1..MaxStarts
      /\ wakes \in [1..MaxStarts -> Nat]
  BY <1>1, CollectorAssumption DEF CollectorInv, CollectorTypes
<1>3. \A m \in 1..MaxStarts : m # starts' => wakes'[m] = wakes[m]
  BY <1>1, <1>2
<1>4. CollectorTypes'
  <2>1. wakes' \in [1..MaxStarts -> Nat]
    BY <1>1, <1>2
  <2>2. torn' \in BOOLEAN /\ overlapped' \in BOOLEAN /\ collecting' \in BOOLEAN
    BY <1>1
  <2> QED
    BY <1>1, <1>2, <2>1, <2>2 DEF CollectorInv, CollectorTypes
<1>5. Counting'
  <2>1. ASSUME starts' <= 1, ~torn'
        PROVE  dispatched' = eventCount' + uncalled'
    <3>0. ~torn
      BY <1>1, <2>1
    <3>1. starts = 0 /\ starts <= 1
      BY <1>1, <1>2, <2>1
    <3>2. uncalled = 0 /\ dispatched = eventCount
      BY <1>1, <3>0, <3>1 DEF CollectorInv, Counting
    <3> QED
      BY <1>1, <3>2 DEF CollectorInv, CollectorTypes
  <2> QED
    BY <1>1, <1>2, <2>1 DEF Counting
<1>6. Looping'
  <2> SUFFICES ASSUME ~overlapped'
               PROVE  /\ collecting' => task' # 0 /\ stopping' = 0
                      /\ \A m \in 1..MaxStarts : wakes'[m] # 0 => m = task' /\ collecting'
    BY DEF Looping
  <2>0. ~overlapped /\ ~(stopping > 0)
    BY <1>1
  <2>1. ~overlapped /\ stopping = 0
    BY <2>0 DEF CollectorInv, CollectorTypes
  <2>2. \A m \in 1..MaxStarts : wakes[m] = 0
    BY <1>1, <2>1 DEF CollectorInv, Looping
  <2> QED
    BY <1>1, <1>2, <1>3, <2>1, <2>2
<1>7. Sampling'
  <2>1. \A m \in 1..MaxStarts : wakes'[m] # 0 => m <= starts'
    <3> SUFFICES ASSUME NEW m \in 1..MaxStarts, wakes'[m] # 0 PROVE m <= starts'
      OBVIOUS
    <3>1. CASE m = starts'
      BY <1>2, <3>1
    <3>2. CASE m # starts'
      <4>1. m <= starts
        BY <1>3, <3>2 DEF CollectorInv, Sampling
      <4> QED
        BY <1>1, <1>2, <4>1
    <3> QED
      BY <3>1, <3>2
  <2>2. starts' <= 1 => samples' = <<>>
    BY <1>1, <1>2 DEF CollectorInv, Sampling
  <2>3. samples' = <<>> => 1..Len(samples') = {}
    OBVIOUS
  <2> QED
    BY <1>2, <2>1, <2>2, <2>3 DEF Sampling, SamplesReachBack
<1> QED
  BY <1>4, <1>5, <1>6, <1>7 DEF CollectorInv

LEMMA StopKeeps ==
  ASSUME CollectorInv, CollectorStop \/ CollectorStopped
  PROVE  CollectorInv'
<1>1. /\ UNCHANGED <<uncalled, eventCount, dispatched, samples, since, starts, overlapped>>
      /\ ~collecting'  \/ collecting' = collecting
  BY DEF CollectorStop, CollectorStopped, countVars, sampleVars
<1>2. /\ wakes \in [1..MaxStarts -> Nat] /\ task \in Nat /\ stopping \in Nat
      /\ uncalled \in Nat /\ eventCount \in Nat /\ dispatched \in Nat
      /\ collecting \in BOOLEAN /\ torn \in BOOLEAN
  BY DEF CollectorInv, CollectorTypes
<1>3. /\ wakes' \in [1..MaxStarts -> Nat]
      /\ \A m \in 1..MaxStarts : wakes'[m] # 0 => wakes'[m] = wakes[m]
  <2>1. wakes' = wakes \/ wakes' = [wakes EXCEPT ![task] = 0]
    BY DEF CollectorStop, CollectorStopped, sampleVars
  <2>2. 0 \in Nat
    OBVIOUS
  <2> QED
    BY <1>2, <2>1, <2>2
<1>4. CollectorTypes'
  <2>1. task' \in Nat /\ stopping' \in Nat
    BY <1>2 DEF CollectorStop, CollectorStopped
  <2>2. torn' \in BOOLEAN /\ collecting' \in BOOLEAN
    BY <1>2 DEF CollectorStop, CollectorStopped
  <2> QED
    BY <1>1, <1>3, <2>1, <2>2 DEF CollectorInv, CollectorTypes
<1>5. Sampling'
  BY <1>1, <1>3 DEF CollectorInv, Sampling, SamplesReachBack
<1>6. CASE CollectorStop
  <2>1. /\ collecting /\ ~collecting' /\ torn' = (torn \/ uncalled > 0)
        /\ task' = task
    BY <1>6 DEF CollectorStop
  <2>2. Counting'
    <3>1. starts # 0
      BY <2>1 DEF CollectorInv, Counting
    <3>2. ASSUME starts <= 1, ~torn'
          PROVE  dispatched' = eventCount'
      <4>0. ~torn /\ ~(uncalled > 0)
        BY <2>1, <3>2
      <4>1. ~torn /\ uncalled = 0
        BY <1>2, <4>0
      <4>2. dispatched = eventCount + uncalled
        BY <2>1, <3>2, <4>1 DEF CollectorInv, Counting
      <4> QED
        BY <1>1, <1>2, <4>1, <4>2
    <3> QED
      BY <1>1, <2>1, <3>1, <3>2 DEF Counting
  <2>3. Looping'
    <3> SUFFICES ASSUME ~overlapped'
                 PROVE  \A m \in 1..MaxStarts : wakes'[m] = 0
      BY <2>1 DEF Looping
    <3> TAKE m \in 1..MaxStarts
    <3>1. task # 0 /\ (wakes[m] # 0 => m = task)
      BY <1>1, <2>1 DEF CollectorInv, Looping
    <3>2. wakes' = [wakes EXCEPT ![task] = 0]
      BY <1>6, <3>1 DEF CollectorStop
    <3> QED
      BY <1>2, <3>1, <3>2
  <2> QED
    BY <1>4, <1>5, <2>2, <2>3 DEF CollectorInv
<1>7. CASE CollectorStopped
  <2>1. /\ stopping > 0 /\ task' = 0 /\ UNCHANGED <<wakes, collecting, torn>>
    BY <1>7 DEF CollectorStopped, sampleVars
  <2>2. Counting'
    BY <1>1, <2>1 DEF CollectorInv, Counting
  <2>3. Looping'
    <3> SUFFICES ASSUME ~overlapped'
                 PROVE  ~collecting' /\ \A m \in 1..MaxStarts : wakes'[m] = 0
      BY DEF Looping
    <3>1. ~overlapped /\ stopping # 0
      BY <1>1, <1>2, <2>1
    <3>2. ~collecting
      BY <3>1 DEF CollectorInv, Looping
    <3> QED
      BY <2>1, <3>1, <3>2 DEF CollectorInv, Looping
  <2> QED
    BY <1>4, <1>5, <2>2, <2>3 DEF CollectorInv
<1> QED
  BY <1>6, <1>7

LEMMA CollectorIdles ==
  ASSUME CollectorInv, UNCHANGED collectorVars
  PROVE  CollectorInv'
BY DEF CollectorInv, CollectorTypes, Counting, Looping, Sampling, SamplesReachBack,
       collectorVars, countVars, sampleVars, lifeVars

LEMMA CollectorTruth ==
  ASSUME CollectorInv
  PROVE  /\ CountsEachOnce /\ OneSampleLoop
         /\ KeepsTheWindow => SamplesReachBack
<1>1. CountsEachOnce
  <2> SUFFICES ASSUME starts <= 1, ~torn, uncalled = 0 PROVE eventCount = dispatched
    BY DEF CountsEachOnce
  <2>1. /\ collecting => dispatched = eventCount + uncalled
        /\ ~collecting => dispatched = eventCount
    BY DEF CollectorInv, Counting
  <2>2. eventCount + uncalled = eventCount
    BY DEF CollectorInv, CollectorTypes
  <2> QED
    BY <2>1, <2>2
<1>2. OneSampleLoop
  <2> SUFFICES ASSUME ~overlapped
               PROVE  Quantify(DOMAIN wakes, LAMBDA n : wakes[n] # 0) <= 1
    BY DEF OneSampleLoop
  <2> DEFINE loops == {n \in DOMAIN wakes : wakes[n] # 0}
  <2>1. Quantify(DOMAIN wakes, LAMBDA n : wakes[n] # 0) = Cardinality(loops)
    BY DEF Quantify
  <2>2. DOMAIN wakes = 1..MaxStarts
    BY DEF CollectorInv, CollectorTypes
  <2>3. loops \subseteq {task}
    BY <2>2 DEF CollectorInv, Looping
  <2>4. loops = {} \/ loops = {task}
    BY <2>3
  <2>5. Cardinality({}) = 0 /\ Cardinality({task}) = 1
    BY FS_EmptySet, FS_Singleton
  <2> HIDE DEF loops
  <2>6. Cardinality(loops) = 0 \/ Cardinality(loops) = 1
    BY <2>4, <2>5
  <2> QED
    BY <2>1, <2>6
<1> QED
  BY <1>1, <1>2 DEF CollectorInv, Sampling

-----------------------------------------------------------------------------
MonitorInv == AlertInv /\ CollectorInv

LEMMA MonitorStarts == MonitoringInit => MonitorInv
BY AlertsStart, CollectorStarts DEF MonitoringInit, MonitorInv

LEMMA CollectorKeeps ==
  ASSUME CollectorInv, NEW now \in Nat, now > 0, CollectorStep(now)
  PROVE  CollectorInv'
<1>1. CASE CollectorEvent \/ Count \/ CollectorMisses
  BY <1>1, EventCounts
<1>2. CASE \E n \in 1..MaxStarts : Sample(n, now)
  BY <1>2, SampleKeeps
<1>3. CASE CollectorStart(now)
  BY <1>3, StartKeeps
<1>4. CASE CollectorStop \/ CollectorStopped
  BY <1>4, StopKeeps
<1> QED
  BY <1>1, <1>2, <1>3, <1>4 DEF CollectorStep

LEMMA MonitorKeeps ==
  MonitorInv /\ [MonitoringNext]_<<alertVars, collectorVars, monitor>> => MonitorInv'
<1> SUFFICES ASSUME MonitorInv, [MonitoringNext]_<<alertVars, collectorVars, monitor>>
             PROVE  AlertInv' /\ CollectorInv'
  BY DEF MonitorInv
<1>1. AlertInv /\ CollectorInv /\ time \in Nat /\ time > 0
  BY DEF MonitorInv, AlertInv, AlertTypes
<1>2. CASE AlertNext /\ UNCHANGED collectorVars
  BY <1>1, <1>2, HandleKeeps, CheckKeeps, RoomKeeps, AlertsElse, CollectorIdles DEF AlertNext
<1>3. CASE CollectorStep(time) /\ UNCHANGED alertVars
  BY <1>1, <1>3, AlertsStay, CollectorKeeps
<1>4. CASE PassTime /\ UNCHANGED collectorVars
  BY <1>1, <1>4, AlertsElse, CollectorIdles
<1>5. CASE UNCHANGED <<alertVars, collectorVars>>
  BY <1>1, <1>5, AlertsStay, CollectorIdles
<1> QED
  BY <1>2, <1>3, <1>4, <1>5 DEF MonitoringNext

LEMMA MonitorHolds == MonitoringSpec => []MonitorInv
BY MonitorStarts, MonitorKeeps, PTL DEF MonitoringSpec

LEMMA AlertsAnswer ==
  ASSUME AlertInv
  PROVE  OneAlertPerCooldown
<1>1. /\ time \in Nat /\ Cooldown \in Nat
      /\ \A type \in AllTypes : lastAlertTime[type] \in Nat /\ issued[type] \in Seq(Nat)
  BY AlertAssumption DEF AlertInv, AlertTypes
<1>2. ASSUME NEW type \in AllTypes
      PROVE  LET apart == IF type = "heartbeat_missed" /\ late THEN 2 ELSE 1
             IN  \A i \in apart + 1..Len(issued[type]) :
                   issued[type][i] - issued[type][i - apart] >= Cooldown
  <2>1. Spaced(type)
    BY DEF AlertInv
  <2>2. CASE type = "heartbeat_missed" /\ late
    <3>1. \A i \in 3..Len(issued[type]) : issued[type][i] - issued[type][i - 2] >= Cooldown
      BY <2>1 DEF Spaced
    <3>2. 2 + 1 = 3
      OBVIOUS
    <3> QED
      BY <2>2, <3>1, <3>2
  <2>3. CASE ~(type = "heartbeat_missed" /\ late)
    <3>1. \A i \in 2..Len(issued[type]) : issued[type][i] - issued[type][i - 1] >= Cooldown
      BY <2>1, <2>3 DEF Spaced, Late
    <3>2. 1 + 1 = 2
      OBVIOUS
    <3> QED
      BY <2>3, <3>1, <3>2
  <2> QED
    BY <2>2, <2>3
<1>3. ASSUME NEW type \in AllTypes \ lost, ~CooldownOver(type), ~(time < Cooldown)
      PROVE  /\ issued[type] # <<>>
             /\ time - issued[type][Len(issued[type])] < Cooldown
  <2>1. Answered(type) /\ type \notin lost
    BY DEF AlertInv
  <2>2. lastAlertTime[type] # 0
    BY <1>1, <1>3 DEF CooldownOver
  <2>3. issued[type] # <<>> /\ issued[type][Len(issued[type])] >= lastAlertTime[type]
    BY <2>1, <2>2 DEF Answered
  <2>4. Len(issued[type]) \in 1..Len(issued[type])
    BY <1>1, <2>3
  <2>5. issued[type][Len(issued[type])] \in Nat
    BY <1>1, <2>4
  <2> QED
    BY <1>1, <1>3, <2>3, <2>5 DEF CooldownOver
<1> QED
  BY <1>2, <1>3 DEF OneAlertPerCooldown, DuplicatesSuppressed, SuppressesOnlyDuplicates

(* For any types of alerts, cooldown, timeout and moments of heartbeats,   *)
(* through full queues, stops and restarts: alerts of a type are a         *)
(* cooldown apart, and suppressed only as duplicates.                      *)
THEOREM AlertsOncePerCooldown == MonitoringSpec => []OneAlertPerCooldown
<1>1. MonitorInv => OneAlertPerCooldown
  BY AlertsAnswer DEF MonitorInv
<1> QED
  BY <1>1, MonitorHolds, PTL

(* Whatever the rounds of the loop meet, an outage is reported once, and   *)
(* one noted as alerted was reported, unless a cooldown muffled it or the  *)
(* alert had to wait.                                                      *)
THEOREM MissesReportedOnce == MonitoringSpec => []EachMissReportedOnce
<1>1. MonitorInv => EachMissReportedOnce
  BY DEF MonitorInv, AlertInv, Reported, EachMissReportedOnce
<1> QED
  BY <1>1, MonitorHolds, PTL

(* Each event is counted once and one loop samples, however start(),       *)
(* stop() and the dispatch of events interleave, as far as they promise.   *)
THEOREM CollectorCounts == MonitoringSpec => [](CountsEachOnce /\ OneSampleLoop)
<1>1. MonitorInv => CountsEachOnce /\ OneSampleLoop
  BY CollectorTruth DEF MonitorInv
<1> QED
  BY <1>1, MonitorHolds, PTL

(* If what a cut keeps covers the window of the rate, the samples always   *)
(* do: all a snapshot is computed from is sound, for any limit and window. *)
THEOREM SnapshotsTrue ==
  ASSUME KeepsTheWindow
  PROVE  MonitoringSpec => []SnapshotTrue
<1>1. MonitorInv => SnapshotTrue
  BY CollectorTruth DEF MonitorInv, SnapshotTrue
<1> QED
  BY <1>1, MonitorHolds, PTL
===============================================================================
