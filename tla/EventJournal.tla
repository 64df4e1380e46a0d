---------------------------- MODULE EventJournal ----------------------------
(***************************************************************************)
(* EventJournal of src/edrader/events/journal.py: append() numbers an      *)
(* event and buffers it; a full buffer is handed to a worker thread, which *)
(* inserts it into the table in one transaction while other tasks go on    *)
(* appending.  replay(), count() and last_sequence first make sure, in     *)
(* threads of their own and without a lock, that the numbering continues   *)
(* from the table.                                                         *)
(***************************************************************************)
EXTENDS Naturals, SequencesExt, FiniteSetsExt, TLC

CONSTANTS Events,       (* the events to append, each once                      *)
          Appenders,    (* tasks that call append(): the dispatcher, or several *)
          Readers,      (* threads that run _ensure_sequence_sync               *)
          BatchSize,    (* batch_size                                           *)
          MayFail,      (* whether an insert or the query may fail              *)
          MayCancel,    (* whether an append() may be timed out as it waits     *)
          MaxRestarts   (* bound: how often the process ends and starts again   *)

ASSUME JournalAssumption ==
  /\ BatchSize \in Nat
  /\ MayFail \in BOOLEAN /\ MayCancel \in BOOLEAN
  /\ MaxRestarts \in Nat

VARIABLES
  sequence,     (* EventJournal._sequence                                       *)
  initialized,  (* EventJournal._initialized                                    *)
  buffer,       (* EventJournal._buffer                                         *)
  table,        (* the committed rows of event_journal                          *)
  writes,       (* batches handed to worker threads and not finished            *)
  waiting,      (* appender -> the batch its append() awaits, empty if none     *)
  reader,       (* reader -> where it is in _ensure_sequence_sync               *)
  lastSeen,     (* reader -> the last number its query found, 0 for none        *)
  log,          (* history: the events appended, in order                       *)
  unread,       (* history: a process appended before a first read, or with one *)
                (* under way                                                    *)
  failed,       (* history: events of batches whose insert failed               *)
  dropped,      (* history: events lost with a cancellation or the process      *)
  restarts      (* history: how often the process ended                         *)

appendVars == <<sequence, buffer, log, unread>>
readVars == <<reader, lastSeen>>
vars == <<appendVars, readVars, initialized, table, writes, waiting, failed,
          dropped, restarts>>

Init ==
  /\ sequence = 0
  /\ initialized = FALSE
  /\ buffer = <<>>
  /\ table = {}
  /\ writes = {}
  /\ waiting = [a \in Appenders |-> <<>>]
  /\ reader = [r \in Readers |-> "idle"]
  /\ lastSeen = [r \in Readers |-> 0]
  /\ log = <<>>
  /\ unread = FALSE
  /\ failed = {}
  /\ dropped = {}
  /\ restarts = 0

-----------------------------------------------------------------------------
Elements(s) == {s[i] : i \in DOMAIN s}
EventsOf(rows) == {r.event : r \in rows}

(* A reader that found the flag unset has the number still to assign.      *)
Reading == \E r \in Readers : reader[r] \in {"checked", "queried"}

(* append(), up to its await or, when the batch is not full, to its end.   *)
AppendEvent(a, e) ==
  LET batch == Append(buffer, [sequence |-> sequence + 1, event |-> e])
  IN /\ waiting[a] = <<>>
     /\ e \notin Elements(log)
     /\ sequence' = sequence + 1
     /\ log' = Append(log, e)
     /\ unread' = (unread \/ ~initialized \/ Reading)
     /\ IF BatchSize > 0 /\ Len(batch) >= BatchSize
        THEN /\ buffer' = <<>>
             /\ writes' = writes \cup {batch}
             /\ waiting' = [waiting EXCEPT ![a] = batch]
        ELSE /\ buffer' = batch
             /\ UNCHANGED <<writes, waiting>>
     /\ UNCHANGED <<initialized, table, readVars, failed, dropped, restarts>>

(* The thread of batch b commits, or its insert fails and with it the      *)
(* batch, which nobody keeps.                                              *)
Commit(b) ==
  /\ b \in writes
  /\ table' = table \cup Elements(b)
  /\ writes' = writes \ {b}
  /\ UNCHANGED <<appendVars, initialized, waiting, readVars, failed,
                 dropped, restarts>>

WriteFails(b) ==
  /\ MayFail
  /\ b \in writes
  /\ failed' = failed \cup EventsOf(Elements(b))
  /\ writes' = writes \ {b}
  /\ UNCHANGED <<appendVars, initialized, table, waiting, readVars, dropped, restarts>>

(* append() is resumed after its thread and returns or raises what the     *)
(* thread raised.  (It returns the counter as it is now: nobody uses it.)  *)
AppendEnds(a) ==
  /\ waiting[a] # <<>>
  /\ waiting[a] \notin writes
  /\ waiting' = [waiting EXCEPT ![a] = <<>>]
  /\ UNCHANGED <<appendVars, initialized, table, writes, readVars, failed,
                 dropped, restarts>>

(* A subscriber timeout cancels append() as it waits.  A thread that has   *)
(* begun goes on; a batch no thread has taken up yet is never written.     *)
AppendCancelled(a) ==
  /\ MayCancel
  /\ waiting[a] # <<>>
  /\ waiting' = [waiting EXCEPT ![a] = <<>>]
  /\ \/ UNCHANGED <<writes, dropped>>
     \/ /\ waiting[a] \in writes
        /\ writes' = writes \ {waiting[a]}
        /\ dropped' = dropped \cup EventsOf(Elements(waiting[a]))
  /\ UNCHANGED <<appendVars, initialized, table, readVars, failed,
                 restarts>>

-----------------------------------------------------------------------------
(* Mutant: the buffer is not replaced when it is handed to the thread.     *)
FlushKeepsBuffer ==
  /\ buffer # <<>>
  /\ writes' = writes \cup {buffer}
  /\ UNCHANGED <<appendVars, initialized, table, waiting, readVars, failed, dropped, restarts>>

(* flush(), whose caller waits for the thread.                             *)
Flush ==
  /\ buffer # <<>>
  /\ buffer' = <<>>
  /\ writes' = writes \cup {buffer}
  /\ UNCHANGED <<sequence, log, unread, initialized, table, waiting, readVars,
                 failed, dropped, restarts>>

(* close() writes the rest on the event loop's own thread; when that fails *)
(* it raises, and the buffer stays.                                        *)
Close ==
  /\ buffer # <<>>
  /\ buffer' = <<>>
  /\ table' = table \cup Elements(buffer)
  /\ UNCHANGED <<sequence, log, unread, initialized, writes, waiting, readVars,
                 failed, dropped, restarts>>

-----------------------------------------------------------------------------
(* Mutant: the numbering continues from the number of rows.                *)
RowCount == Cardinality(table)

(* What "order by sequence desc, first" finds, 0 for an empty table.       *)
LastRow == IF table = {} THEN 0 ELSE Max({r.sequence : r \in table})

(* _ensure_sequence_sync, in the thread of reader r: the check of the      *)
(* flag, the query, which may raise, the assignment unless the table was   *)
(* empty, the flag.                                                        *)
EnsureCheck(r) ==
  /\ reader[r] = "idle" /\ ~initialized
  /\ reader' = [reader EXCEPT ![r] = "checked"]
  /\ UNCHANGED <<appendVars, lastSeen, initialized, table, writes, waiting,
                 failed, dropped, restarts>>

EnsureQuery(r) ==
  /\ reader[r] = "checked"
  /\ reader' = [reader EXCEPT ![r] = "queried"]
  /\ lastSeen' = [lastSeen EXCEPT ![r] = LastRow]
  /\ UNCHANGED <<appendVars, initialized, table, writes, waiting, failed,
                 dropped, restarts>>

EnsureFails(r) ==
  /\ MayFail
  /\ reader[r] = "checked"
  /\ reader' = [reader EXCEPT ![r] = "idle"]
  /\ UNCHANGED <<appendVars, lastSeen, initialized, table, writes, waiting,
                 failed, dropped, restarts>>

EnsureAssign(r) ==
  /\ reader[r] = "queried"
  /\ reader' = [reader EXCEPT ![r] = "assigned"]
  /\ sequence' = IF lastSeen[r] > 0 THEN lastSeen[r] ELSE sequence
  /\ lastSeen' = [lastSeen EXCEPT ![r] = 0]
  /\ UNCHANGED <<buffer, log, unread, initialized, table, writes, waiting,
                 failed, dropped, restarts>>

EnsureDone(r) ==
  /\ reader[r] = "assigned"
  /\ reader' = [reader EXCEPT ![r] = "idle"]
  /\ initialized' = TRUE
  /\ UNCHANGED <<appendVars, lastSeen, table, writes, waiting, failed,
                 dropped, restarts>>

(* The process ends, whatever it was doing, and a new one opens the table. *)
Restart ==
  /\ restarts < MaxRestarts
  /\ restarts' = restarts + 1
  /\ dropped' = dropped \cup EventsOf(Elements(buffer))
                  \cup UNION {EventsOf(Elements(b)) : b \in writes}
  /\ sequence' = 0
  /\ initialized' = FALSE
  /\ buffer' = <<>>
  /\ writes' = {}
  /\ waiting' = [a \in Appenders |-> <<>>]
  /\ reader' = [r \in Readers |-> "idle"]
  /\ lastSeen' = [r \in Readers |-> 0]
  /\ UNCHANGED <<log, unread, table, failed>>

Next ==
  \/ \E a \in Appenders :
       \/ \E e \in Events : AppendEvent(a, e)
       \/ AppendEnds(a) \/ AppendCancelled(a)
  \/ \E b \in writes : Commit(b) \/ WriteFails(b)
  \/ Flush \/ Close
  \/ \E r \in Readers :
       \/ EnsureCheck(r) \/ EnsureQuery(r) \/ EnsureFails(r)
       \/ EnsureAssign(r) \/ EnsureDone(r)
  \/ Restart

Spec == Init /\ [][Next]_vars

(* Symmetry of an instance: events, tasks and threads are told apart by    *)
(* nothing.                                                                *)
Alike ==
  Permutations(Events) \cup Permutations(Appenders) \cup Permutations(Readers)

-----------------------------------------------------------------------------
(* Properties.                                                             *)

(* Of two events in the table, the one appended first has the smaller      *)
(* sequence, whichever thread committed first, whatever was lost in        *)
(* between and however often the process was restarted: replay() returns   *)
(* events in the order they were appended in.  The numbering depends on a  *)
(* first read that ends before the first append of every process, and on   *)
(* no other one that began beside it and assigns its number later: nothing *)
(* guarantees either.                                                      *)
ReplayInAppendOrder ==
  ~unread =>
    \A r1, r2 \in table :
      \A i, j \in DOMAIN log :
        log[i] = r1.event /\ log[j] = r2.event /\ i < j => r1.sequence < r2.sequence

(* Every event appended is in exactly one place: the buffer, one batch     *)
(* under way, the table, or a batch that was reported lost.                *)
PlacesOf(e) ==
  {<<"buffer", i>> : i \in {j \in DOMAIN buffer : buffer[j].event = e}}
    \cup {<<"write", b>> : b \in {c \in writes : e \in EventsOf(Elements(c))}}
    \cup {<<"row", r>> : r \in {q \in table : q.event = e}}
    \cup (IF e \in failed THEN {<<"failed", e>>} ELSE {})
    \cup (IF e \in dropped THEN {<<"dropped", e>>} ELSE {})
InOnePlace == \A e \in Elements(log) : Cardinality(PlacesOf(e)) = 1
=============================================================================
