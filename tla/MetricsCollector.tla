--------------------------- MODULE MetricsCollector ---------------------------
(***************************************************************************)
(* MetricsCollector of src/edrader/monitoring/metrics.py: it counts the    *)
(* events the bus dispatches and notes the count in a loop of its own.     *)
(* Each start() subscribes another handler to all events, and stop() takes *)
(* none of them back. The bus calls the handlers of an event one by one,   *)
(* so start() and stop() may come between them; in sync_mode other events  *)
(* do too.                                                                 *)
(***************************************************************************)
EXTENDS Naturals, SequencesExt, FiniteSetsExt

CONSTANTS SampleInterval,  (* sample_interval                              *)
          SampleLimit,     (* 120: more samples than these are cut back    *)
          SampleKeep,      (* 60: to the last of them                      *)
          RateWindow,      (* 60.0: the seconds throughput_1m looks back   *)
          MaxStarts,       (* bound: how often it is started               *)
          MaxEvents        (* bound: events the bus dispatches             *)

ASSUME CollectorAssumption ==
  /\ SampleInterval \in Nat \ {0} /\ RateWindow \in Nat
  /\ SampleKeep \in 1..SampleLimit /\ SampleLimit \in Nat
  /\ MaxStarts \in Nat /\ MaxEvents \in Nat

VARIABLES
  collecting,  (* _running and _active, which change together                *)
  starts,      (* start() calls, each of which has left a handler on the bus *)
  uncalled,    (* calls of them that the events in dispatch have yet to make *)
  eventCount,  (* _event_count                                               *)
  wakes,       (* start -> when its sample loop wakes; 0 if it has ended     *)
  task,        (* _task: the start that made it, 0 for None                  *)
  stopping,    (* stop() calls that await a loop they cancelled              *)
  samples,     (* _samples: their times                                      *)
  since,       (* history: the time of the first sample                      *)
  dispatched,  (* history: events dispatched while collecting                *)
  torn,        (* history: started or stopped with an event in dispatch, or  *)
               (* a dispatch was cut off                                     *)
  overlapped   (* history: started while a stop() awaited its loop           *)

countVars  == <<uncalled, eventCount, dispatched>>
sampleVars == <<wakes, samples, since>>
lifeVars   == <<collecting, starts, task, stopping, torn, overlapped>>
collectorVars == <<countVars, sampleVars, lifeVars>>

CollectorInit ==
  /\ collecting = FALSE
  /\ starts = 0
  /\ uncalled = 0
  /\ eventCount = 0
  /\ wakes = [n \in 1..MaxStarts |-> 0]
  /\ task = 0
  /\ stopping = 0
  /\ samples = <<>>
  /\ since = 0
  /\ dispatched = 0
  /\ torn = FALSE
  /\ overlapped = FALSE

-----------------------------------------------------------------------------
(* The bus takes an event and begins to call its handlers.                 *)
CollectorEvent ==
  /\ uncalled + eventCount < MaxEvents /\ dispatched < MaxEvents
  /\ uncalled' = uncalled + starts
  /\ dispatched' = IF collecting THEN dispatched + 1 ELSE dispatched
  /\ UNCHANGED <<eventCount, sampleVars, lifeVars>>

(* Mutant: the handlers do not look at _active.                            *)
CountWhenStopped ==
  /\ uncalled > 0
  /\ uncalled' = uncalled - 1
  /\ eventCount' = eventCount + 1
  /\ UNCHANGED <<dispatched, sampleVars, lifeVars>>

(* The next of them: an old one counts as well once there is a new one.    *)
Count ==
  /\ uncalled > 0
  /\ uncalled' = uncalled - 1
  /\ eventCount' = IF collecting THEN eventCount + 1 ELSE eventCount
  /\ UNCHANGED <<dispatched, sampleVars, lifeVars>>

(* A dispatch inside another ends with the timeout around it, or with the  *)
(* task it is in.                                                          *)
CollectorMisses ==
  /\ uncalled > 0
  /\ uncalled' \in 0..uncalled - 1
  /\ torn' = TRUE
  /\ UNCHANGED <<eventCount, dispatched, sampleVars, collecting, starts, task,
                 stopping, overlapped>>

-----------------------------------------------------------------------------
(* Mutant: the cut leaves one sample less.                                 *)
TrimOneMore(s) ==
  IF Len(s) > SampleLimit THEN SubSeq(s, Len(s) - SampleKeep + 2, Len(s)) ELSE s

Trim(s) ==
  IF Len(s) > SampleLimit THEN SubSeq(s, Len(s) - SampleKeep + 1, Len(s)) ELSE s

(* One round of the sample loop that start n made, or its end.             *)
Sample(n, now) ==
  /\ wakes[n] # 0 /\ now >= wakes[n]
  /\ IF collecting
     THEN /\ samples' = Trim(Append(samples, now))
          /\ since' = IF samples = <<>> THEN now ELSE since
          /\ wakes' = [wakes EXCEPT ![n] = now + SampleInterval]
     ELSE wakes' = [wakes EXCEPT ![n] = 0] /\ UNCHANGED <<samples, since>>
  /\ UNCHANGED <<countVars, lifeVars>>

CollectorStart(now) ==
  /\ ~collecting
  /\ starts < MaxStarts
  /\ collecting' = TRUE
  /\ starts' = starts + 1
  /\ task' = starts'
  /\ wakes' = [wakes EXCEPT ![starts'] = now]
  /\ torn' = (torn \/ uncalled > 0)
  /\ overlapped' = (overlapped \/ stopping > 0)
  /\ UNCHANGED <<countVars, samples, since, stopping>>

(* Mutant: stop() leaves the loop to end by itself.                        *)
CollectorStopWithoutCancel ==
  /\ collecting
  /\ collecting' = FALSE
  /\ stopping' = stopping + 1
  /\ torn' = (torn \/ uncalled > 0)
  /\ UNCHANGED <<countVars, wakes, samples, starts, task, since, overlapped>>

(* stop(), which cancels the loop, if _task is one, and awaits its end.    *)
CollectorStop ==
  /\ collecting
  /\ collecting' = FALSE
  /\ IF task = 0
     THEN UNCHANGED <<wakes, stopping>>
     ELSE wakes' = [wakes EXCEPT ![task] = 0] /\ stopping' = stopping + 1
  /\ torn' = (torn \/ uncalled > 0)
  /\ UNCHANGED <<countVars, samples, starts, task, since, overlapped>>

(* It has ended: _task is None, whatever task start() has put there.       *)
CollectorStopped ==
  /\ stopping > 0
  /\ stopping' = stopping - 1
  /\ task' = 0
  /\ UNCHANGED <<countVars, sampleVars, collecting, starts, torn, overlapped>>

CollectorStep(now) ==
  \/ CollectorEvent \/ Count \/ CollectorMisses
  \/ \E n \in 1..MaxStarts : Sample(n, now)
  \/ CollectorStart(now) \/ CollectorStop \/ CollectorStopped

-----------------------------------------------------------------------------
(* Properties.                                                             *)

(* total_published is the number of events dispatched while the collector  *)
(* ran, as long as it was started once (a second start counts each event   *)
(* twice), no event was in dispatch when it was started or stopped, and no *)
(* dispatch was cut off.                                                   *)
CountsEachOnce ==
  starts <= 1 /\ ~torn /\ uncalled = 0 => eventCount = dispatched

(* However often it is started and stopped there is one sample loop, unless *)
(* a start() came while a stop() still awaited the loop before.            *)
OneSampleLoop ==
  ~overlapped => Quantify(DOMAIN wakes, LAMBDA n : wakes[n] # 0) <= 1

(* What is cut from the samples is not missed by throughput_1m: they reach *)
(* back to the first one, or to an interval less than a minute.            *)
SamplesReachBack ==
  starts <= 1 /\ samples # <<>> =>
    \/ Head(samples) = since
    \/ Last(samples) - Head(samples) + SampleInterval >= RateWindow

(* What snapshot() is computed from is sound: one count of each event, and *)
(* samples of one loop that reach back as far as the rate says.            *)
SnapshotTrue == CountsEachOnce /\ OneSampleLoop /\ SamplesReachBack
=============================================================================
