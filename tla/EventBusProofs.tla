--------------------------- MODULE EventBusProofs ---------------------------
(***************************************************************************)
(* Proofs about EventBus, for any events, tasks, subscribers and capacity. *)
(* The inductive invariant IInv has one part per concern; each part is     *)
(* shown to be preserved from the parts before it.                         *)
(***************************************************************************)
EXTENDS EventBus, FiniteSetTheorems, TLAPS

Waits == {"high_wait", "normal_wait"}

(* A lane holds distinct events of its own.                                *)
LaneInv ==
  \A l \in Lanes :
    /\ \A i \in DOMAIN queue[l] : LaneOf(queue[l][i]) = l
    /\ \A i, j \in DOMAIN queue[l] : queue[l][i] = queue[l][j] => i = j

(* A task that waits for room, or was told of it, has an event to put; it  *)
(* waits in one place only.                                                *)
PutInv ==
  /\ \A t \in woken : offer[t] # None
  /\ \A l \in Lanes : \A i \in DOMAIN putters[l] :
       /\ offer[putters[l][i]] # None
       /\ LaneOf(offer[putters[l][i]]) = l
       /\ putters[l][i] \notin woken
  /\ \A l \in Lanes : \A i, j \in DOMAIN putters[l] :
       putters[l][i] = putters[l][j] => i = j

(* The dispatcher has an event in hand, and handlers to call, only while   *)
(* it dispatches one.                                                      *)
DispatchInv ==
  /\ cur = None <=> dispatcher # "dispatch"
  /\ cur # None => lastSource = LaneOf(cur)
  /\ active # None => cur # None
  /\ cur = None => todo = {}
  /\ ~running => dispatcher = "off"

(* An event is in one place at a time: not published, offered by one task, *)
(* queued, or taken by the dispatcher.                                     *)
Taken == completed \cup abandoned \cup {cur}
EventInv ==
  /\ fresh \cap Taken = {}
  /\ \A t \in Tasks : offer[t] # None => offer[t] \notin fresh \cup Taken
  /\ \A t, u \in Tasks : offer[t] = offer[u] /\ t # u => offer[t] = None
  /\ \A l \in Lanes : \A i \in DOMAIN queue[l] :
       /\ queue[l][i] \notin fresh \cup Taken
       /\ \A t \in Tasks : offer[t] # queue[l][i]
  /\ cur \notin completed \cup abandoned

(* What a subscriber has been called with, and what it still is due.       *)
FanInv ==
  /\ \A e \in Events, h \in Handlers :
       /\ calls[h][e] <= 1
       /\ calls[h][e] = 1 => h \in owed[e]
       /\ e \notin Taken => calls[h][e] = 0
       /\ e \in completed /\ h \in owed[e] => calls[h][e] = 1
       /\ e = cur => (h \in todo <=> h \in owed[e] /\ calls[h][e] = 0)

(* The overtake counted is one of an event that still waits, and the       *)
(* dispatcher does not wait again before it has taken that event.          *)
InversionInv ==
  /\ overtakes \in {0, 1}
  /\ overtakes = 1 => queue["high"] # <<>> /\ dispatcher \notin Waits

AccountInv == IsFiniteSet(abandoned) /\ UnfinishedAccounting

(* What drain() promised is acknowledged, or keeps its lane waited for.    *)
DrainInv ==
  drain # None =>
    \A e \in promised \ completed :
      /\ LaneOf(e) \in drain
      /\ \/ e \in abandoned \cup {cur}
         \/ \E l \in Lanes : e \in ToSet(queue[l])

IInv ==
  /\ TypeOK /\ LaneInv /\ PutInv /\ DispatchInv /\ EventInv /\ FanInv
  /\ InversionInv /\ AccountInv /\ DrainInv

-----------------------------------------------------------------------------
(* Sequences.                                                              *)

(* Removing an element from a sequence of distinct elements.               *)
LEMMA WithoutProperties ==
  ASSUME NEW S, NEW s \in Seq(S), NEW x,
         \A i, j \in DOMAIN s : s[i] = s[j] => i = j
  PROVE  /\ Without(s, x) \in Seq(S)
         /\ \A i \in DOMAIN Without(s, x) :
              Without(s, x)[i] # x /\ \E j \in DOMAIN s : Without(s, x)[i] = s[j]
         /\ \A i, j \in DOMAIN Without(s, x) :
              Without(s, x)[i] = Without(s, x)[j] => i = j
<1>1. CASE x \notin ToSet(s)
  BY <1>1 DEF Without, ToSet
<1>2. CASE x \in ToSet(s)
  <2> DEFINE k == IndexOf(s, x)
             w == RemoveAt(s, k)
  <2>1. k \in 1..Len(s) /\ s[k] = x
    BY <1>2 DEF ToSet, IndexOf
  <2> HIDE DEF k
  <2>2. /\ w \in Seq(S)
        /\ Len(w) = Len(s) - 1
        /\ \A i \in 1..Len(w) : w[i] = s[IF i < k THEN i ELSE i + 1]
    <3> DEFINE a == SubSeq(s, 1, k - 1)
               b == SubSeq(s, k + 1, Len(s))
    <3>1. /\ a \in Seq(S) /\ Len(a) = k - 1
          /\ \A i \in 1..(k - 1) : a[i] = s[i]
      BY <2>1
    <3>2. /\ b \in Seq(S) /\ Len(b) = Len(s) - k
          /\ \A i \in 1..(Len(s) - k) : b[i] = s[k + i]
      BY <2>1
    <3>3. w = a \o b
      BY DEF RemoveAt
    <3> HIDE DEF a, b, w
    <3>4. /\ w \in Seq(S) /\ Len(w) = Len(s) - 1
          /\ \A i \in 1..Len(w) : w[i] = IF i <= k - 1 THEN a[i] ELSE b[i - (k - 1)]
      <4>1. w \in Seq(S) /\ Len(w) = Len(a) + Len(b)
        BY <3>1, <3>2, <3>3
      <4>2. \A i \in 1..(Len(a) + Len(b)) :
              w[i] = IF i <= Len(a) THEN a[i] ELSE b[i - Len(a)]
        BY <3>1, <3>2, <3>3
      <4>3. Len(a) + Len(b) = Len(s) - 1
        BY <2>1, <3>1, <3>2
      <4> QED
        BY <3>1, <4>1, <4>2, <4>3
    <3>5. ASSUME NEW i \in 1..Len(w)
          PROVE  w[i] = s[IF i < k THEN i ELSE i + 1]
      <4>1. CASE i < k
        BY <2>1, <3>1, <3>4, <4>1
      <4>2. CASE ~(i < k)
        BY <2>1, <3>2, <3>4, <4>2
      <4> QED
        BY <4>1, <4>2
    <3> QED
      BY <3>4, <3>5
  <2>3. Without(s, x) = w
    BY <1>2 DEF Without, k
  <2> HIDE DEF w
  <2> DEFINE old(i) == IF i < k THEN i ELSE i + 1
  <2>4. ASSUME NEW i \in 1..Len(w)
        PROVE  /\ old(i) \in DOMAIN s /\ old(i) # k
               /\ w[i] = s[old(i)]
    BY <2>1, <2>2
  <2>5. ASSUME NEW i \in 1..Len(w)
        PROVE  w[i] # x /\ \E j \in DOMAIN s : w[i] = s[j]
    <3> HIDE DEF old
    <3>1. k \in DOMAIN s
      BY <2>1
    <3> QED
      BY <2>1, <2>4, <3>1
  <2>6. ASSUME NEW i \in 1..Len(w), NEW j \in 1..Len(w), w[i] = w[j]
        PROVE  i = j
    <3>1. old(i) = old(j)
      <4> HIDE DEF old
      <4> QED
        BY <2>4, <2>6
    <3> QED
      BY <2>1, <2>2, <3>1
  <2> QED
    BY <2>2, <2>3, <2>5, <2>6
<1> QED
  BY <1>1, <1>2

(* Appending an element that is not there.                                 *)
LEMMA AppendDistinct ==
  ASSUME NEW S, NEW s \in Seq(S), NEW x \in S,
         \A i \in DOMAIN s : s[i] # x,
         \A i, j \in DOMAIN s : s[i] = s[j] => i = j
  PROVE  /\ Append(s, x) \in Seq(S)
         /\ Len(Append(s, x)) = Len(s) + 1
         /\ Append(s, x) # <<>>
         /\ \A i \in DOMAIN Append(s, x) :
              Append(s, x)[i] = x \/ \E j \in DOMAIN s : Append(s, x)[i] = s[j]
         /\ \A j \in DOMAIN s : \E i \in DOMAIN Append(s, x) : Append(s, x)[i] = s[j]
         /\ \E i \in DOMAIN Append(s, x) : Append(s, x)[i] = x
         /\ \A i, j \in DOMAIN Append(s, x) :
              Append(s, x)[i] = Append(s, x)[j] => i = j
<1> DEFINE w == Append(s, x)
<1>1. /\ w \in Seq(S) /\ Len(w) = Len(s) + 1 /\ w # <<>>
      /\ \A i \in 1..Len(s) : w[i] = s[i]
      /\ w[Len(s) + 1] = x
  OBVIOUS
<1> HIDE DEF w
<1>2. Len(s) \in Nat /\ DOMAIN s = 1..Len(s) /\ DOMAIN w = 1..(Len(s) + 1)
  BY <1>1
<1>3. \A i \in DOMAIN w : w[i] = x \/ \E j \in DOMAIN s : w[i] = s[j]
  BY <1>1, <1>2
<1>4. ASSUME NEW i \in DOMAIN w, NEW j \in DOMAIN w, w[i] = w[j]
      PROVE  i = j
  <2>1. CASE i = Len(s) + 1
    BY <1>1, <1>2, <1>4, <2>1
  <2>2. CASE i # Len(s) + 1 /\ j = Len(s) + 1
    BY <1>1, <1>2, <1>4, <2>2
  <2>3. CASE i # Len(s) + 1 /\ j # Len(s) + 1
    BY <1>1, <1>2, <1>4, <2>3
  <2> QED
    BY <2>1, <2>2, <2>3
<1>5. \A j \in DOMAIN s : \E i \in DOMAIN w : w[i] = s[j]
  BY <1>1, <1>2
<1>6. \E i \in DOMAIN w : w[i] = x
  BY <1>1, <1>2
<1> QED
  BY <1>1, <1>3, <1>4, <1>5, <1>6 DEF w

(* Taking the head off.                                                    *)
LEMMA TailDistinct ==
  ASSUME NEW S, NEW s \in Seq(S), s # <<>>,
         \A i, j \in DOMAIN s : s[i] = s[j] => i = j
  PROVE  /\ Head(s) \in S /\ Tail(s) \in Seq(S)
         /\ 1 \in DOMAIN s /\ Head(s) = s[1]
         /\ Len(Tail(s)) = Len(s) - 1
         /\ \A i \in DOMAIN Tail(s) :
              Tail(s)[i] # Head(s) /\ \E j \in DOMAIN s : Tail(s)[i] = s[j]
         /\ \A j \in DOMAIN s :
              s[j] = Head(s) \/ \E i \in DOMAIN Tail(s) : Tail(s)[i] = s[j]
         /\ \A i, j \in DOMAIN Tail(s) : Tail(s)[i] = Tail(s)[j] => i = j
<1> DEFINE w == Tail(s)
<1>1. /\ w \in Seq(S) /\ Len(w) = Len(s) - 1
      /\ \A i \in 1..(Len(s) - 1) : w[i] = s[i + 1]
  OBVIOUS
<1>2. Head(s) \in S /\ 1 \in DOMAIN s /\ Head(s) = s[1] /\ Len(s) \in Nat \ {0}
  OBVIOUS
<1> HIDE DEF w
<1>3. DOMAIN s = 1..Len(s) /\ DOMAIN w = 1..(Len(s) - 1)
  BY <1>1, <1>2
<1>4. ASSUME NEW i \in DOMAIN w
      PROVE  w[i] # Head(s) /\ \E j \in DOMAIN s : w[i] = s[j]
  <2>1. i + 1 \in DOMAIN s /\ i + 1 # 1 /\ w[i] = s[i + 1]
    BY <1>1, <1>2, <1>3
  <2> QED
    BY <1>2, <2>1
<1>5. ASSUME NEW i \in DOMAIN w, NEW j \in DOMAIN w, w[i] = w[j]
      PROVE  i = j
  <2>1. i + 1 \in DOMAIN s /\ j + 1 \in DOMAIN s /\ s[i + 1] = s[j + 1]
    BY <1>1, <1>2, <1>3, <1>5
  <2>2. i + 1 = j + 1
    BY <2>1
  <2> QED
    BY <1>2, <1>3, <2>2
<1>6. ASSUME NEW j \in DOMAIN s, s[j] # Head(s)
      PROVE  \E i \in DOMAIN w : w[i] = s[j]
  <2>1. j - 1 \in DOMAIN w /\ w[j - 1] = s[j]
    BY <1>1, <1>2, <1>3, <1>6
  <2> QED
    BY <2>1
<1> QED
  BY <1>1, <1>2, <1>4, <1>5, <1>6 DEF w

-----------------------------------------------------------------------------
(* The three operations on the lanes.                                      *)

QueueTyped ==
  /\ queue \in [Lanes -> Seq(Events)]
  /\ unfinished \in [Lanes -> Nat]
  /\ putters \in [Lanes -> Seq(Tasks)]
  /\ woken \subseteq Tasks
  /\ offer \in [Tasks -> Events \cup {None}]
  /\ fresh \subseteq Events

(* An event has one of the two lanes.                                      *)
LEMMA LaneOfType == ASSUME NEW e PROVE LaneOf(e) \in Lanes
  BY DEF LaneOf, Lanes

(* put(): what the lanes hold stays consistent when a task that waits      *)
(* nowhere puts an event that is nowhere else.                             *)
LEMMA EnqueueProperties ==
  ASSUME QueueTyped, LaneInv, PutInv, EventInv,
         NEW t \in Tasks, NEW e \in Events, Enqueue(t, e),
         \A l \in Lanes : \A i \in DOMAIN putters[l] : putters[l][i] # t,
         \A l \in Lanes : \A i \in DOMAIN queue[l] : queue[l][i] # e,
         \A u \in Tasks \ {t} : offer[u] # e,
         e \notin Taken,
         woken' = woken \ {t}, fresh' = fresh \ {e},
         UNCHANGED <<cur, completed, abandoned>>
  PROVE  /\ QueueTyped' /\ LaneInv' /\ PutInv' /\ EventInv'
         /\ \A l \in Lanes : unfinished'[l] - Len(queue'[l])
                             = unfinished[l] - Len(queue[l])
         /\ \A l \in Lanes : ToSet(queue[l]) \subseteq ToSet(queue'[l])
         /\ queue["high"] # <<>> => queue'["high"] # <<>>
<1> DEFINE l == LaneOf(e)
<1>1. l \in Lanes /\ e # None
  BY LaneOfType, BusAssumption
<1> HIDE DEF l
<1>2. CASE Full(l)
  <2>1. /\ putters' = [putters EXCEPT ![l] = Append(putters[l], t)]
        /\ offer' = [offer EXCEPT ![t] = e]
        /\ queue' = queue /\ unfinished' = unfinished
    BY <1>2 DEF Enqueue, l
  <2> DEFINE p == putters[l]
             q == Append(p, t)
  <2>2. p \in Seq(Tasks) /\ putters'[l] = q
        /\ \A m \in Lanes \ {l} : putters'[m] = putters[m]
    BY <1>1, <2>1 DEF QueueTyped
  <2>3. /\ \A i \in DOMAIN p : p[i] # t
        /\ \A i, j \in DOMAIN p : p[i] = p[j] => i = j
    BY <1>1 DEF PutInv
  <2>4. /\ q \in Seq(Tasks)
        /\ \A i \in DOMAIN q : q[i] = t \/ \E j \in DOMAIN p : q[i] = p[j]
        /\ \A i, j \in DOMAIN q : q[i] = q[j] => i = j
    <3> HIDE DEF p, q
    <3> QED
      BY <2>2, <2>3, AppendDistinct DEF q
  <2> HIDE DEF q
  <2>5. QueueTyped'
    BY <1>1, <2>1, <2>2, <2>4 DEF QueueTyped
  <2>6. offer'[t] = e /\ \A u \in Tasks \ {t} : offer'[u] = offer[u]
    BY <2>1 DEF QueueTyped
  <2>7. PutInv'
    <3>1. \A u \in woken' : offer'[u] # None
      BY <1>1, <2>6 DEF PutInv, QueueTyped
    <3>2. ASSUME NEW m \in Lanes, NEW i \in DOMAIN putters'[m]
          PROVE  /\ offer'[putters'[m][i]] # None
                 /\ LaneOf(offer'[putters'[m][i]]) = m
                 /\ putters'[m][i] \notin woken'
      <4>1. CASE m = l /\ q[i] = t
        BY <1>1, <2>2, <2>6, <4>1 DEF l
      <4>2. ASSUME NEW j \in DOMAIN putters[m], putters'[m][i] = putters[m][j]
            PROVE  /\ offer'[putters'[m][i]] # None
                   /\ LaneOf(offer'[putters'[m][i]]) = m
                   /\ putters'[m][i] \notin woken'
        <5>1. putters[m][j] \in Tasks \ {t}
          BY DEF QueueTyped
        <5> QED
          BY <4>2, <5>1, <2>6 DEF PutInv
      <4> QED
        BY <2>2, <2>4, <3>2, <4>1, <4>2
    <3>3. \A m \in Lanes : \A i, j \in DOMAIN putters'[m] :
            putters'[m][i] = putters'[m][j] => i = j
      BY <2>2, <2>4 DEF PutInv
    <3> QED
      BY <3>1, <3>2, <3>3 DEF PutInv
  <2>8. EventInv'
    BY <1>1, <2>1, <2>6 DEF EventInv, Taken, QueueTyped
  <2> QED
    BY <2>1, <2>5, <2>7, <2>8 DEF LaneInv
<1>3. CASE ~Full(l)
  <2>1. /\ queue' = [queue EXCEPT ![l] = Append(queue[l], e)]
        /\ unfinished' = [unfinished EXCEPT ![l] = unfinished[l] + 1]
        /\ offer' = [offer EXCEPT ![t] = None]
        /\ putters' = putters
    BY <1>3 DEF Enqueue, l
  <2> DEFINE p == queue[l]
             q == Append(p, e)
  <2>2. p \in Seq(Events) /\ queue'[l] = q
        /\ \A m \in Lanes \ {l} : queue'[m] = queue[m]
    BY <1>1, <2>1 DEF QueueTyped
  <2>3. /\ \A i \in DOMAIN p : p[i] # e
        /\ \A i, j \in DOMAIN p : p[i] = p[j] => i = j
    BY <1>1 DEF LaneInv
  <2>4. /\ q \in Seq(Events) /\ Len(q) = Len(p) + 1 /\ q # <<>>
        /\ \A i \in DOMAIN q : q[i] = e \/ \E j \in DOMAIN p : q[i] = p[j]
        /\ \A j \in DOMAIN p : \E i \in DOMAIN q : q[i] = p[j]
        /\ \A i, j \in DOMAIN q : q[i] = q[j] => i = j
    <3> HIDE DEF p, q
    <3> QED
      BY <2>2, <2>3, AppendDistinct DEF q
  <2> HIDE DEF q
  <2>5. QueueTyped'
    BY <1>1, <2>1, <2>2, <2>4 DEF QueueTyped
  <2>6. offer'[t] = None /\ \A u \in Tasks \ {t} : offer'[u] = offer[u]
    BY <2>1 DEF QueueTyped
  <2>7. LaneInv'
    <3>1. \A m \in Lanes : \A i \in DOMAIN queue'[m] : LaneOf(queue'[m][i]) = m
      BY <2>2, <2>4 DEF LaneInv, l
    <3>2. \A m \in Lanes : \A i, j \in DOMAIN queue'[m] :
            queue'[m][i] = queue'[m][j] => i = j
      BY <2>2, <2>4 DEF LaneInv
    <3> QED
      BY <3>1, <3>2 DEF LaneInv
  <2>8. PutInv'
    <3>1. \A m \in Lanes : \A i \in DOMAIN putters[m] :
            putters[m][i] \in Tasks \ {t}
      BY DEF QueueTyped
    <3>2. \A u \in woken' : offer'[u] # None
      BY <2>6 DEF PutInv, QueueTyped
    <3> QED
      BY <2>1, <2>6, <3>1, <3>2 DEF PutInv
  <2>9. EventInv'
    <3>1. \A m \in Lanes : \A i \in DOMAIN queue'[m] :
            queue'[m][i] = e \/ \E j \in DOMAIN queue[m] : queue'[m][i] = queue[m][j]
      BY <2>2, <2>4
    <3>2. ASSUME NEW m \in Lanes, NEW i \in DOMAIN queue'[m]
          PROVE  /\ queue'[m][i] \notin fresh' \cup Taken'
                 /\ \A u \in Tasks : offer'[u] # queue'[m][i]
      <4>1. queue'[m][i] # None
        BY <2>5, BusAssumption DEF QueueTyped
      <4>2. CASE queue'[m][i] = e
        BY <2>6, <4>1, <4>2 DEF Taken
      <4>3. CASE \E j \in DOMAIN queue[m] : queue'[m][i] = queue[m][j]
        BY <2>6, <4>1, <4>3 DEF EventInv, Taken
      <4> QED
        BY <3>1, <4>2, <4>3
    <3>3. \A u \in Tasks : offer'[u] # None => offer'[u] \notin fresh' \cup Taken'
      BY <2>6 DEF EventInv, Taken
    <3>4. \A u, v \in Tasks : offer'[u] = offer'[v] /\ u # v => offer'[u] = None
      BY <2>6 DEF EventInv
    <3> QED
      BY <3>2, <3>3, <3>4 DEF EventInv, Taken
  <2>10. /\ \A m \in Lanes : unfinished'[m] - Len(queue'[m])
                             = unfinished[m] - Len(queue[m])
         /\ \A m \in Lanes : ToSet(queue[m]) \subseteq ToSet(queue'[m])
         /\ queue["high"] # <<>> => queue'["high"] # <<>>
    <3>1. \A m \in Lanes : unfinished'[m] - Len(queue'[m])
                           = unfinished[m] - Len(queue[m])
      BY <1>1, <2>1, <2>2, <2>4 DEF QueueTyped
    <3>2. \A m \in Lanes : ToSet(queue[m]) \subseteq ToSet(queue'[m])
      BY <2>2, <2>4 DEF ToSet
    <3>3. queue["high"] # <<>> => queue'["high"] # <<>>
      BY <2>2, <2>4 DEF Lanes
    <3> QED
      BY <3>1, <3>2, <3>3
  <2> QED
    BY <2>5, <2>7, <2>8, <2>9, <2>10
<1> QED
  BY <1>2, <1>3

(* get(): the head leaves its lane, which it was in once, and the oldest   *)
(* putter is woken.                                                        *)
LEMMA DequeueProperties ==
  ASSUME QueueTyped, LaneInv, PutInv, NEW l \in Lanes, Dequeue(l)
  PROVE  /\ QueueTyped' /\ LaneInv' /\ PutInv'
         /\ \E i \in DOMAIN queue[l] : Head(queue[l]) = queue[l][i]
         /\ Head(queue[l]) \in Events /\ LaneOf(Head(queue[l])) = l
         /\ Len(queue'[l]) = Len(queue[l]) - 1
         /\ \A m \in Lanes \ {l} : queue'[m] = queue[m]
         /\ \A m \in Lanes : \A i \in DOMAIN queue'[m] :
              /\ queue'[m][i] # Head(queue[l])
              /\ \E j \in DOMAIN queue[m] : queue'[m][i] = queue[m][j]
         /\ \A m \in Lanes :
              ToSet(queue[m]) \subseteq ToSet(queue'[m]) \cup {Head(queue[l])}
<1> DEFINE p == queue[l]
           q == Tail(p)
           e == Head(p)
<1>1. /\ p # <<>> /\ p \in Seq(Events)
      /\ queue' = [queue EXCEPT ![l] = q]
      /\ UNCHANGED <<unfinished, offer, fresh>>
  BY DEF Dequeue, QueueTyped
<1>2. queue'[l] = q /\ \A m \in Lanes \ {l} : queue'[m] = queue[m]
  BY <1>1 DEF QueueTyped
<1>3. \A i, j \in DOMAIN p : p[i] = p[j] => i = j
  BY DEF LaneInv
<1>4. /\ e \in Events /\ q \in Seq(Events)
      /\ 1 \in DOMAIN p /\ e = p[1]
      /\ Len(q) = Len(p) - 1
      /\ \A i \in DOMAIN q : q[i] # e /\ \E j \in DOMAIN p : q[i] = p[j]
      /\ \A j \in DOMAIN p : p[j] = e \/ \E i \in DOMAIN q : q[i] = p[j]
      /\ \A i, j \in DOMAIN q : q[i] = q[j] => i = j
  <2> HIDE DEF p, q, e
  <2> QED
    BY <1>1, <1>3, TailDistinct DEF q, e
<1>5. LaneOf(e) = l
  BY <1>4 DEF LaneInv
<1> HIDE DEF q, e
<1>6. ASSUME NEW m \in Lanes, NEW i \in DOMAIN queue'[m]
      PROVE  /\ queue'[m][i] # e
             /\ \E j \in DOMAIN queue[m] : queue'[m][i] = queue[m][j]
  <2>1. CASE m = l
    BY <1>2, <1>4, <2>1
  <2>2. CASE m # l
    BY <1>2, <1>5, <2>2 DEF LaneInv
  <2> QED
    BY <2>1, <2>2
<1>7. \A m \in Lanes : ToSet(queue[m]) \subseteq ToSet(queue'[m]) \cup {e}
  BY <1>2, <1>4 DEF ToSet
<1>8. LaneInv'
  <2>1. \A m \in Lanes : \A i \in DOMAIN queue'[m] : LaneOf(queue'[m][i]) = m
    BY <1>6 DEF LaneInv
  <2>2. \A m \in Lanes : \A i, j \in DOMAIN queue'[m] :
          queue'[m][i] = queue'[m][j] => i = j
    BY <1>2, <1>4 DEF LaneInv
  <2> QED
    BY <2>1, <2>2 DEF LaneInv
<1>9. QueueTyped' /\ PutInv'
  <2>1. queue' \in [Lanes -> Seq(Events)]
    BY <1>1, <1>4 DEF QueueTyped
  <2>2. CASE putters[l] = <<>>
    <3>1. UNCHANGED <<putters, woken>>
      BY <2>2 DEF Dequeue
    <3> QED
      BY <1>1, <2>1, <3>1 DEF QueueTyped, PutInv
  <2>3. CASE putters[l] # <<>>
    <3> DEFINE a == putters[l]
               b == Tail(a)
               t == Head(a)
    <3>1. woken' = woken \cup {t} /\ putters' = [putters EXCEPT ![l] = b]
      BY <2>3 DEF Dequeue
    <3>2. /\ a \in Seq(Tasks) /\ a # <<>>
          /\ \A i, j \in DOMAIN a : a[i] = a[j] => i = j
      BY <2>3 DEF QueueTyped, PutInv
    <3>3. /\ t \in Tasks /\ b \in Seq(Tasks)
          /\ 1 \in DOMAIN a /\ t = a[1]
          /\ \A i \in DOMAIN b : b[i] # t /\ \E j \in DOMAIN a : b[i] = a[j]
          /\ \A i, j \in DOMAIN b : b[i] = b[j] => i = j
      <4> HIDE DEF a, b, t
      <4> QED
        BY <3>2, TailDistinct DEF b, t
    <3>4. /\ putters'[l] = b
          /\ \A m \in Lanes \ {l} : putters'[m] = putters[m]
      BY <3>1 DEF QueueTyped
    <3>5. offer[t] # None /\ LaneOf(offer[t]) = l
      BY <3>3 DEF PutInv
    <3> HIDE DEF b, t
    <3>6. QueueTyped'
      BY <1>1, <2>1, <3>1, <3>3 DEF QueueTyped
    <3>7. ASSUME NEW m \in Lanes, NEW i \in DOMAIN putters'[m]
          PROVE  /\ \E j \in DOMAIN putters[m] : putters'[m][i] = putters[m][j]
                 /\ putters'[m][i] # t
      <4>1. CASE m = l
        BY <3>3, <3>4, <4>1
      <4>2. CASE m # l
        BY <3>4, <3>5, <4>2 DEF PutInv
      <4> QED
        BY <4>1, <4>2
    <3>8. PutInv'
      <4>1. \A u \in woken' : offer'[u] # None
        BY <1>1, <3>1, <3>5 DEF PutInv
      <4>2. \A m \in Lanes : \A i \in DOMAIN putters'[m] :
              /\ offer'[putters'[m][i]] # None
              /\ LaneOf(offer'[putters'[m][i]]) = m
              /\ putters'[m][i] \notin woken'
        BY <1>1, <3>1, <3>7 DEF PutInv
      <4>3. \A m \in Lanes : \A i, j \in DOMAIN putters'[m] :
              putters'[m][i] = putters'[m][j] => i = j
        BY <3>3, <3>4 DEF PutInv
      <4> QED
        BY <4>1, <4>2, <4>3 DEF PutInv
    <3> QED
      BY <3>6, <3>8
  <2> QED
    BY <2>2, <2>3
<1> QED
  BY <1>2, <1>4, <1>5, <1>6, <1>7, <1>8, <1>9 DEF e

(* A cancelled put leaves no trace of its task.                            *)
LEMMA CancelProperties ==
  ASSUME QueueTyped, PutInv, NEW t \in Tasks, CancelPut(t)
  PROVE  /\ QueueTyped' /\ PutInv'
         /\ UNCHANGED <<queue, unfinished, fresh>>
         /\ offer'[t] = None
         /\ \A u \in Tasks \ {t} : offer'[u] = offer[u]
<1>1. CASE offer[t] = None
  BY <1>1 DEF CancelPut, queueVars, QueueTyped, PutInv
<1>2. CASE offer[t] # None
  <2> DEFINE l == LaneOf(offer[t])
             a == putters[l]
             pass == t \in woken /\ ~Full(l) /\ putters[l] # <<>>
             b == IF pass THEN Tail(a) ELSE Without(a, t)
             new == IF pass THEN {Head(a)} ELSE {}
  <2>1. l \in Lanes
    BY LaneOfType
  <2>2. /\ offer' = [offer EXCEPT ![t] = None]
        /\ putters' = [putters EXCEPT ![l] = b]
        /\ woken' = (woken \ {t}) \cup new
        /\ UNCHANGED <<queue, unfinished, fresh>>
    BY <1>2 DEF CancelPut, QueueTyped
  <2> HIDE DEF l
  <2>3. /\ a \in Seq(Tasks)
        /\ \A i, j \in DOMAIN a : a[i] = a[j] => i = j
    BY <2>1 DEF QueueTyped, PutInv
  <2>4. /\ b \in Seq(Tasks) /\ new \subseteq Tasks
        /\ \A i \in DOMAIN b :
             b[i] \notin new /\ b[i] # t /\ \E j \in DOMAIN a : b[i] = a[j]
        /\ \A i, j \in DOMAIN b : b[i] = b[j] => i = j
        /\ \A u \in new : \E j \in DOMAIN a : u = a[j]
    <3>1. CASE pass
      <4>1. \A j \in DOMAIN a : a[j] # t
        BY <2>1, <3>1 DEF PutInv
      <4>2. a # <<>> /\ b = Tail(a) /\ new = {Head(a)}
        BY <3>1
      <4> HIDE DEF a, b, new
      <4>3. /\ Head(a) \in Tasks /\ Tail(a) \in Seq(Tasks)
            /\ 1 \in DOMAIN a /\ Head(a) = a[1]
            /\ \A i \in DOMAIN Tail(a) :
                 Tail(a)[i] # Head(a) /\ \E j \in DOMAIN a : Tail(a)[i] = a[j]
            /\ \A i, j \in DOMAIN Tail(a) : Tail(a)[i] = Tail(a)[j] => i = j
        BY <2>3, <4>2, TailDistinct
      <4> QED
        BY <4>1, <4>2, <4>3
    <3>2. CASE ~pass
      <4>1. b = Without(a, t) /\ new = {}
        BY <3>2
      <4> HIDE DEF a, b, new
      <4> QED
        BY <2>3, <4>1, WithoutProperties
    <3> QED
      BY <3>1, <3>2
  <2>5. \A m \in Lanes \ {l} : \A i \in DOMAIN putters[m] : putters[m][i] # t
    BY DEF PutInv, l
  <2>6. t \notin new
    BY <2>1 DEF PutInv
  <2>7. /\ putters'[l] = b
        /\ \A m \in Lanes \ {l} : putters'[m] = putters[m]
    BY <2>1, <2>2 DEF QueueTyped
  <2>8. offer'[t] = None /\ \A u \in Tasks \ {t} : offer'[u] = offer[u]
    BY <2>2 DEF QueueTyped
  <2> HIDE DEF b, new
  <2>9. QueueTyped'
    BY <2>2, <2>4 DEF QueueTyped
  <2>10. \A u \in new : u \in Tasks \ {t} /\ offer[u] # None /\ LaneOf(offer[u]) = l
    BY <2>1, <2>4, <2>6 DEF PutInv
  <2>11. ASSUME NEW m \in Lanes, NEW i \in DOMAIN putters'[m]
         PROVE  /\ \E j \in DOMAIN putters[m] : putters'[m][i] = putters[m][j]
                /\ putters'[m][i] \in Tasks \ {t}
                /\ putters'[m][i] \notin new
    <3>1. CASE m = l
      BY <2>4, <2>7, <3>1
    <3>2. CASE m # l
      BY <2>5, <2>7, <2>10, <3>2 DEF PutInv, QueueTyped
    <3> QED
      BY <3>1, <3>2
  <2>12. PutInv'
    <3>1. \A u \in woken' : offer'[u] # None
      BY <2>2, <2>8, <2>10 DEF PutInv, QueueTyped
    <3>2. \A m \in Lanes : \A i \in DOMAIN putters'[m] :
            /\ offer'[putters'[m][i]] # None
            /\ LaneOf(offer'[putters'[m][i]]) = m
            /\ putters'[m][i] \notin woken'
      BY <2>2, <2>8, <2>11 DEF PutInv
    <3>3. \A m \in Lanes : \A i, j \in DOMAIN putters'[m] :
            putters'[m][i] = putters'[m][j] => i = j
      BY <2>4, <2>7 DEF PutInv
    <3> QED
      BY <3>1, <3>2, <3>3 DEF PutInv
  <2> QED
    BY <2>2, <2>8, <2>9, <2>12
<1> QED
  BY <1>1, <1>2

-----------------------------------------------------------------------------
(* The initial states.                                                     *)
LEMMA InitIInv == Init => IInv
<1> SUFFICES ASSUME Init PROVE IInv
  OBVIOUS
<1> USE BusAssumption DEF Init
<1>1. TypeOK
  <2>1. /\ queue \in [Lanes -> Seq(Events)]
        /\ unfinished \in [Lanes -> Nat]
        /\ putters \in [Lanes -> Seq(Tasks)]
    OBVIOUS
  <2>2. /\ offer \in [Tasks -> Events \cup {None}]
        /\ calls \in [Handlers -> [Events -> Nat]]
        /\ owed \in [Events -> SUBSET Handlers]
    OBVIOUS
  <2>3. roster \in Seq(Handlers) /\ subscribers \in Seq(Handlers)
    OBVIOUS
  <2> QED
    BY <2>1, <2>2, <2>3 DEF TypeOK, Places
<1>2. LaneInv /\ PutInv
  BY DEF LaneInv, PutInv
<1>3. DispatchInv /\ EventInv
  BY DEF DispatchInv, EventInv, Taken
<1>4. FanInv
  BY DEF FanInv
<1>5. InversionInv /\ DrainInv
  BY DEF InversionInv, DrainInv
<1>6. AccountInv
  <2>1. \A l \in Lanes : {e \in abandoned : LaneOf(e) = l} = {}
    OBVIOUS
  <2> QED
    BY <2>1, FS_EmptySet DEF AccountInv, UnfinishedAccounting
<1> QED
  BY <1>1, <1>2, <1>3, <1>4, <1>5, <1>6 DEF IInv

(* What the difference of two naturals says of their sum.                  *)
LEMMA Balance ==
  ASSUME NEW a \in Nat, NEW b \in Nat, NEW u \in Nat, NEW v \in Nat,
         NEW x \in Nat, NEW y \in Nat, u - v = a - b, a = b + x + y
  PROVE  u = v + x + y
  OBVIOUS

(* Steps that only add an event to a lane or to its putters.               *)
LEMMA PutStep ==
  ASSUME IInv, NEW t \in Tasks, NEW e \in Events, Enqueue(t, e),
         \A l \in Lanes : \A i \in DOMAIN putters[l] : putters[l][i] # t,
         \A l \in Lanes : \A i \in DOMAIN queue[l] : queue[l][i] # e,
         \A u \in Tasks \ {t} : offer[u] # e,
         e \notin Taken,
         woken' = woken \ {t}, fresh' = fresh \ {e},
         UNCHANGED <<loopVars, ghostVars, drainVars, subscribers>>
  PROVE  IInv'
<1> USE DEF IInv, loopVars, ghostVars, drainVars
<1>1. QueueTyped
  BY DEF TypeOK, QueueTyped
<1>2. /\ QueueTyped' /\ LaneInv' /\ PutInv' /\ EventInv'
      /\ \A l \in Lanes : unfinished'[l] - Len(queue'[l])
                          = unfinished[l] - Len(queue[l])
      /\ \A l \in Lanes : ToSet(queue[l]) \subseteq ToSet(queue'[l])
      /\ queue["high"] # <<>> => queue'["high"] # <<>>
  BY <1>1, EnqueueProperties
<1>3. TypeOK'
  BY <1>2 DEF TypeOK, QueueTyped
<1>4. DispatchInv' /\ FanInv'
  BY DEF DispatchInv, FanInv, Taken
<1>5. InversionInv'
  BY <1>2 DEF InversionInv
<1>6. AccountInv'
  <2> DEFINE c(l) == Cardinality({a \in abandoned : LaneOf(a) = l})
             d(l) == IF cur # None /\ LaneOf(cur) = l THEN 1 ELSE 0
  <2>1. \A l \in Lanes : c(l) \in Nat
    BY FS_Subset, FS_CardinalityType DEF AccountInv
  <2>2. \A l \in Lanes : unfinished[l] = Len(queue[l]) + d(l) + c(l)
    BY DEF AccountInv, UnfinishedAccounting
  <2>3. \A l \in Lanes : /\ d(l) \in Nat /\ unfinished[l] \in Nat
                         /\ unfinished'[l] \in Nat
                         /\ Len(queue[l]) \in Nat /\ Len(queue'[l]) \in Nat
    BY <1>1, <1>2 DEF QueueTyped
  <2> HIDE DEF c, d
  <2>4. ASSUME NEW l \in Lanes
        PROVE  unfinished'[l] = Len(queue'[l]) + d(l) + c(l)
    <3> DEFINE a == unfinished[l]
               b == Len(queue[l])
               u == unfinished'[l]
               v == Len(queue'[l])
               x == d(l)
               y == c(l)
    <3>1. /\ u - v = a - b /\ a = b + x + y
          /\ a \in Nat /\ b \in Nat /\ u \in Nat /\ v \in Nat
          /\ x \in Nat /\ y \in Nat
      BY <1>2, <2>1, <2>2, <2>3
    <3> HIDE DEF a, b, u, v, x, y
    <3>2. u = v + x + y
      BY <3>1, Balance
    <3> QED
      BY <3>2 DEF u, v, x, y
  <2> QED
    BY <2>4 DEF AccountInv, UnfinishedAccounting, c, d
<1>7. DrainInv'
  BY <1>2 DEF DrainInv
<1> QED
  BY <1>2, <1>3, <1>4, <1>5, <1>6, <1>7

(* publish() of an event never published before, by a task that waits      *)
(* nowhere.                                                                *)
LEMMA PublishStep ==
  ASSUME IInv, NEW t \in Tasks, NEW e \in fresh, offer[t] = None,
         fresh' = fresh \ {e}, Enqueue(t, e),
         UNCHANGED <<woken, loopVars, ghostVars, drainVars, subscribers>>
  PROVE  IInv'
<1>1. e \in Events
  BY DEF IInv, TypeOK
<1>2. t \notin woken
  BY DEF IInv, PutInv
<1>3. \A l \in Lanes : \A i \in DOMAIN putters[l] : putters[l][i] # t
  BY DEF IInv, PutInv
<1>4. /\ \A l \in Lanes : \A i \in DOMAIN queue[l] : queue[l][i] # e
      /\ \A u \in Tasks \ {t} : offer[u] # e
      /\ e \notin Taken
  BY <1>1, BusAssumption DEF IInv, EventInv
<1> QED
  BY <1>1, <1>2, <1>3, <1>4, PutStep

(* A woken task puts the event it waited with.                             *)
LEMMA ResumeStep ==
  ASSUME IInv, NEW t \in Tasks, ResumePut(t)
  PROVE  IInv'
<1> DEFINE e == offer[t]
<1>1. t \in woken /\ e # None /\ e \in Events
  BY DEF IInv, TypeOK, PutInv, ResumePut
<1>2. \A l \in Lanes : \A i \in DOMAIN putters[l] : putters[l][i] # t
  BY <1>1 DEF IInv, PutInv
<1>3. /\ \A l \in Lanes : \A i \in DOMAIN queue[l] : queue[l][i] # e
      /\ \A u \in Tasks \ {t} : offer[u] # e
      /\ e \notin Taken /\ e \notin fresh
  BY <1>1 DEF IInv, EventInv
<1>4. fresh' = fresh \ {e}
  BY <1>3 DEF ResumePut
<1> HIDE DEF e
<1>5. /\ Enqueue(t, e) /\ woken' = woken \ {t}
      /\ UNCHANGED <<loopVars, ghostVars, drainVars, subscribers>>
  BY DEF ResumePut, e
<1> QED
  BY <1>1, <1>2, <1>3, <1>4, <1>5, PutStep

(* get() returns an event of lane l, and its dispatch begins.              *)
LEMMA TakeStep ==
  ASSUME IInv, NEW l \in Lanes, Take(l),
         dispatcher \notin {"off", "dispatch"},
         l = "normal" /\ queue["high"] # <<>> => dispatcher \in Waits
  PROVE  IInv'
<1> USE DEF IInv
<1> DEFINE e == Head(queue[l])
<1>1. QueueTyped /\ Dequeue(l)
  BY DEF TypeOK, QueueTyped, Take
<1>2. /\ QueueTyped' /\ LaneInv' /\ PutInv'
      /\ \E i \in DOMAIN queue[l] : e = queue[l][i]
      /\ e \in Events /\ LaneOf(e) = l
      /\ Len(queue'[l]) = Len(queue[l]) - 1
      /\ \A m \in Lanes \ {l} : queue'[m] = queue[m]
      /\ \A m \in Lanes : \A i \in DOMAIN queue'[m] :
           /\ queue'[m][i] # e
           /\ \E j \in DOMAIN queue[m] : queue'[m][i] = queue[m][j]
      /\ \A m \in Lanes : ToSet(queue[m]) \subseteq ToSet(queue'[m]) \cup {e}
  BY <1>1, DequeueProperties
<1>3. /\ cur = None /\ active = None /\ running
      /\ e \notin Taken /\ e # None /\ e \notin fresh
  BY <1>2, BusAssumption DEF DispatchInv, EventInv, TypeOK
<1>4. /\ cur' = e /\ lastSource' = l /\ roster' = subscribers
      /\ todo' = HandlersFor(e) /\ owed' = [owed EXCEPT ![e] = HandlersFor(e)]
      /\ dispatcher' = "dispatch"
      /\ overtakes' = IF l = "normal" /\ queue["high"] # <<>>
                      THEN overtakes + 1 ELSE 0
      /\ UNCHANGED <<unfinished, offer, fresh, running, active, calls,
                     completed, abandoned, drain, promised, subscribers>>
  BY DEF Take, Dequeue, drainVars
<1>5. HandlersFor(e) \subseteq Handlers
  BY DEF HandlersFor, ToSet, TypeOK
<1> HIDE DEF e
<1>6. TypeOK'
  <2>1. /\ cur' \in Events \cup {None} /\ lastSource' \in Lanes \cup {None}
        /\ todo' \subseteq Handlers /\ roster' \in Seq(Handlers)
        /\ dispatcher' \in Places
    BY <1>2, <1>4, <1>5 DEF TypeOK, Places
  <2>2. owed' \in [Events -> SUBSET Handlers]
    BY <1>4, <1>5 DEF TypeOK
  <2>3. overtakes' \in Nat
    BY <1>4 DEF TypeOK
  <2> QED
    BY <1>2, <1>4, <2>1, <2>2, <2>3 DEF TypeOK, QueueTyped
<1>7. DispatchInv'
  BY <1>2, <1>3, <1>4 DEF DispatchInv
<1>8. EventInv'
  <2>1. \A t \in Tasks : offer[t] # e
    BY <1>2 DEF EventInv
  <2>2. \A m \in Lanes : \A i \in DOMAIN queue'[m] :
          /\ queue'[m][i] \notin fresh' \cup Taken'
          /\ \A t \in Tasks : offer'[t] # queue'[m][i]
    BY <1>2, <1>3, <1>4 DEF EventInv, Taken
  <2> QED
    BY <1>2, <1>3, <1>4, <2>1, <2>2 DEF EventInv, Taken
<1>9. FanInv'
  <2> SUFFICES ASSUME NEW a \in Events, NEW h \in Handlers
               PROVE  /\ calls'[h][a] <= 1
                      /\ calls'[h][a] = 1 => h \in owed'[a]
                      /\ a \notin Taken' => calls'[h][a] = 0
                      /\ a \in completed' /\ h \in owed'[a] => calls'[h][a] = 1
                      /\ a = cur' => (h \in todo' <=> h \in owed'[a]
                                                      /\ calls'[h][a] = 0)
    BY DEF FanInv
  <2>1. CASE a = e
    <3>1. calls[h][e] = 0 /\ e \notin completed
      BY <1>2, <1>3 DEF FanInv, Taken
    <3> QED
      BY <1>2, <1>4, <2>1, <3>1 DEF TypeOK
  <2>2. CASE a # e
    <3>1. owed'[a] = owed[a]
      BY <1>4, <2>2 DEF TypeOK
    <3>2. a # None
      BY BusAssumption
    <3> QED
      BY <1>3, <1>4, <2>2, <3>1, <3>2 DEF FanInv, Taken
  <2> QED
    BY <2>1, <2>2
<1>10. InversionInv'
  <2>1. CASE l = "normal" /\ queue["high"] # <<>>
    <3>1. overtakes = 0
      BY <2>1 DEF InversionInv
    <3>2. queue'["high"] = queue["high"]
      BY <1>2, <2>1 DEF Lanes
    <3> QED
      BY <1>4, <2>1, <3>1, <3>2 DEF InversionInv, Waits
  <2>2. CASE ~(l = "normal" /\ queue["high"] # <<>>)
    BY <1>4, <2>2 DEF InversionInv
  <2> QED
    BY <2>1, <2>2
<1>11. AccountInv'
  <2>3. \A m \in Lanes : Len(queue[m]) \in Nat /\ Len(queue'[m]) \in Nat
    <3> HIDE DEF IInv
    <3>1. queue \in [Lanes -> Seq(Events)] /\ queue' \in [Lanes -> Seq(Events)]
      BY <1>1, <1>2 DEF QueueTyped
    <3> QED
      BY <3>1
  <2> DEFINE c(m) == Cardinality({a \in abandoned : LaneOf(a) = m})
  <2>1. \A m \in Lanes : c(m) \in Nat
    BY FS_Subset, FS_CardinalityType DEF AccountInv
  <2>2. \A m \in Lanes : unfinished[m] = Len(queue[m]) + 0 + c(m)
    BY <1>3 DEF AccountInv, UnfinishedAccounting
  <2> HIDE DEF c
  <2>4. \A m \in Lanes : unfinished'[m] = Len(queue'[m])
             + (IF cur' # None /\ LaneOf(cur') = m THEN 1 ELSE 0) + c(m)
    <3> TAKE m \in Lanes
    <3>1. CASE m = l
      BY <1>2, <1>3, <1>4, <2>1, <2>2, <2>3, <3>1
    <3>2. CASE m # l
      BY <1>2, <1>3, <1>4, <2>1, <2>2, <2>3, <3>2
    <3> QED
      BY <3>1, <3>2
  <2> QED
    BY <1>4, <2>4 DEF AccountInv, UnfinishedAccounting, c
<1>12. DrainInv'
  <2> SUFFICES ASSUME drain' # None, NEW a \in promised' \ completed'
               PROVE  /\ LaneOf(a) \in drain'
                      /\ \/ a \in abandoned' \cup {cur'}
                         \/ \E m \in Lanes : a \in ToSet(queue'[m])
    BY DEF DrainInv
  <2>1. a # None /\ a \in promised \ completed /\ drain # None
    BY <1>4, BusAssumption DEF TypeOK
  <2> QED
    BY <1>2, <1>3, <1>4, <2>1 DEF DrainInv
<1> QED
  BY <1>2, <1>6, <1>7, <1>8, <1>9, <1>10, <1>11, <1>12

(* Steps that only move the dispatcher from one place of get() to another. *)
LEMMA MoveStep ==
  ASSUME IInv, NEW place \in {"poll", "high_wait", "normal_wait"},
         dispatcher \notin {"off", "dispatch"}, MoveTo(place),
         lastSource' \in {lastSource, "normal"},
         place \in Waits => overtakes = 0
  PROVE  IInv'
<1> USE DEF IInv, MoveTo, queueVars, ghostVars, drainVars
<1>1. TypeOK'
  BY DEF TypeOK, Places, Lanes
<1>2. LaneInv' /\ PutInv' /\ EventInv' /\ FanInv'
  BY DEF LaneInv, PutInv, EventInv, FanInv, Taken
<1>3. DispatchInv'
  BY DEF DispatchInv
<1>4. InversionInv'
  BY DEF InversionInv
<1>5. AccountInv' /\ DrainInv'
  BY DEF AccountInv, UnfinishedAccounting, DrainInv
<1> QED
  BY <1>1, <1>2, <1>3, <1>4, <1>5

(* A subscriber is called for the first time with the event in hand.       *)
LEMMA CallStep ==
  ASSUME IInv, NEW h \in Handlers, CallHandler(h)
  PROVE  IInv'
<1> USE DEF IInv, CallHandler, queueVars, drainVars
<1>1. cur \in Events /\ cur # None /\ h # None
  BY BusAssumption DEF DispatchInv, TypeOK
<1>2. calls' \in [Handlers -> [Events -> Nat]]
  BY <1>1 DEF TypeOK
<1>3. TypeOK'
  BY <1>2 DEF TypeOK
<1>4. LaneInv' /\ PutInv' /\ EventInv'
  BY DEF LaneInv, PutInv, EventInv, Taken
<1>5. DispatchInv'
  BY <1>1 DEF DispatchInv
<1>6. FanInv'
  <2> SUFFICES ASSUME NEW e \in Events, NEW g \in Handlers
               PROVE  /\ calls'[g][e] <= 1
                      /\ calls'[g][e] = 1 => g \in owed'[e]
                      /\ e \notin Taken' => calls'[g][e] = 0
                      /\ e \in completed' /\ g \in owed'[e] => calls'[g][e] = 1
                      /\ e = cur' => (g \in todo' <=> g \in owed'[e]
                                                      /\ calls'[g][e] = 0)
    BY DEF FanInv
  <2>1. CASE g = h /\ e = cur
    <3>1. calls[h][cur] = 0 /\ h \in owed[cur]
      BY <1>1 DEF FanInv
    <3>2. calls'[h][cur] = 1
      BY <1>1, <3>1 DEF TypeOK
    <3> QED
      BY <2>1, <3>1, <3>2 DEF Taken
  <2>2. CASE ~(g = h /\ e = cur)
    <3>1. calls'[g][e] = calls[g][e]
      BY <1>1, <2>2 DEF TypeOK
    <3> QED
      BY <2>2, <3>1 DEF FanInv, Taken
  <2> QED
    BY <2>1, <2>2
<1>7. InversionInv'
  BY DEF InversionInv
<1>8. AccountInv' /\ DrainInv'
  BY DEF AccountInv, UnfinishedAccounting, DrainInv
<1> QED
  BY <1>3, <1>4, <1>5, <1>6, <1>7, <1>8

(* A subscriber ends.                                                      *)
LEMMA HandlerDoneStep ==
  ASSUME IInv, HandlerDone
  PROVE  IInv'
<1> USE DEF IInv, HandlerDone, queueVars, ghostVars, drainVars
<1>1. TypeOK'
  BY DEF TypeOK
<1>2. LaneInv' /\ PutInv' /\ EventInv' /\ FanInv'
  BY DEF LaneInv, PutInv, EventInv, FanInv, Taken
<1>3. DispatchInv' /\ InversionInv'
  BY DEF DispatchInv, InversionInv
<1>4. AccountInv' /\ DrainInv'
  BY DEF AccountInv, UnfinishedAccounting, DrainInv
<1> QED
  BY <1>1, <1>2, <1>3, <1>4

(* A subscriber is cancelled, and with it the put it may wait in.          *)
LEMMA HandlerTimeoutStep ==
  ASSUME IInv, HandlerTimeout
  PROVE  IInv'
<1> USE DEF IInv, HandlerTimeout, ghostVars, drainVars
<1>1. QueueTyped /\ Loop \in Tasks
  BY DEF TypeOK, QueueTyped, Tasks
<1>2. /\ QueueTyped' /\ PutInv'
      /\ UNCHANGED <<queue, unfinished, fresh>>
      /\ offer'[Loop] = None
      /\ \A u \in Tasks \ {Loop} : offer'[u] = offer[u]
  BY <1>1, CancelProperties
<1>3. TypeOK'
  BY <1>2 DEF TypeOK, QueueTyped
<1>4. LaneInv' /\ FanInv'
  BY <1>2 DEF LaneInv, FanInv, Taken
<1>5. EventInv'
  <2>1. \A m \in Lanes : \A i \in DOMAIN queue[m] : queue[m][i] # None
    BY BusAssumption DEF TypeOK
  <2> QED
    BY <1>2, <2>1 DEF EventInv, Taken
<1>6. DispatchInv' /\ InversionInv'
  BY <1>2 DEF DispatchInv, InversionInv
<1>7. AccountInv' /\ DrainInv'
  BY <1>2 DEF AccountInv, UnfinishedAccounting, DrainInv
<1> QED
  BY <1>2, <1>3, <1>4, <1>5, <1>6, <1>7

(* How many events of lane l stop() has cut short.                         *)
CutShort(l) == Cardinality({e \in abandoned : LaneOf(e) = l})

(* A lane's count, in numbers; none cut short means no such event.         *)
LEMMA Accounts ==
  ASSUME IInv, NEW l \in Lanes
  PROVE  /\ CutShort(l) \in Nat /\ Len(queue[l]) \in Nat
         /\ unfinished[l] = Len(queue[l]) + CutShort(l)
                            + (IF cur # None /\ LaneOf(cur) = l THEN 1 ELSE 0)
         /\ CutShort(l) = 0 => \A e \in abandoned : LaneOf(e) # l
<1> DEFINE A == {e \in abandoned : LaneOf(e) = l}
<1>1. IsFiniteSet(A)
  BY FS_Subset DEF IInv, AccountInv
<1>2. Cardinality(A) \in Nat /\ (Cardinality(A) = 0 <=> A = {})
  BY <1>1, FS_CardinalityType, FS_EmptySet
<1>3. Len(queue[l]) \in Nat
  BY DEF IInv, TypeOK
<1> DEFINE d == IF cur # None /\ LaneOf(cur) = l THEN 1 ELSE 0
<1>4. unfinished[l] = Len(queue[l]) + d + CutShort(l)
  BY DEF IInv, AccountInv, UnfinishedAccounting, CutShort
<1>5. CutShort(l) \in Nat /\ (CutShort(l) = 0 => \A e \in abandoned : LaneOf(e) # l)
  BY <1>2 DEF CutShort
<1>6. d \in Nat
  OBVIOUS
<1> HIDE DEF d
<1>7. unfinished[l] = Len(queue[l]) + CutShort(l) + d
  BY <1>3, <1>4, <1>5, <1>6
<1> QED
  BY <1>3, <1>5, <1>7 DEF d

(* task_done reaches the lane the event in hand came from; when that       *)
(* count becomes 0 nothing drain() promised is left in the lane.           *)
LEMMA AcknowledgeStep ==
  ASSUME IInv, Acknowledge
  PROVE  IInv'
<1> USE DEF IInv
<1> DEFINE l == LaneOf(cur)
<1>1. /\ cur \in Events /\ cur # None /\ lastSource = l
      /\ dispatcher = "dispatch" /\ active = None /\ running
  BY DEF DispatchInv, TypeOK, Acknowledge
<1>2. l \in Lanes
  BY LaneOfType
<1> HIDE DEF l
<1>3. /\ todo = {} /\ todo' = todo
      /\ unfinished' = [unfinished EXCEPT ![l] = unfinished[l] - 1]
      /\ drain' = IF drain # None /\ unfinished[l] = 1
                  THEN drain \ {l} ELSE drain
      /\ completed' = completed \cup {cur}
      /\ cur' = None /\ lastSource' = None /\ roster' = <<>>
      /\ dispatcher' = "poll"
      /\ UNCHANGED <<queue, putters, woken, offer, fresh, running, active,
                     calls, owed, abandoned, overtakes, promised, subscribers>>
  BY <1>1 DEF Acknowledge, TypeOK
<1>4. /\ unfinished[l] = Len(queue[l]) + CutShort(l) + 1
      /\ Len(queue[l]) \in Nat /\ CutShort(l) \in Nat
      /\ CutShort(l) = 0 => \A e \in abandoned : LaneOf(e) # l
  BY <1>1, <1>2, Accounts DEF l
<1>5. TypeOK'
  <2>1. unfinished' \in [Lanes -> Nat]
    BY <1>2, <1>3, <1>4 DEF TypeOK
  <2>2. drain' \in {None} \cup SUBSET Lanes
    BY <1>3 DEF TypeOK
  <2>3. completed' \subseteq Events
    BY <1>1, <1>3 DEF TypeOK
  <2>4. roster' \in Seq(Handlers)
    BY <1>3
  <2> QED
    BY <1>3, <2>1, <2>2, <2>3, <2>4 DEF TypeOK, Places
<1>6. LaneInv' /\ PutInv'
  BY <1>3 DEF LaneInv, PutInv
<1>7. DispatchInv'
  BY <1>1, <1>3 DEF DispatchInv
<1>8. EventInv'
  <2>1. None \notin fresh \cup completed' \cup abandoned
    BY <1>1, <1>3, BusAssumption DEF TypeOK
  <2>2. \A m \in Lanes : \A i \in DOMAIN queue[m] : queue[m][i] # None
    BY BusAssumption DEF TypeOK
  <2> QED
    BY <1>3, <2>1, <2>2 DEF EventInv, Taken
<1>9. FanInv'
  <2> SUFFICES ASSUME NEW e \in Events, NEW h \in Handlers
               PROVE  /\ e \notin Taken' => calls[h][e] = 0
                      /\ e \in completed' /\ h \in owed[e] => calls[h][e] = 1
    BY <1>3, BusAssumption DEF FanInv
  <2>1. calls[h][e] \in Nat /\ calls[h][e] <= 1
    BY DEF FanInv, TypeOK
  <2>2. e = cur /\ h \in owed[e] => calls[h][e] # 0
    BY <1>3 DEF FanInv
  <2>3. e \in completed /\ h \in owed[e] => calls[h][e] = 1
    BY DEF FanInv
  <2>4. e \notin Taken' => calls[h][e] = 0
    BY <1>3 DEF FanInv, Taken
  <2> QED
    BY <1>3, <2>1, <2>2, <2>3, <2>4
<1>10. InversionInv'
  BY <1>3 DEF InversionInv, Waits
<1>11. AccountInv'
  <2> SUFFICES ASSUME NEW m \in Lanes
               PROVE  unfinished'[m] = Len(queue[m]) + 0 + CutShort(m)
    BY <1>3 DEF AccountInv, UnfinishedAccounting, CutShort
  <2>1. CASE m = l
    BY <1>2, <1>3, <1>4, <2>1 DEF TypeOK
  <2>2. CASE m # l
    <3>1. unfinished'[m] = unfinished[m]
      BY <1>3, <2>2 DEF TypeOK
    <3>2. /\ unfinished[m] = Len(queue[m]) + CutShort(m) + 0
          /\ CutShort(m) \in Nat /\ Len(queue[m]) \in Nat
      BY <2>2, Accounts DEF l
    <3> QED
      BY <3>1, <3>2
  <2> QED
    BY <2>1, <2>2
<1>12. DrainInv'
  <2> SUFFICES ASSUME drain' # None, NEW e \in promised \ completed'
               PROVE  /\ LaneOf(e) \in drain'
                      /\ \/ e \in abandoned
                         \/ \E m \in Lanes : e \in ToSet(queue[m])
    BY <1>3 DEF DrainInv
  <2>1. drain # None /\ e # cur /\ e \notin completed
    BY <1>3
  <2>2. /\ LaneOf(e) \in drain
        /\ e \in abandoned \/ \E m \in Lanes : e \in ToSet(queue[m])
    BY <2>1 DEF DrainInv
  <2>3. ASSUME unfinished[l] = 1
        PROVE  LaneOf(e) # l
    <3>1. CutShort(l) = 0 /\ Len(queue[l]) = 0
      BY <1>4, <2>3
    <3>2. queue[l] = <<>>
      BY <1>2, <3>1 DEF TypeOK
    <3>3. CASE e \in abandoned
      BY <1>4, <3>1, <3>3
    <3>4. ASSUME NEW m \in Lanes, e \in ToSet(queue[m]) PROVE LaneOf(e) # l
      <4>1. LaneOf(e) = m
        BY <3>4 DEF ToSet, LaneInv
      <4>2. queue[m] # <<>>
        BY <3>4 DEF ToSet
      <4> QED
        BY <3>2, <4>1, <4>2
    <3> QED
      BY <2>2, <3>3, <3>4
  <2> QED
    BY <1>3, <2>2, <2>3
<1> QED
  BY <1>5, <1>6, <1>7, <1>8, <1>9, <1>10, <1>11, <1>12

(* start() finds no event in hand.                                         *)
LEMMA StartStep ==
  ASSUME IInv, Start
  PROVE  IInv'
<1> USE DEF IInv, Start, queueVars, ghostVars, drainVars
<1>1. TypeOK'
  BY DEF TypeOK, Places
<1>2. LaneInv' /\ PutInv' /\ EventInv' /\ FanInv'
  BY DEF LaneInv, PutInv, EventInv, FanInv, Taken
<1>3. DispatchInv' /\ InversionInv'
  BY DEF DispatchInv, InversionInv, Waits
<1>4. AccountInv' /\ DrainInv'
  BY DEF AccountInv, UnfinishedAccounting, DrainInv
<1> QED
  BY <1>1, <1>2, <1>3, <1>4

(* The event in hand moves to the abandoned ones, uncounted, and the       *)
(* dispatcher to a place where it has none.                                *)
LEMMA AbandonStep ==
  ASSUME IInv, Abandon, running' \in BOOLEAN,
         dispatcher' \in {"off", "poll", "dead"}, ~running' => dispatcher' = "off"
  PROVE  IInv'
<1> USE DEF IInv, drainVars
<1>1. QueueTyped /\ Loop \in Tasks /\ CancelPut(Loop)
  BY DEF TypeOK, QueueTyped, Tasks, Abandon
<1>2. /\ QueueTyped' /\ PutInv'
      /\ UNCHANGED <<queue, unfinished, fresh>>
      /\ offer'[Loop] = None
      /\ \A u \in Tasks \ {Loop} : offer'[u] = offer[u]
  BY <1>1, CancelProperties
<1>3. /\ cur' = None /\ roster' = <<>> /\ todo' = {} /\ active' = None
      /\ abandoned' = IF cur = None THEN abandoned ELSE abandoned \cup {cur}
      /\ UNCHANGED <<lastSource, calls, owed, completed, overtakes,
                     drain, promised, subscribers>>
  BY DEF Abandon
<1>4. TypeOK'
  <2>1. abandoned' \subseteq Events /\ roster' \in Seq(Handlers)
    BY <1>3 DEF TypeOK
  <2> QED
    BY <1>2, <1>3, <2>1 DEF TypeOK, QueueTyped, Places
<1>5. LaneInv'
  BY <1>2 DEF LaneInv
<1>6. DispatchInv' /\ InversionInv'
  BY <1>2, <1>3 DEF DispatchInv, InversionInv, Waits
<1>7. Taken' = Taken \cup {None} /\ None \notin fresh \cup completed \cup abandoned'
  BY <1>3, BusAssumption DEF Taken, TypeOK
<1>8. EventInv'
  <2>1. \A m \in Lanes : \A i \in DOMAIN queue[m] : queue[m][i] # None
    BY BusAssumption DEF TypeOK
  <2> QED
    BY <1>2, <1>3, <1>7, <2>1 DEF EventInv
<1>9. FanInv'
  BY <1>3, <1>7, BusAssumption DEF FanInv
<1>10. AccountInv'
  <2>1. CASE cur = None
    BY <1>2, <1>3, <2>1 DEF AccountInv, UnfinishedAccounting
  <2>2. CASE cur # None
    <3>1. abandoned' = abandoned \cup {cur} /\ cur \notin abandoned
      BY <1>3, <2>2 DEF EventInv
    <3>2. IsFiniteSet(abandoned')
      BY <3>1, FS_AddElement DEF AccountInv
    <3>3. ASSUME NEW l \in Lanes
          PROVE  unfinished'[l] = Len(queue'[l]) + 0
                    + Cardinality({e \in abandoned' : LaneOf(e) = l})
      <4> DEFINE A == {e \in abandoned : LaneOf(e) = l}
                 B == {e \in abandoned' : LaneOf(e) = l}
      <4>1. IsFiniteSet(A) /\ cur \notin A /\ CutShort(l) = Cardinality(A)
        BY <3>1, FS_Subset DEF AccountInv, CutShort
      <4>2. CutShort(l) \in Nat /\ Len(queue[l]) \in Nat
        BY Accounts
      <4>3. CASE LaneOf(cur) = l
        <5>1. B = A \cup {cur}
          BY <3>1, <4>3
        <5>2. Cardinality(B) = CutShort(l) + 1
          BY <4>1, <5>1, FS_AddElement
        <5>3. unfinished[l] = Len(queue[l]) + CutShort(l) + 1
          BY <2>2, <4>3, Accounts
        <5> QED
          BY <1>2, <4>2, <5>2, <5>3
      <4>4. CASE LaneOf(cur) # l
        <5>1. B = A
          BY <3>1, <4>4
        <5>2. unfinished[l] = Len(queue[l]) + CutShort(l) + 0
          BY <4>4, Accounts
        <5>3. Cardinality(B) = CutShort(l)
          BY <4>1, <5>1
        <5> HIDE DEF A, B
        <5>4. unfinished'[l] = Len(queue'[l]) + 0 + Cardinality(B)
          BY <1>2, <4>2, <5>2, <5>3
        <5> QED
          BY <5>4 DEF B
      <4> QED
        BY <4>3, <4>4
    <3> QED
      BY <1>3, <3>2, <3>3 DEF AccountInv, UnfinishedAccounting
  <2> QED
    BY <2>1, <2>2
<1>11. DrainInv'
  <2> SUFFICES ASSUME drain # None, NEW e \in promised \ completed
               PROVE  /\ LaneOf(e) \in drain
                      /\ \/ e \in abandoned'
                         \/ \E m \in Lanes : e \in ToSet(queue[m])
    BY <1>2, <1>3 DEF DrainInv
  <2>1. e # None
    BY BusAssumption DEF TypeOK
  <2> QED
    BY <1>3, <2>1 DEF DrainInv
<1> QED
  BY <1>2, <1>4, <1>5, <1>6, <1>8, <1>9, <1>10, <1>11

(* Subscribing leaves the dispatch under way alone.                        *)
LEMMA SubscriptionStep ==
  ASSUME IInv, NEW h \in Handlers, Subscribe(h) \/ Unsubscribe(h)
  PROVE  IInv'
<1> USE DEF IInv, queueVars, loopVars, ghostVars, drainVars
<1>1. subscribers' \in Seq(Handlers)
  <2>1. CASE Subscribe(h)
    BY <2>1 DEF Subscribe, TypeOK
  <2>2. CASE Unsubscribe(h)
    <3>1. RemoveAt(subscribers, IndexOf(subscribers, h)) \in Seq(Handlers)
      <4>1. IndexOf(subscribers, h) \in 1..Len(subscribers)
        BY <2>2 DEF Unsubscribe, ToSet, IndexOf, TypeOK
      <4> QED
        BY <4>1 DEF RemoveAt, TypeOK
    <3> QED
      BY <2>2, <3>1 DEF Unsubscribe, Without, TypeOK
  <2> QED
    BY <2>1, <2>2
<1>2. UNCHANGED <<queueVars, loopVars, ghostVars, drainVars>>
  BY DEF Subscribe, Unsubscribe
<1>3. TypeOK'
  BY <1>1, <1>2 DEF TypeOK
<1>4. LaneInv' /\ PutInv' /\ EventInv' /\ FanInv'
  BY <1>2 DEF LaneInv, PutInv, EventInv, FanInv, Taken
<1>5. DispatchInv' /\ InversionInv'
  BY <1>2 DEF DispatchInv, InversionInv
<1>6. AccountInv' /\ DrainInv'
  BY <1>2 DEF AccountInv, UnfinishedAccounting, DrainInv
<1> QED
  BY <1>3, <1>4, <1>5, <1>6

(* drain() promises what the lanes and the dispatcher hold, all of it      *)
(* counted.                                                                *)
LEMMA DrainStep ==
  ASSUME IInv, DrainCall \/ DrainReturn
  PROVE  IInv'
<1> USE DEF IInv, queueVars, loopVars, ghostVars
<1>1. UNCHANGED <<queueVars, loopVars, ghostVars, subscribers>>
  BY DEF DrainCall, DrainReturn
<1>2. /\ \A l \in Lanes : ToSet(queue[l]) \subseteq Events
      /\ cur # None => cur \in Events
  BY DEF TypeOK, ToSet
<1>3. TypeOK'
  <2>1. drain' \in {None} \cup SUBSET Lanes /\ promised' \subseteq Events
    BY <1>2 DEF DrainCall, DrainReturn
  <2> QED
    BY <1>1, <2>1 DEF TypeOK
<1>4. LaneInv' /\ PutInv' /\ EventInv' /\ FanInv'
  BY <1>1 DEF LaneInv, PutInv, EventInv, FanInv, Taken
<1>5. DispatchInv' /\ InversionInv'
  BY <1>1 DEF DispatchInv, InversionInv
<1>6. AccountInv'
  BY <1>1 DEF AccountInv, UnfinishedAccounting
<1>7. DrainInv'
  <2>1. CASE DrainReturn
    BY <2>1 DEF DrainReturn, DrainInv
  <2>2. CASE DrainCall
    <3> SUFFICES ASSUME NEW e \in promised'
                 PROVE  /\ LaneOf(e) \in drain'
                        /\ \/ e = cur
                           \/ \E l \in Lanes : e \in ToSet(queue[l])
      BY <1>1 DEF DrainInv
    <3>1. \/ e = cur /\ cur # None
          \/ \E l \in Lanes : e \in ToSet(queue[l])
      BY <2>2 DEF DrainCall
    <3>2. CASE e = cur /\ cur # None
      <4>1. LaneOf(e) \in Lanes
        BY LaneOfType
      <4>2. unfinished[LaneOf(e)] > 0
        BY <3>2, <4>1, Accounts
      <4> QED
        BY <2>2, <3>2, <4>1, <4>2 DEF DrainCall
    <3>3. ASSUME NEW l \in Lanes, e \in ToSet(queue[l])
          PROVE  LaneOf(e) \in drain'
      <4>1. LaneOf(e) = l /\ queue[l] # <<>>
        BY <3>3 DEF ToSet, LaneInv
      <4>2. Len(queue[l]) # 0
        BY <4>1 DEF TypeOK
      <4>3. unfinished[l] > 0
        BY <4>2, Accounts
      <4> QED
        BY <2>2, <4>1, <4>3 DEF DrainCall
    <3> QED
      BY <3>1, <3>2, <3>3
  <2> QED
    BY <2>1, <2>2
<1> QED
  BY <1>3, <1>4, <1>5, <1>6, <1>7

-----------------------------------------------------------------------------
(* Every step preserves the invariant.                                     *)
LEMMA NextIInv == IInv /\ [Next]_vars => IInv'
<1> SUFFICES ASSUME IInv, [Next]_vars PROVE IInv'
  OBVIOUS
<1> USE DEF Lanes
<1>1. CASE Created
  BY <1>1, MoveStep DEF Created, Waits
<1>2. CASE PollHigh
  BY <1>2, TakeStep DEF PollHigh
<1>3. CASE PollNormal
  BY <1>3, TakeStep DEF PollNormal
<1>4. CASE PollEmpty
  <2>1. overtakes = 0
    BY <1>4 DEF PollEmpty, IInv, InversionInv
  <2> QED
    BY <1>4, <2>1, MoveStep DEF PollEmpty
<1>5. CASE HighWaitTake
  BY <1>5, TakeStep DEF HighWaitTake
<1>6. CASE NormalWaitTake
  BY <1>6, TakeStep DEF NormalWaitTake, Waits
<1>7. CASE HighWaitTimeout
  <2>1. overtakes = 0
    BY <1>7 DEF HighWaitTimeout, IInv, InversionInv, Waits
  <2> QED
    BY <1>7, <2>1, MoveStep DEF HighWaitTimeout
<1>8. CASE NormalWaitTimeout
  BY <1>8, MoveStep DEF NormalWaitTimeout, Waits
<1>9. CASE \E h \in Handlers : CallHandler(h)
  BY <1>9, CallStep
<1>10. CASE HandlerTimeout
  BY <1>10, HandlerTimeoutStep
<1>11. CASE Acknowledge
  BY <1>11, AcknowledgeStep
<1>12. CASE HandlerDone
  BY <1>12, HandlerDoneStep
<1>13. CASE \E e \in Events : HandlerPublish(e)
  <2>1. Loop \in Tasks
    BY DEF Tasks
  <2> QED
    BY <1>13, <2>1, PublishStep DEF HandlerPublish
<1>14. CASE \E p \in Publishers, e \in Events : Publish(p, e)
  BY <1>14, PublishStep DEF Publish, Tasks
<1>15. CASE \E t \in Tasks : ResumePut(t)
  BY <1>15, ResumeStep
<1>16. CASE \E h \in Handlers : Subscribe(h) \/ Unsubscribe(h)
  BY <1>16, SubscriptionStep
<1>17. CASE Start
  BY <1>17, StartStep
<1>18. CASE Stop \/ DispatchRaises("poll") \/ DispatchRaises("dead")
  <2>1. /\ Abandon /\ running' \in BOOLEAN
        /\ dispatcher' \in {"off", "poll", "dead"}
        /\ ~running' => dispatcher' = "off"
    BY <1>18 DEF Stop, DispatchRaises, IInv, TypeOK, DispatchInv
  <2> QED
    BY <2>1, AbandonStep
<1>19. CASE DrainCall \/ DrainReturn
  BY <1>19, DrainStep
<1>20. CASE UNCHANGED vars
  <2> USE <1>20 DEF vars, queueVars, loopVars, ghostVars, drainVars, IInv
  <2>1. TypeOK' /\ LaneInv' /\ PutInv' /\ DispatchInv'
    BY DEF TypeOK, LaneInv, PutInv, DispatchInv
  <2>2. EventInv' /\ FanInv' /\ InversionInv' /\ AccountInv' /\ DrainInv'
    BY DEF EventInv, FanInv, Taken, InversionInv, AccountInv,
           UnfinishedAccounting, DrainInv
  <2> QED
    BY <2>1, <2>2
<1> QED
  BY <1>1, <1>2, <1>3, <1>4, <1>5, <1>6, <1>7, <1>8, <1>9, <1>10, <1>11,
     <1>12, <1>13, <1>14, <1>15, <1>16, <1>17, <1>18, <1>19, <1>20
     DEF Next, DispatcherStep, GetEvent, Wait

(* The invariant holds in every reachable state.                           *)
LEMMA SpecIInv == Spec => []IInv
  BY InitIInv, NextIInv, PTL DEF Spec

(* Every variable of the bus keeps its type, the unfinished counts staying *)
(* natural numbers: task_done is never called too often.                   *)
THEOREM TypeCorrect == Spec => []TypeOK
<1>1. IInv => TypeOK
  BY DEF IInv
<1> QED
  BY <1>1, SpecIInv, PTL

(* Every acknowledged event was offered exactly once to each subscriber it *)
(* had when its dispatch began, and no event to any subscriber twice.      *)
THEOREM FanoutCorrect == Spec => []FanoutExactlyOnce
<1>1. IInv => FanoutExactlyOnce
  BY DEF IInv, FanInv, FanoutExactlyOnce
<1> QED
  BY <1>1, SpecIInv, PTL

(* A lane's unfinished count is what waits in it, plus the event in hand   *)
(* if it came from there, plus the events cut short.                       *)
THEOREM AccountingCorrect == Spec => []UnfinishedAccounting
<1>1. IInv => UnfinishedAccounting
  BY DEF IInv, AccountInv
<1> QED
  BY <1>1, SpecIInv, PTL

(* drain() returns only when every event accepted before the call has been *)
(* acknowledged.                                                           *)
THEOREM DrainCorrect == Spec => []DrainCoversAccepted
<1>1. IInv => DrainCoversAccepted
  BY BusAssumption DEF IInv, DrainInv, DrainCoversAccepted, TypeOK
<1> QED
  BY <1>1, SpecIInv, PTL

(* At most one normal event overtakes a waiting high-priority one.         *)
THEOREM InversionBounded == Spec => []BoundedInversion
<1>1. IInv => BoundedInversion
  BY DEF IInv, InversionInv, BoundedInversion
<1> QED
  BY <1>1, SpecIInv, PTL

-----------------------------------------------------------------------------
(* The refinement: each step of the bus is one of Delivery, or none.       *)

(* A put that finds room accepts the event, one that does not is unseen.   *)
LEMMA EnqueueAccepts ==
  ASSUME IInv, NEW t \in Tasks, NEW e \in Events, Enqueue(t, e),
         e \in fresh \/ offer[t] = e,
         UNCHANGED <<loopVars, ghostVars>>
  PROVE  Promise!Accept(e) \/ UNCHANGED Promise!vars
<1> USE DEF loopVars, ghostVars
<1>1. CASE Full(LaneOf(e))
  BY <1>1 DEF Enqueue, Promise!vars
<1>2. CASE ~Full(LaneOf(e))
  <2>1. e \notin completed \cup abandoned \cup {cur}
    BY BusAssumption DEF IInv, EventInv, Taken
  <2>2. \A l \in Lanes : \A i \in DOMAIN queue[l] : queue[l][i] # e
    BY BusAssumption DEF IInv, EventInv
  <2>3. queue' = [queue EXCEPT ![LaneOf(e)] = Append(queue[LaneOf(e)], e)]
    BY <1>2 DEF Enqueue
  <2> QED
    BY <2>1, <2>2, <2>3 DEF Promise!Accept, Promise!IsPending
<1> QED
  BY <1>1, <1>2

(* What the dispatcher takes is the head of its lane, its hands being      *)
(* empty.                                                                  *)
LEMMA TakeTakes ==
  ASSUME IInv, NEW l \in Lanes, Take(l), dispatcher # "dispatch"
  PROVE  Promise!Take(l)
<1>1. cur = None
  BY DEF IInv, DispatchInv
<1>2. todo' \in SUBSET Handlers
  BY DEF Take, HandlersFor, IInv, TypeOK, ToSet
<1> QED
  BY <1>1, <1>2 DEF Take, Dequeue, Promise!Take

(* A dispatch given up loses its event and nothing else.                   *)
LEMMA AbandonLoses ==
  ASSUME IInv, Abandon
  PROVE  Promise!Lose \/ UNCHANGED Promise!vars
<1>1. queue' = queue
  BY DEF Abandon, CancelPut, queueVars
<1>2. CASE cur = None
  <2>1. todo = {}
    BY <1>2 DEF IInv, DispatchInv
  <2> QED
    BY <1>1, <1>2, <2>1 DEF Abandon, Promise!vars
<1>3. CASE cur # None
  BY <1>1, <1>3 DEF Abandon, Promise!Lose
<1> QED
  BY <1>2, <1>3

LEMMA StepImplements ==
  IInv /\ [Next]_vars => [Promise!Next]_(Promise!vars)
<1> SUFFICES ASSUME IInv, [Next]_vars
             PROVE  Promise!Next \/ UNCHANGED Promise!vars
  OBVIOUS
<1> USE DEF Lanes
<1>1. CASE UNCHANGED <<queue, cur, todo, calls, completed, abandoned>>
  BY <1>1 DEF Promise!vars
<1>2. CASE PollHigh \/ PollNormal \/ HighWaitTake \/ NormalWaitTake
  BY <1>2, TakeTakes
     DEF PollHigh, PollNormal, HighWaitTake, NormalWaitTake, Promise!Next
<1>3. ASSUME NEW h \in Handlers, CallHandler(h)
      PROVE  Promise!Show(h)
  BY <1>3 DEF CallHandler, queueVars, Promise!Show
<1>4. CASE Acknowledge
  <2>1. cur # None
    BY <1>4 DEF Acknowledge, IInv, DispatchInv
  <2> QED
    BY <1>4, <2>1 DEF Acknowledge, Promise!Settle, Promise!Next
<1>5. CASE Stop \/ DispatchRaises("poll") \/ DispatchRaises("dead")
  BY <1>5, AbandonLoses DEF Stop, DispatchRaises, Promise!Next
<1>6. ASSUME NEW e \in Events, HandlerPublish(e)
      PROVE  Promise!Next \/ UNCHANGED Promise!vars
  <2>1. Loop \in Tasks
    BY DEF Tasks
  <2> QED
    BY <1>6, <2>1, EnqueueAccepts DEF HandlerPublish, Promise!Next
<1>7. ASSUME NEW p \in Publishers, NEW e \in Events, Publish(p, e)
      PROVE  Promise!Next \/ UNCHANGED Promise!vars
  <2>1. p \in Tasks
    BY DEF Tasks
  <2> QED
    BY <1>7, <2>1, EnqueueAccepts DEF Publish, Promise!Next
<1>8. ASSUME NEW t \in Tasks, ResumePut(t)
      PROVE  Promise!Next \/ UNCHANGED Promise!vars
  <2>1. offer[t] \in Events
    BY <1>8 DEF ResumePut, IInv, PutInv, TypeOK
  <2> QED
    BY <1>8, <2>1, EnqueueAccepts DEF ResumePut, Promise!Next
<1>9. CASE HandlerTimeout
  BY <1>9, <1>1 DEF HandlerTimeout, CancelPut, queueVars, ghostVars
<1>10. CASE \/ Created \/ PollEmpty \/ Wait \/ HandlerDone \/ Start
            \/ DrainCall \/ DrainReturn
            \/ \E h \in Handlers : Subscribe(h) \/ Unsubscribe(h)
  BY <1>10, <1>1 DEF Created, PollEmpty, Wait, HighWaitTimeout, NormalWaitTimeout,
     MoveTo, HandlerDone, Start, DrainCall, DrainReturn, Subscribe, Unsubscribe,
     queueVars, loopVars, ghostVars
<1>11. CASE UNCHANGED vars
  BY <1>11, <1>1 DEF vars, queueVars, loopVars, ghostVars
<1> QED
  BY <1>2, <1>3, <1>4, <1>5, <1>6, <1>7, <1>8, <1>9, <1>10, <1>11
     DEF Next, DispatcherStep, GetEvent, Promise!Next

(* The bus implements Delivery: whatever its subscribers, its publishers   *)
(* and the timers do, events leave a lane in the order they were accepted  *)
(* in, each goes to its subscribers once, one event at a time, and no      *)
(* other event than the one in hand is ever lost.                          *)
THEOREM BusDelivers == Spec => DeliversAsPromised
<1>1. Init => Promise!Init
  BY DEF Init, Promise!Init
<1> QED
  BY <1>1, SpecIInv, StepImplements, PTL
     DEF Spec, DeliversAsPromised, Promise!Spec
=============================================================================
