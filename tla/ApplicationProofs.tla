-------------------------- MODULE ApplicationProofs --------------------------
(***************************************************************************)
(* Theorems about Application and the ReplayEngine in it: the replay plays *)
(* its events in order and once, sync_mode follows run(), the clock shows  *)
(* the event played, no event is dispatched in an application that is only *)
(* half wired, and the journal shows what was published inside what.       *)
(*                                                                         *)
(* The invariant IInv has three parts: EngineInv about run() and step() in *)
(* whatever order they are called, Plays about what they have played and   *)
(* when an application still plays, and Dispatching about the phases of    *)
(* startup and shutdown. ClockInv adds the clock; Feeds and Nest add where *)
(* every published event is. Each is kept by one lemma for each kind of    *)
(* step.                                                                   *)
(***************************************************************************)
EXTENDS Application, FiniteSetTheorems, SequenceTheorems, TLAPS

(* The events there are to play; everything played is one of them.         *)
Loaded == {events[i] : i \in 1..Len(events)}

Types ==
  /\ events \in Seq(Loaded) /\ played \in Seq(Loaded)
  /\ index \in Nat
  /\ running \in BOOLEAN /\ syncMode \in BOOLEAN /\ raced \in BOOLEAN
  /\ place \in [Players -> {"off", "top", "publishing", "waiting"}]
  /\ place["step"] \in {"off", "publishing"}

(* Unless calls have raced there is one at most.                           *)
OneCall == ~raced => \A p, q \in Players : "off" \in {place[p], place[q]} \/ p = q

(* Whoever ends last turns sync_mode off, raced or not.                    *)
SyncEnds == (\A p \in Runs : place[p] = "off") => ~syncMode

EngineInv == Types /\ OneCall /\ SyncEnds /\ SyncWhileRunning

-----------------------------------------------------------------------------
(* Sorting a list: which of the places in kept its n-th element comes from. *)
Rank(list, kept, i) == Cardinality({j \in kept : Before(list, j, i)})
Place(list, kept, n) == CHOOSE i \in kept : Rank(list, kept, i) = n - 1

LEMMA IntervalSize ==
  ASSUME NEW n \in Nat
  PROVE  IsFiniteSet(1..n) /\ Cardinality(1..n) = n
BY FS_Interval

LEMMA Lexicographic ==
  ASSUME NEW i \in Nat, NEW j \in Nat, NEW k \in Nat,
         NEW a \in Nat, NEW b \in Nat, NEW c \in Nat
  PROVE  /\ ~(a < a \/ (a = a /\ i < i))
         /\ i # j => (a < b \/ (a = b /\ i < j)) \/ (b < a \/ (b = a /\ j < i))
         /\ (a < b \/ (a = b /\ i < j)) => ~(b < a \/ (b = a /\ j < i))
         /\ (a < b \/ (a = b /\ i < j)) /\ (b < c \/ (b = c /\ j < k))
              => a < c \/ (a = c /\ i < k)
OBVIOUS

LEMMA BeforeOrders ==
  ASSUME NEW list, NEW i \in Nat, NEW j \in Nat, NEW k \in Nat,
         Time[list[i]] \in Nat, Time[list[j]] \in Nat, Time[list[k]] \in Nat
  PROVE  /\ ~Before(list, i, i)
         /\ i # j => Before(list, i, j) \/ Before(list, j, i)
         /\ Before(list, i, j) => ~Before(list, j, i)
         /\ Before(list, i, j) /\ Before(list, j, k) => Before(list, i, k)
<1>1. PICK a \in Nat, b \in Nat, c \in Nat :
        a = Time[list[i]] /\ b = Time[list[j]] /\ c = Time[list[k]]
  OBVIOUS
<1> QED
  BY ONLY <1>1, i \in Nat, j \in Nat, k \in Nat, Lexicographic DEF Before

LEMMA RankBounds ==
  ASSUME NEW list, NEW kept, IsFiniteSet(kept), kept \subseteq Nat,
         \A i \in kept : Time[list[i]] \in Nat, NEW i \in kept
  PROVE  /\ Rank(list, kept, i) \in Nat /\ Rank(list, kept, i) < Cardinality(kept)
         /\ \A j \in kept : Before(list, j, i) => Rank(list, kept, j) < Rank(list, kept, i)
<1> DEFINE Earlier(j) == {k \in kept : Before(list, k, j)}
<1>1. ASSUME NEW j \in kept
      PROVE  IsFiniteSet(Earlier(j)) /\ Cardinality(Earlier(j)) \in Nat
  <2>1. Earlier(j) \in SUBSET kept
    OBVIOUS
  <2> HIDE DEF Earlier
  <2>2. IsFiniteSet(Earlier(j))
    BY <2>1, FS_Subset
  <2> QED
    BY <2>2, FS_CardinalityType
<1>5. \A j, k, l \in kept :
        /\ ~Before(list, j, j)
        /\ Before(list, j, k) /\ Before(list, k, l) => Before(list, j, l)
  BY BeforeOrders
<1>2. i \notin Earlier(i)
  BY <1>5
<1>3. Cardinality(Earlier(i)) < Cardinality(kept)
  <2>1. Earlier(i) \subseteq kept \ {i} /\ IsFiniteSet(kept \ {i})
    BY <1>2, FS_RemoveElement
  <2> HIDE DEF Earlier
  <2>2. Cardinality(kept \ {i}) = Cardinality(kept) - 1 /\ Cardinality(kept) \in Nat
    BY FS_RemoveElement, FS_CardinalityType
  <2>3. Cardinality(Earlier(i)) <= Cardinality(kept \ {i})
    BY <2>1, FS_Subset
  <2> QED
    BY <1>1, <2>2, <2>3
<1>4. ASSUME NEW j \in kept, Before(list, j, i)
      PROVE  Cardinality(Earlier(j)) < Cardinality(Earlier(i))
  <2>1. Earlier(j) \subseteq Earlier(i) /\ j \in Earlier(i) /\ j \notin Earlier(j)
    BY <1>4, <1>5
  <2> HIDE DEF Earlier
  <2>2. Cardinality(Earlier(j)) <= Cardinality(Earlier(i))
        /\ (Cardinality(Earlier(i)) = Cardinality(Earlier(j)) => Earlier(i) = Earlier(j))
    BY <1>1, <2>1, FS_Subset
  <2> QED
    BY <1>1, <2>1, <2>2
<1> QED
  BY <1>1, <1>3, <1>4 DEF Rank

LEMMA PlaceIs ==
  ASSUME NEW list, NEW kept, IsFiniteSet(kept), kept \subseteq Nat,
         \A i \in kept : Time[list[i]] \in Nat, NEW n \in 1..Cardinality(kept)
  PROVE  Place(list, kept, n) \in kept /\ Rank(list, kept, Place(list, kept, n)) = n - 1
<1> DEFINE N == Cardinality(kept)
           rank == [i \in kept |-> Rank(list, kept, i) + 1]
<1>1. N \in Nat
  BY FS_CardinalityType
<1>8. \A i \in kept : Rank(list, kept, i) \in Nat /\ Rank(list, kept, i) < N
  BY RankBounds
<1>9. \A i, j \in kept : Before(list, j, i) => Rank(list, kept, j) < Rank(list, kept, i)
  BY RankBounds
<1> HIDE DEF N
<1>2. \A i \in kept : rank[i] \in 1..N
  BY <1>1, <1>8
<1>3. \A i, j \in kept : rank[i] = rank[j] => i = j
  <2>1. SUFFICES ASSUME NEW i \in kept, NEW j \in kept, i # j
                 PROVE  rank[i] # rank[j]
    OBVIOUS
  <2>2. Before(list, i, j) \/ Before(list, j, i)
    BY <2>1, BeforeOrders
  <2> QED
    BY <1>8, <1>9, <2>1, <2>2
<1>4. rank \in Injection(kept, 1..N)
  BY <1>2, <1>3 DEF Injection, IsInjective
<1>5. rank \in Surjection(kept, 1..N)
  <2>1. IsFiniteSet(1..N) /\ Cardinality(1..N) = N
    BY <1>1, FS_Interval
  <2> HIDE DEF rank
  <2> QED
    BY <1>4, <2>1, FS_Injection DEF N
<1>6. \E i \in kept : rank[i] = n
  BY <1>5 DEF Surjection, N
<1>7. \E i \in kept : Rank(list, kept, i) = n - 1
  BY <1>1, <1>6, <1>8
<1> QED
  BY <1>7 DEF Place

LEMMA SortedIs ==
  ASSUME NEW list, NEW kept, IsFiniteSet(kept), kept \subseteq Nat,
         \A i \in kept : list[i] \in Events,
         NEW s, s = Sorted(list, kept)
  PROVE  /\ s \in Seq(Events) /\ Len(s) = Cardinality(kept)
         /\ (\A i, j \in kept : list[i] = list[j] => i = j)
              => \A m, n \in 1..Len(s) : s[m] = s[n] => m = n
         /\ \A m, n \in 1..Len(s) : m < n => Time[s[m]] <= Time[s[n]]
<1> DEFINE N == Cardinality(kept)
           P(n) == Place(list, kept, n)
<1>1. N \in Nat /\ \A i \in kept : Time[list[i]] \in Nat
  BY FS_CardinalityType, FeedAssumption
<1>2. s = [n \in 1..N |-> list[P(n)]]
  BY DEF Sorted, Place, Rank
<1>3. \A n \in 1..N : P(n) \in kept /\ Rank(list, kept, P(n)) = n - 1
  BY <1>1, PlaceIs
<1> HIDE DEF P
<1>4. s \in [1..N -> Events]
  BY <1>2, <1>3
<1>5. s \in Seq(Events) /\ Len(s) = N
  BY <1>1, <1>4
<1>6. ASSUME \A i, j \in kept : list[i] = list[j] => i = j,
             NEW m \in 1..N, NEW n \in 1..N, s[m] = s[n]
      PROVE  m = n
  <2>1. P(m) = P(n)
    BY <1>2, <1>3, <1>6
  <2> QED
    BY <1>1, <1>3, <2>1
<1>7. ASSUME NEW m \in 1..N, NEW n \in 1..N, m < n
      PROVE  Time[s[m]] <= Time[s[n]]
  <2>1. /\ s[m] = list[P(m)] /\ s[n] = list[P(n)] /\ P(m) \in kept /\ P(n) \in kept
        /\ Rank(list, kept, P(m)) = m - 1 /\ Rank(list, kept, P(n)) = n - 1
    BY <1>2, <1>3
  <2>2. ~Before(list, P(n), P(m))
    <3>1. Before(list, P(n), P(m)) => Rank(list, kept, P(n)) < Rank(list, kept, P(m))
      BY <1>1, <2>1, RankBounds
    <3>2. ~(n - 1 < m - 1)
      BY <1>1, <1>7
    <3> QED
      BY <2>1, <3>1, <3>2
  <2>3. Time[list[P(m)]] \in Nat /\ Time[list[P(n)]] \in Nat
    BY <1>1, <2>1
  <2> QED
    BY <2>1, <2>2, <2>3 DEF Before
<1> QED
  BY <1>5, <1>6, <1>7

(* What a file gives to play: its readable rows, each once, by their time. *)
LEMMA LoadedIs ==
  ASSUME NEW rows \in Files, NEW range, NEW list, list = LoadCsv(rows, range),
         NEW s, s = SortedByTime(list)
  PROVE  /\ list \in Seq(Events) /\ s \in Seq(Events) /\ Len(s) = Len(list)
         /\ IsInjective(rows) => \A m, n \in 1..Len(s) : s[m] = s[n] => m = n
         /\ \A m, n \in 1..Len(s) : m < n => Time[s[m]] <= Time[s[n]]
<1>1. rows \in Seq(Events)
  BY ReplayAssumption
<1>2. IsFiniteSet(DOMAIN rows) /\ DOMAIN rows \subseteq Nat
  <2>1. DOMAIN rows = 1..Len(rows) /\ Len(rows) \in Nat
    BY <1>1
  <2> QED
    BY <2>1, FS_Interval
<1>3. PICK kept : kept \subseteq DOMAIN rows /\ list = Sorted(rows, kept)
  BY DEF LoadCsv
<1>4. IsFiniteSet(kept) /\ kept \subseteq Nat /\ \A i \in kept : rows[i] \in Events
  BY <1>1, <1>2, <1>3, FS_Subset
<1>5. IsInjective(rows) => \A i, j \in kept : rows[i] = rows[j] => i = j
  BY <1>3 DEF IsInjective
<1>6. /\ list \in Seq(Events)
      /\ (\A i, j \in kept : rows[i] = rows[j] => i = j)
           => \A m, n \in 1..Len(list) : list[m] = list[n] => m = n
  BY <1>3, <1>4, SortedIs
<1>7. DOMAIN list = 1..Len(list) /\ Len(list) \in Nat
  BY <1>6
<1>8. IsFiniteSet(DOMAIN list) /\ Cardinality(DOMAIN list) = Len(list)
  <2>1. PICK n \in Nat : n = Len(list)
    BY <1>7
  <2>2. IsFiniteSet(1..n) /\ Cardinality(1..n) = n
    BY IntervalSize
  <2> QED
    BY <1>7, <2>1, <2>2
<1>9. DOMAIN list \subseteq Nat /\ \A i \in DOMAIN list : list[i] \in Events
  BY <1>6, <1>7
<1>10. s = Sorted(list, DOMAIN list)
  BY DEF SortedByTime
<1>11. /\ s \in Seq(Events) /\ Len(s) = Cardinality(DOMAIN list)
       /\ (\A i, j \in DOMAIN list : list[i] = list[j] => i = j)
            => \A m, n \in 1..Len(s) : s[m] = s[n] => m = n
       /\ \A m, n \in 1..Len(s) : m < n => Time[s[m]] <= Time[s[n]]
  BY <1>8, <1>9, <1>10, SortedIs
<1> QED
  BY <1>5, <1>6, <1>7, <1>8, <1>11

LEMMA LoadedIsSequence ==
  ASSUME NEW rows \in Files, NEW range
  PROVE  LET s == SortedByTime(LoadCsv(rows, range))
         IN  s \in Seq({s[i] : i \in 1..Len(s)})
<1> DEFINE s == SortedByTime(LoadCsv(rows, range))
<1>1. s \in Seq(Events)
  BY LoadedIs
<1> HIDE DEF s
<1>2. s \in Seq({s[i] : i \in 1..Len(s)})
  BY <1>1
<1> QED
  BY <1>2 DEF s

-----------------------------------------------------------------------------
(* What the engine does. Loading: nothing plays, so no call has raced and  *)
(* the bus is asynchronous.                                                *)
LEMMA LoadKeeps ==
  ASSUME EngineInv, NEW rows \in Files, NEW range, LoadEvents(LoadCsv(rows, range))
  PROVE  EngineInv'
<1>1. events' \in Seq(Loaded') /\ played' = <<>> /\ index' = 0 /\ raced' = FALSE
  BY LoadedIsSequence DEF LoadEvents, Loaded
<1>2. UNCHANGED <<running, syncMode, place>> /\ Idle
  BY DEF LoadEvents
<1>3. Types'
  <2>1. played' \in Seq(Loaded')
    BY <1>1
  <2>2. running' \in BOOLEAN /\ syncMode' \in BOOLEAN /\ raced' \in BOOLEAN
    BY <1>1, <1>2 DEF EngineInv, Types
  <2>3. index' \in Nat
    BY <1>1
  <2> QED
    BY <1>1, <1>2, <2>1, <2>2, <2>3 DEF EngineInv, Types
<1>4. \A p \in Players : place[p] = "off"
  BY <1>2 DEF Idle
<1>5. ~syncMode
  BY <1>4 DEF EngineInv, SyncEnds, Players
<1> QED
  BY <1>2, <1>3, <1>4, <1>5 DEF EngineInv, OneCall, SyncEnds, SyncWhileRunning, Players

LEMMA RunKeeps ==
  ASSUME EngineInv, NEW p \in Runs, Run(p)
  PROVE  EngineInv'
<1>1. /\ UNCHANGED <<events, index, played>>
      /\ running' = TRUE /\ syncMode' = TRUE
      /\ place' = [place EXCEPT ![p] = "top"]
      /\ raced' = (raced \/ ~Idle)
  BY DEF Run, Enter, MoveTo
<1>2. p \in Players /\ p # "step"
  BY DEF Players, Runs
<1>3. Types'
  <2>1. running' \in BOOLEAN /\ syncMode' \in BOOLEAN /\ raced' \in BOOLEAN
    BY <1>1
  <2> QED
    BY <1>1, <1>2, <2>1 DEF EngineInv, Types, Loaded
<1>4. place'[p] = "top" /\ \A q \in Players \ {p} : place'[q] = place[q]
  BY <1>1, <1>2 DEF EngineInv, Types
<1>5. OneCall'
  BY <1>1, <1>4 DEF OneCall, Idle
<1> QED
  BY <1>1, <1>3, <1>4, <1>5 DEF EngineInv, SyncEnds, SyncWhileRunning

(* The loop's end turns sync_mode off. If no call has raced it is the only *)
(* one that plays.                                                         *)
LEMMA LoopTopKeeps ==
  ASSUME EngineInv, NEW p \in Runs, LoopTop(p)
  PROVE  EngineInv'
<1>1. /\ place[p] = "top"
      /\ UNCHANGED <<events, index, raced>>
  BY DEF LoopTop
<1>2. p \in Players /\ p # "step"
  BY DEF Players, Runs
<1>3. CASE running' = FALSE /\ syncMode' = FALSE /\ MoveTo(p, "off") /\ UNCHANGED played
  <2>1. place'[p] = "off" /\ \A q \in Players \ {p} : place'[q] = place[q]
    BY <1>2, <1>3 DEF EngineInv, Types, MoveTo
  <2>2. Types'
    <3>1. running' \in BOOLEAN /\ syncMode' \in BOOLEAN /\ raced' \in BOOLEAN
      BY <1>1, <1>3 DEF EngineInv, Types
    <3> QED
      BY <1>1, <1>2, <1>3, <3>1 DEF EngineInv, Types, Loaded, MoveTo
  <2>3. ~raced => \A q \in Players : place'[q] = "off"
    BY <1>1, <1>2, <2>1 DEF EngineInv, OneCall
  <2> QED
    BY <1>1, <1>3, <2>1, <2>2, <2>3 DEF EngineInv, OneCall, SyncEnds,
       SyncWhileRunning, Players
<1>4. CASE /\ index < Len(events) /\ StartPublish
           /\ MoveTo(p, "publishing") /\ UNCHANGED <<running, syncMode>>
  <2>1. place'[p] = "publishing" /\ \A q \in Players \ {p} : place'[q] = place[q]
    BY <1>2, <1>4 DEF EngineInv, Types, MoveTo
  <2>2. events[index + 1] \in Loaded
    BY <1>4 DEF EngineInv, Types, Loaded
  <2>3. played' \in Seq(Loaded)
    BY <1>4, <2>2 DEF EngineInv, Types, StartPublish
  <2>4. Types'
    BY <1>1, <1>2, <1>4, <2>3 DEF EngineInv, Types, Loaded, MoveTo
  <2> QED
    BY <1>1, <1>4, <2>1, <2>4 DEF EngineInv, OneCall, SyncEnds, SyncWhileRunning
<1> QED
  BY <1>3, <1>4 DEF LoopTop

LEMMA PublishedKeeps ==
  ASSUME EngineInv, NEW p \in Players, Published(p)
  PROVE  EngineInv'
<1>1. /\ place[p] = "publishing" /\ index' = index + 1
      /\ UNCHANGED <<events, running, syncMode, played, raced>>
  BY DEF Published
<1>2. PICK where \in {"off", "waiting", "top"} :
        /\ place' = [place EXCEPT ![p] = where]
        /\ where = "off" <=> p = "step"
  BY DEF Published, AfterPublish, MoveTo
<1>3. place'[p] = where /\ \A q \in Players \ {p} : place'[q] = place[q]
  BY <1>2 DEF EngineInv, Types
<1>4. Types'
  BY <1>1, <1>2, <1>3 DEF EngineInv, Types, Loaded, Players
<1>5. \A r \in Runs : place'[r] = "off" <=> place[r] = "off"
  BY <1>1, <1>2, <1>3 DEF Players, Runs
<1>6. OneCall'
  BY <1>1, <1>3 DEF EngineInv, OneCall
<1> QED
  BY <1>1, <1>4, <1>5, <1>6 DEF EngineInv, SyncEnds, SyncWhileRunning

LEMMA WaitedKeeps ==
  ASSUME EngineInv, NEW p \in Runs, Waited(p)
  PROVE  EngineInv'
<1>1. /\ place[p] = "waiting" /\ place' = [place EXCEPT ![p] = "top"]
      /\ UNCHANGED <<events, index, running, syncMode, played, raced>>
  BY DEF Waited, MoveTo
<1>2. p \in Players /\ p # "step"
  BY DEF Players, Runs
<1>3. place'[p] = "top" /\ \A q \in Players \ {p} : place'[q] = place[q]
  BY <1>1, <1>2 DEF EngineInv, Types
<1>4. Types'
  BY <1>1, <1>2, <1>3 DEF EngineInv, Types, Loaded
<1> QED
  BY <1>1, <1>3, <1>4 DEF EngineInv, OneCall, SyncEnds, SyncWhileRunning

(* step() takes no part in sync_mode: alone, it leaves it off.             *)
LEMMA StepKeeps ==
  ASSUME EngineInv, Step
  PROVE  EngineInv'
<1>1. /\ place["step"] = "off" /\ index < Len(events)
      /\ place' = [place EXCEPT !["step"] = "publishing"]
      /\ raced' = (raced \/ ~Idle)
      /\ played' = Append(played, events[index + 1])
      /\ UNCHANGED <<events, index, running, syncMode>>
  BY DEF Step, Enter, MoveTo, StartPublish
<1>2. /\ place'["step"] = "publishing"
      /\ \A q \in Players \ {"step"} : place'[q] = place[q]
  BY <1>1 DEF EngineInv, Types, Players
<1>3. events[index + 1] \in Loaded
  BY <1>1 DEF EngineInv, Types, Loaded
<1>4. Types'
  <2>1. running' \in BOOLEAN /\ syncMode' \in BOOLEAN /\ raced' \in BOOLEAN
    BY <1>1 DEF EngineInv, Types
  <2>2. played' \in Seq(Loaded)
    BY <1>1, <1>3 DEF EngineInv, Types
  <2> QED
    BY <1>1, <1>3, <2>1, <2>2 DEF EngineInv, Types, Loaded, Players
<1>5. OneCall'
  BY <1>1, <1>2 DEF OneCall, Idle
<1>6. \A r \in Runs : place'[r] = place[r]
  BY <1>2 DEF Players, Runs
<1> QED
  BY <1>1, <1>4, <1>5, <1>6 DEF EngineInv, SyncEnds, SyncWhileRunning

(* Cancelling the run that the application plays.                          *)
LEMMA CancelKeeps ==
  ASSUME EngineInv, NEW p \in Runs, Cancel(p)
  PROVE  EngineInv'
<1>1. /\ place[p] # "off" /\ place' = [place EXCEPT ![p] = "off"]
      /\ running' = FALSE /\ syncMode' = FALSE
      /\ UNCHANGED <<events, index, played, raced>>
  BY DEF Cancel, MoveTo
<1>2. p \in Players /\ p # "step"
  BY DEF Players, Runs
<1>3. place'[p] = "off" /\ \A q \in Players \ {p} : place'[q] = place[q]
  BY <1>1, <1>2 DEF EngineInv, Types
<1>4. Types'
  <2>1. running' \in BOOLEAN /\ syncMode' \in BOOLEAN /\ raced' \in BOOLEAN
    BY <1>1 DEF EngineInv, Types
  <2> QED
    BY <1>1, <1>2, <1>3, <2>1 DEF EngineInv, Types, Loaded
<1>5. ~raced => \A q \in Players : place'[q] = "off"
  BY <1>1, <1>2, <1>3 DEF EngineInv, OneCall
<1> QED
  BY <1>1, <1>3, <1>4, <1>5 DEF EngineInv, OneCall, SyncEnds, SyncWhileRunning, Players

(* Whatever leaves these variables as they are.                            *)
LEMMA RestKeeps ==
  ASSUME EngineInv, UNCHANGED <<events, index, syncMode, place, played, raced>>,
         running' \in BOOLEAN
  PROVE  EngineInv'
BY DEF EngineInv, Types, Loaded, OneCall, SyncEnds, SyncWhileRunning

-----------------------------------------------------------------------------
(* What has been played are the first events there are, and as many as the *)
(* index says: while one is being published it is one ahead.               *)
Publishing == \E p \in Players : place[p] = "publishing"
Exact == ~raced => Len(played) = IF Publishing THEN index + 1 ELSE index
Prefix ==
  ~raced => /\ Len(played) <= Len(events)
            /\ \A i \in 1..Len(played) : played[i] = events[i]

LEMMA PrefixIsPrefix ==
  ASSUME Types, Prefix
  PROVE  PlayedInOrderOnce
<1> SUFFICES ASSUME ~raced PROVE IsPrefix(played, events)
  BY DEF PlayedInOrderOnce
<1>1. /\ played \in Seq(Loaded) /\ events \in Seq(Loaded)
      /\ Len(played) \in Nat /\ Len(played) <= Len(events)
      /\ \A i \in 1..Len(played) : played[i] = events[i]
  BY DEF Types, Prefix
<1>2. SubSeq(played, 1, Len(played)) = SubSeq(events, 1, Len(played))
  BY <1>1
<1> QED
  BY <1>1, <1>2 DEF IsPrefix

(* The next event is played by the only call there is.                     *)
LEMMA PlayNext ==
  ASSUME EngineInv, Exact, Prefix, ~raced, ~Publishing,
         index < Len(events), UNCHANGED events,
         played' = Append(played, events[index + 1])
  PROVE  Prefix' /\ Len(played') = index + 1
<1>1. Len(played) = index /\ index \in Nat
  BY DEF EngineInv, Types, Exact
<1>2. events[index + 1] \in Loaded
  BY <1>1 DEF EngineInv, Types, Loaded
<1>3. Len(played') = index + 1 /\ played'[index + 1] = events[index + 1]
  BY <1>1, <1>2 DEF EngineInv, Types
<1>4. \A i \in 1..index : played'[i] = played[i]
  BY <1>1, <1>2 DEF EngineInv, Types
<1>5. \A i \in 1..Len(played') : played'[i] = events'[i]
  BY <1>1, <1>3, <1>4 DEF Prefix
<1>6. Len(played') <= Len(events')
  BY <1>3 DEF EngineInv, Types
<1> QED
  BY <1>3, <1>5, <1>6 DEF Prefix

LEMMA LoadPlays ==
  ASSUME EngineInv, NEW rows \in Files, NEW range, LoadEvents(LoadCsv(rows, range))
  PROVE  Exact' /\ Prefix'
<1>1. played' = <<>> /\ index' = 0 /\ place' = place /\ Idle
  BY DEF LoadEvents
<1>2. ~Publishing'
  BY <1>1 DEF Publishing, Idle
<1>3. Len(events') \in Nat
  BY LoadedIsSequence DEF LoadEvents
<1> QED
  BY <1>1, <1>2, <1>3 DEF Exact, Prefix

(* A call that comes to where nothing is published, or goes from there.    *)
LEMMA MovePlays ==
  ASSUME EngineInv, Exact, Prefix, NEW p \in Players, place[p] # "publishing",
         NEW where, where # "publishing", place' = [place EXCEPT ![p] = where],
         UNCHANGED <<events, index, played>>, ~raced' => ~raced
  PROVE  Exact' /\ Prefix'
<1>1. Publishing' <=> Publishing
  BY DEF EngineInv, Types, Publishing
<1> QED
  BY <1>1 DEF Exact, Prefix

(* A call publishes the next event while no other plays.                   *)
LEMMA PublishPlays ==
  ASSUME EngineInv, Exact, Prefix, NEW p \in Players,
         ~raced' => ~raced /\ \A q \in Players \ {p} : place[q] = "off",
         place[p] # "publishing", place' = [place EXCEPT ![p] = "publishing"],
         index < Len(events), UNCHANGED <<events, index>>,
         played' = Append(played, events[index + 1])
  PROVE  Exact' /\ Prefix'
<1> SUFFICES ASSUME ~raced' PROVE Exact' /\ Prefix'
  BY DEF Exact, Prefix
<1>1. ~Publishing /\ ~raced
  BY DEF Publishing
<1>2. Publishing'
  BY DEF EngineInv, Types, Publishing
<1>3. Prefix' /\ Len(played') = index + 1
  BY <1>1, PlayNext
<1> QED
  BY <1>2, <1>3 DEF Exact

LEMMA LoopTopPlays ==
  ASSUME EngineInv, Exact, Prefix, NEW p \in Runs, LoopTop(p)
  PROVE  Exact' /\ Prefix'
<1>1. p \in Players /\ place[p] = "top" /\ UNCHANGED <<events, index, raced>>
  BY DEF LoopTop, Players
<1>2. CASE place' = [place EXCEPT ![p] = "off"] /\ UNCHANGED played
  BY <1>1, <1>2, MovePlays
<1>3. CASE place' = [place EXCEPT ![p] = "publishing"] /\ index < Len(events) /\ StartPublish
  <2>1. ~raced => \A q \in Players \ {p} : place[q] = "off"
    BY <1>1 DEF EngineInv, OneCall
  <2> QED
    BY <1>1, <1>3, <2>1, PublishPlays DEF StartPublish
<1> QED
  BY <1>2, <1>3 DEF LoopTop, MoveTo

LEMMA PublishedPlays ==
  ASSUME EngineInv, Exact, Prefix, NEW p \in Players, Published(p)
  PROVE  Exact' /\ Prefix'
<1> SUFFICES ASSUME ~raced' PROVE Exact' /\ Prefix'
  BY DEF Exact, Prefix
<1>1. /\ place[p] = "publishing" /\ index' = index + 1
      /\ UNCHANGED <<events, played, raced>>
  BY DEF Published
<1>2. PICK where \in {"off", "waiting", "top"} : place' = [place EXCEPT ![p] = where]
  BY DEF Published, AfterPublish, MoveTo
<1>3. \A q \in Players \ {p} : place[q] = "off"
  BY <1>1 DEF EngineInv, OneCall
<1>4. Publishing /\ ~Publishing'
  BY <1>1, <1>2, <1>3 DEF EngineInv, Types, Publishing
<1> QED
  BY <1>1, <1>4 DEF Exact, Prefix

LEMMA WaitedPlays ==
  ASSUME EngineInv, Exact, Prefix, NEW p \in Runs, Waited(p)
  PROVE  Exact' /\ Prefix'
BY MovePlays DEF Waited, MoveTo, Players

LEMMA RunPlays ==
  ASSUME EngineInv, Exact, Prefix, NEW p \in Runs, Run(p)
  PROVE  Exact' /\ Prefix'
BY MovePlays DEF Run, Enter, MoveTo, Players

LEMMA StepPlays ==
  ASSUME EngineInv, Exact, Prefix, Step
  PROVE  Exact' /\ Prefix'
<1>1. "step" \in Players /\ place["step"] = "off"
  BY DEF Players, Step
<1>2. ~raced' => ~raced /\ \A q \in Players \ {"step"} : place[q] = "off"
  BY DEF Step, Enter, Idle
<1> QED
  BY <1>1, <1>2, PublishPlays DEF Step, Enter, MoveTo, StartPublish

(* A cancelled run leaves the index behind, but what it played is played.  *)
LEMMA CancelPlays ==
  ASSUME Prefix, NEW p \in Runs, Cancel(p)
  PROVE  Prefix'
BY DEF Prefix, Cancel

LEMMA RestPlays ==
  ASSUME UNCHANGED <<events, index, place, played, raced>>
  PROVE  /\ Exact => Exact'
         /\ Prefix => Prefix'
BY DEF Exact, Prefix, Publishing

-----------------------------------------------------------------------------
(* The application around the engine.                                      *)
Wired == {"running", "cancelling", "cancelled", "sampling ends", "retries end", "closing"}
Over == {"cancelled", "sampling ends", "retries end", "closing", "stopped"}

(* Until the replay's task is cancelled it plays what the index says; from *)
(* then on nothing plays. A script plays in its own time, before any       *)
(* startup; an application plays with run() alone.                         *)
Plays ==
  /\ phase \in {"new", "failed"} \cup Wired \cup Over
  /\ environment = "script" => phase = "new"
  /\ environment # "script" =>
       place["second run"] = "off" /\ place["step"] = "off"
  /\ phase \in Over => place["run"] = "off"
  /\ phase \notin Over => Exact
  /\ Prefix

(* Dispatches go on between startup and the bus's stop, those of the       *)
(* replay until it is cancelled, those of retries until the execution      *)
(* engine has stopped. Before startup there is nothing that one could      *)
(* begin with.                                                             *)
Dispatching ==
  /\ open = [t \in Dispatchers |-> open[t]]
  /\ phase \notin Wired => \A t \in Dispatchers : open[t] = <<>>
  /\ open["replay"] # <<>> => phase \in {"running", "cancelling"}
  /\ phase \in {"retries end", "closing"} => open["retry"] = <<>>
  /\ phase \in {"new", "failed"} => queue = <<>> /\ retries = {}
  /\ phase = "stopped" => ~busRunning
  /\ phase \in Wired => journaling
  /\ phase \in {"running", "cancelling"} => "strategies" \in on

IInv == EngineInv /\ Plays /\ Dispatching

LEMMA InitInv == AppInit => IInv
<1> SUFFICES ASSUME AppInit PROVE IInv
  OBVIOUS
<1>1. /\ events = <<>> /\ played = <<>> /\ index = 0
      /\ running = FALSE /\ syncMode = FALSE /\ raced = FALSE
      /\ place = [p \in Players |-> "off"]
  BY DEF AppInit, Init
<1>2. Types
  <2>1. running \in BOOLEAN /\ syncMode \in BOOLEAN /\ raced \in BOOLEAN
    BY <1>1
  <2>2. events \in Seq(Loaded) /\ played \in Seq(Loaded)
    BY <1>1
  <2> QED
    BY <1>1, <2>1, <2>2 DEF Types, Players
<1>3. \A p \in Players : place[p] = "off"
  BY <1>1
<1>4. ~syncMode
  BY <1>1
<1>5. EngineInv
  BY <1>2, <1>3, <1>4 DEF EngineInv, OneCall, SyncEnds, SyncWhileRunning, Players
<1>6. Exact /\ Prefix
  BY <1>1, <1>3 DEF Exact, Prefix, Publishing
<1>7. Plays
  BY <1>3, <1>6 DEF Plays, AppInit, Over, Players, Runs
<1>8. Dispatching
  BY DEF Dispatching, AppInit, Wired, Dispatchers
<1> QED
  BY <1>5, <1>7, <1>8 DEF IInv

-----------------------------------------------------------------------------
(* Steps of a script.                                                      *)
LEMMA EngineStep ==
  ASSUME EngineInv, Exact, Prefix, Next
  PROVE  EngineInv' /\ Exact' /\ Prefix'
<1>1. CASE \E rows \in Files : Load(rows)
  BY <1>1, LoadKeeps, LoadPlays DEF Load
<1>2. CASE \E p \in Runs : Run(p)
  BY <1>2, RunKeeps, RunPlays
<1>3. CASE \E p \in Runs : LoopTop(p)
  BY <1>3, LoopTopKeeps, LoopTopPlays
<1>4. CASE \E p \in Runs : Waited(p)
  BY <1>4, WaitedKeeps, WaitedPlays
<1>5. CASE \E p \in Players : Published(p)
  BY <1>5, PublishedKeeps, PublishedPlays
<1>6. CASE Step
  BY <1>6, StepKeeps, StepPlays
<1>7. CASE Pause \/ Resume \/ Stop \/ TurnClock
  <2>1. UNCHANGED <<events, index, syncMode, place, played, raced>>
    BY <1>7 DEF Pause, Resume, Stop, TurnClock, engineVars
  <2>2. running' \in BOOLEAN
    BY <1>7 DEF EngineInv, Types, Pause, Resume, Stop, TurnClock, engineVars
  <2> QED
    BY <2>1, <2>2, RestKeeps, RestPlays
<1> QED
  BY <1>1, <1>2, <1>3, <1>4, <1>5, <1>6, <1>7 DEF Next

LEMMA ScriptKeeps ==
  ASSUME IInv, ScriptStep
  PROVE  IInv'
<1>1. environment = "script" /\ phase = "new" /\ UNCHANGED appVars
  BY DEF IInv, Plays, ScriptStep
<1>2. EngineInv' /\ Exact' /\ Prefix'
  BY <1>1, EngineStep DEF IInv, Plays, ScriptStep, Over
<1>3. Plays'
  BY <1>1, <1>2 DEF Plays, Over, appVars
<1>4. Dispatching'
  BY <1>1 DEF IInv, Dispatching, appVars
<1> QED
  BY <1>2, <1>3, <1>4 DEF IInv

-----------------------------------------------------------------------------
(* startup(): the replay may be loaded, and nothing plays yet.             *)
LEMMA StartupKeeps ==
  ASSUME IInv, Startup \/ StartupFails
  PROVE  IInv'
<1>1. /\ phase = "new" /\ environment' = environment /\ environment # "script"
      /\ UNCHANGED <<queue, open, retries>>
  BY DEF Startup, StartupFails
<1>2. EngineInv' /\ Exact' /\ Prefix' /\ place' = place
  <2>1. CASE \E rows \in Files : LoadEvents(LoadCsv(rows, Nat))
    <3>1. place' = place
      BY <2>1 DEF LoadEvents
    <3> QED
      BY <1>1, <2>1, <3>1, LoadKeeps, LoadPlays DEF IInv, Plays, Over
  <2>2. CASE UNCHANGED vars
    <3>1. UNCHANGED <<events, index, running, syncMode, place, played, raced>>
      BY <2>2 DEF vars, engineVars
    <3>2. running' \in BOOLEAN
      BY <3>1 DEF IInv, EngineInv, Types
    <3> QED
      BY <1>1, <3>1, <3>2, RestKeeps, RestPlays DEF IInv, Plays, Over
  <2> QED
    BY <2>1, <2>2 DEF Startup, StartupFails, BuildReplay
<1>3. Plays'
  <2>1. phase' \in {"running", "failed"}
    BY DEF Startup, StartupFails, StartComponents
  <2> QED
    BY <1>1, <1>2, <2>1 DEF IInv, Plays, Wired, Over
<1>4. Dispatching'
  <2>1. \A t \in Dispatchers : open[t] = <<>>
    BY <1>1 DEF IInv, Dispatching, Wired
  <2>2. \/ phase' = "failed"
        \/ phase' = "running" /\ journaling' = TRUE /\ on' = Components
    BY DEF Startup, StartupFails, StartComponents
  <2>3. "strategies" \in Components
    <3>1. Owner[1] = "strategies" /\ 1 \in DOMAIN Owner
      BY DEF Owner
    <3> QED
      BY <3>1 DEF Components
  <2> QED
    BY <1>1, <2>1, <2>2, <2>3 DEF IInv, Dispatching, Wired, Dispatchers
<1> QED
  BY <1>2, <1>3, <1>4 DEF IInv

(* What a dispatch by task t leaves open elsewhere.                        *)
LEMMA DispatchOpens ==
  ASSUME IInv, NEW t \in Dispatchers, NEW e, NEW waiting, Dispatch(t, e, waiting)
  PROVE  /\ open' = [u \in Dispatchers |-> open'[u]]
         /\ \A u \in Dispatchers \ {t} : open'[u] = open[u]
<1>1. PICK chain : open' = [open EXCEPT ![t] = chain]
  BY DEF Dispatch
<1> QED
  BY <1>1 DEF IInv, Dispatching

(* The replay's own steps, while the application runs.                     *)
LEMMA ReplayKeeps ==
  ASSUME IInv, ReplayStep
  PROVE  IInv'
<1>1. /\ phase = "running" /\ phase' = phase /\ environment' = environment
      /\ "run" \in Runs /\ "run" \in Players
      /\ environment # "script"
      /\ UNCHANGED <<on, busRunning, retries, journaling>>
  BY DEF IInv, Plays, ReplayStep, ReplayBegins, ReplayPlays, ReplayGoesOn, Run,
     LoopTop, appVars, Runs, Players
<1>2. Exact /\ Prefix /\ EngineInv
  BY <1>1 DEF IInv, Plays, Over
<1>3. Run("run") \/ LoopTop("run") \/ Published("run") \/ Waited("run")
  BY DEF ReplayStep, ReplayBegins, ReplayPlays, ReplayGoesOn
<1>4. EngineInv' /\ Exact' /\ Prefix'
  BY <1>1, <1>2, <1>3, RunKeeps, RunPlays, LoopTopKeeps, LoopTopPlays,
     PublishedKeeps, PublishedPlays, WaitedKeeps, WaitedPlays
<1>5. place'["second run"] = place["second run"] /\ place'["step"] = place["step"]
  BY <1>3 DEF IInv, EngineInv, Types, Run, Enter, LoopTop, Published, AfterPublish,
     Waited, MoveTo, Players, Runs
<1>6. Plays'
  BY <1>1, <1>4, <1>5 DEF IInv, Plays, Over
<1>7. open' = [u \in Dispatchers |-> open'[u]]
  <2>1. CASE UNCHANGED open
    BY <2>1 DEF IInv, Dispatching
  <2>2. CASE Dispatch("replay", EventAt(Last(played'), 1, FALSE), queue)
    BY <2>2, DispatchOpens DEF Dispatchers
  <2> QED
    BY <2>1, <2>2 DEF ReplayStep, ReplayBegins, ReplayPlays, ReplayGoesOn, appVars
<1>8. Dispatching'
  BY <1>1, <1>7 DEF IInv, Dispatching, Wired
<1> QED
  BY <1>4, <1>6, <1>8 DEF IInv

(* Other tasks: none of them dispatches once the bus has stopped, when     *)
(* only a retry could, and sync_mode is off.                               *)
LEMMA TaskKeeps ==
  ASSUME IInv, TaskStep
  PROVE  IInv'
<1>1. UNCHANGED <<vars, environment, phase, on, busRunning, journaling>>
  BY DEF TaskStep, AppendEnds, CutOff, BusTakes, RetryDue
<1>2. EngineInv'
  <2>1. UNCHANGED <<events, index, running, syncMode, place, played, raced>>
    BY <1>1 DEF vars, engineVars
  <2>2. running' \in BOOLEAN
    BY <2>1 DEF IInv, EngineInv, Types
  <2> QED
    BY <2>1, <2>2, RestKeeps DEF IInv
<1>3. Plays'
  <2>1. UNCHANGED <<events, index, place, played, raced>>
    BY <1>1 DEF vars, engineVars
  <2>2. (Exact => Exact') /\ (Prefix => Prefix')
    BY <2>1, RestPlays
  <2> QED
    BY <1>1, <2>1, <2>2 DEF IInv, Plays
<1>4. phase # "new"
  BY DEF TaskStep, MainAwaits
<1>5. CASE \E t \in Runnable : AppendEnds(t) \/ CutOff(t)
  <2>1. PICK t \in Runnable : AppendEnds(t) \/ CutOff(t)
    BY <1>5
  <2>2. t \in Dispatchers /\ (t = "replay" => phase = "running")
    BY DEF Runnable
  <2>3. PICK rest : open' = [open EXCEPT ![t] = rest]
    BY <2>1 DEF AppendEnds, CutOff
  <2>4. open[t] # <<>>
    BY <2>1 DEF AppendEnds, CutOff
  <2>5. phase \in Wired
    BY <2>2, <2>4 DEF IInv, Dispatching
  <2>6. open' = [u \in Dispatchers |-> open'[u]]
    BY <2>3 DEF IInv, Dispatching
  <2>7. \A u \in Dispatchers : open'[u] = <<>> \/ open[u] # <<>>
    BY <2>3, <2>4 DEF IInv, Dispatching
  <2>8. /\ open'["replay"] # <<>> => open["replay"] # <<>>
        /\ open["retry"] = <<>> => open'["retry"] = <<>>
    BY <2>7 DEF Dispatchers
  <2>9. Dispatching'
    BY <1>1, <1>4, <2>5, <2>6, <2>8 DEF IInv, Dispatching, Wired
  <2> QED
    BY <1>2, <1>3, <2>9 DEF IInv
<1>6. CASE BusTakes
  <2>1. busRunning /\ queue # <<>> /\ UNCHANGED retries
    BY <1>6 DEF BusTakes
  <2>2. phase \in Wired
    BY <1>4, <2>1 DEF IInv, Plays, Dispatching, Wired, Over
  <2>3. /\ open' = [u \in Dispatchers |-> open'[u]]
        /\ open'["replay"] = open["replay"] /\ open'["retry"] = open["retry"]
    BY <1>6, DispatchOpens DEF BusTakes, Dispatchers
  <2> QED
    BY <1>1, <1>2, <1>3, <2>2, <2>3 DEF IInv, Dispatching, Wired
<1>7. CASE \E bar \in Signalling : RetryDue(bar)
  <2>1. PICK bar \in Signalling : RetryDue(bar)
    BY <1>7
  <2>2. phase \notin {"new", "failed"}
    BY <2>1 DEF IInv, Dispatching, RetryDue
  <2>3. CASE syncMode
    <3>1. phase \notin Over
      <4>1. SUFFICES ASSUME phase \in Over PROVE FALSE
        OBVIOUS
      <4>2. environment # "script" /\ place["run"] = "off" /\ place["second run"] = "off"
        BY <4>1 DEF IInv, Plays, Over
      <4> QED
        BY <2>3, <4>2 DEF IInv, EngineInv, SyncEnds, Runs
    <3>2. phase \in {"running", "cancelling"}
      BY <2>2, <3>1 DEF IInv, Plays, Wired, Over
    <3>3. open' = [u \in Dispatchers |-> open'[u]]
      BY <2>1, <2>3, DispatchOpens DEF RetryDue, Dispatchers
    <3> QED
      BY <1>1, <1>2, <1>3, <3>2, <3>3 DEF IInv, Dispatching, Wired
  <2>4. CASE ~syncMode
    <3>1. UNCHANGED open
      BY <2>1, <2>4 DEF RetryDue
    <3> QED
      BY <1>1, <1>2, <1>3, <2>2, <3>1 DEF IInv, Dispatching
  <2> QED
    BY <2>3, <2>4
<1> QED
  BY <1>5, <1>6, <1>7 DEF TaskStep

-----------------------------------------------------------------------------
(* shutdown(): cancelling the replay ends its run and what it dispatches.  *)
LEMMA CancelledKeeps ==
  ASSUME IInv, ReplayCancelled
  PROVE  IInv'
<1>1. /\ phase = "cancelling" /\ phase' = "cancelled"
      /\ open' = [open EXCEPT !["replay"] = <<>>]
      /\ UNCHANGED <<environment, on, queue, busRunning, retries, journaling>>
  BY DEF ReplayCancelled
<1>2. EngineInv /\ Prefix /\ environment # "script" /\ "run" \in Runs
  BY <1>1 DEF IInv, Plays, Runs
<1>3. /\ EngineInv' /\ Prefix' /\ place'["run"] = "off"
      /\ \A p \in Players \ {"run"} : place'[p] = place[p]
  <2>1. CASE place["run"] = "off" /\ UNCHANGED vars
    <3>1. UNCHANGED <<events, index, running, syncMode, place, played, raced>>
      BY <2>1 DEF vars, engineVars
    <3>2. running' \in BOOLEAN
      BY <1>2, <3>1 DEF EngineInv, Types
    <3> QED
      BY <1>2, <2>1, <3>1, <3>2, RestKeeps, RestPlays
  <2>2. CASE Cancel("run")
    <3>1. /\ place'["run"] = "off"
          /\ \A p \in Players \ {"run"} : place'[p] = place[p]
      BY <1>2, <2>2 DEF EngineInv, Types, Cancel, MoveTo, Players
    <3> QED
      BY <1>2, <2>2, <3>1, CancelKeeps, CancelPlays
  <2> QED
    BY <2>1, <2>2 DEF ReplayCancelled
<1>4. place'["second run"] = "off" /\ place'["step"] = "off"
  BY <1>2, <1>3 DEF IInv, Plays, Players, Runs
<1>5. Plays'
  BY <1>1, <1>2, <1>3, <1>4 DEF Plays, Wired, Over
<1>6. open' = [u \in Dispatchers |-> open'[u]] /\ open'["replay"] = <<>>
  BY <1>1 DEF IInv, Dispatching, Dispatchers
<1>7. Dispatching'
  BY <1>1, <1>6 DEF IInv, Dispatching, Wired
<1> QED
  BY <1>3, <1>5, <1>7 DEF IInv

(* The rest of it leaves the engine alone. When the journal is closed no   *)
(* event is being dispatched any more.                                     *)
LEMMA StopKeeps ==
  ASSUME IInv, Shutdown \/ StopStrategies \/ StopExecution \/ Close
  PROVE  IInv'
<1>1. UNCHANGED <<vars, environment, queue>>
  BY DEF Shutdown, StopStrategies, StopExecution, Close
<1>2. EngineInv'
  <2>1. UNCHANGED <<events, index, running, syncMode, place, played, raced>>
    BY <1>1 DEF vars, engineVars
  <2>2. running' \in BOOLEAN
    BY <2>1 DEF IInv, EngineInv, Types
  <2> QED
    BY <2>1, <2>2, RestKeeps DEF IInv
<1>3. /\ place' = place
      /\ (Exact => Exact') /\ (Prefix => Prefix')
  BY <1>1, RestPlays DEF vars, engineVars
<1>4. CASE Shutdown
  <2>1. Plays'
    BY <1>1, <1>3, <1>4 DEF IInv, Plays, Shutdown, Wired, Over
  <2>2. Dispatching'
    BY <1>4 DEF IInv, Dispatching, Shutdown, Wired
  <2> QED
    BY <1>2, <2>1, <2>2 DEF IInv
<1>5. CASE StopStrategies
  <2>1. Plays'
    BY <1>1, <1>3, <1>5 DEF IInv, Plays, StopStrategies, Wired, Over
  <2>2. Dispatching'
    BY <1>5 DEF IInv, Dispatching, StopStrategies, Wired
  <2> QED
    BY <1>2, <2>1, <2>2 DEF IInv
<1>6. CASE StopExecution
  <2>1. Plays'
    BY <1>1, <1>3, <1>6 DEF IInv, Plays, StopExecution, Wired, Over
  <2>2. /\ open' = [u \in Dispatchers |-> open'[u]]
        /\ open'["retry"] = <<>> /\ open'["replay"] = open["replay"]
    BY <1>6 DEF IInv, Dispatching, StopExecution, Dispatchers
  <2>3. Dispatching'
    BY <1>6, <2>2 DEF IInv, Dispatching, StopExecution, Wired
  <2> QED
    BY <1>2, <2>1, <2>3 DEF IInv
<1>7. CASE Close
  <2>1. Plays'
    BY <1>1, <1>3, <1>7 DEF IInv, Plays, Close, Wired, Over
  <2>2. open' = [u \in Dispatchers |-> open'[u]]
    BY <1>7 DEF IInv, Dispatching, Close
  <2>3. /\ open'["replay"] = <<>> /\ open'["retry"] = <<>> /\ open'["bus"] = <<>>
    BY <1>7 DEF IInv, Dispatching, Close, Dispatchers
  <2>4. Dispatching'
    BY <1>7, <2>2, <2>3 DEF Dispatching, Close, Dispatchers, Wired
  <2> QED
    BY <1>2, <2>1, <2>4 DEF IInv
<1> QED
  BY <1>4, <1>5, <1>6, <1>7

LEMMA StepInv == IInv /\ [AppNext]_allVars => IInv'
<1> SUFFICES ASSUME IInv, [AppNext]_allVars PROVE IInv'
  OBVIOUS
<1>1. CASE ScriptStep
  BY <1>1, ScriptKeeps
<1>2. CASE Startup \/ StartupFails
  BY <1>2, StartupKeeps
<1>3. CASE TaskStep
  BY <1>3, TaskKeeps
<1>4. CASE ReplayStep
  BY <1>4, ReplayKeeps
<1>5. CASE Shutdown \/ MainStep
  BY <1>5, CancelledKeeps, StopKeeps DEF MainStep
<1>6. CASE UNCHANGED allVars
  <2>1. UNCHANGED <<events, index, running, syncMode, place, played, raced>>
    BY <1>6 DEF allVars, vars, engineVars
  <2>2. running' \in BOOLEAN
    BY <2>1 DEF IInv, EngineInv, Types
  <2>3. EngineInv' /\ (Exact => Exact') /\ (Prefix => Prefix')
    BY <2>1, <2>2, RestKeeps, RestPlays DEF IInv
  <2>4. UNCHANGED appVars
    BY <1>6 DEF allVars
  <2>5. Plays'
    BY <2>1, <2>3, <2>4 DEF IInv, Plays, appVars
  <2>6. Dispatching'
    BY <2>4 DEF IInv, Dispatching, appVars
  <2> QED
    BY <2>3, <2>5, <2>6 DEF IInv
<1> QED
  BY <1>1, <1>2, <1>3, <1>4, <1>5, <1>6 DEF AppNext

LEMMA InvHolds == AppSpec => []IInv
BY InitInv, StepInv, PTL DEF AppSpec

-----------------------------------------------------------------------------
(* Whatever the files hold, however the replay is paused, resumed, stopped *)
(* and stepped through, and whenever the application shuts it down: as     *)
(* long as one call plays at a time, what it plays is what there is, in    *)
(* its order, each event once (run, step and _publish_event, which moves   *)
(* the index only after the publication).                                  *)
THEOREM PlayedInOrder == AppSpec => []PlayedInOrderOnce
<1>1. IInv => PlayedInOrderOnce
  BY PrefixIsPrefix DEF IInv, EngineInv, Plays
<1> QED
  BY <1>1, InvHolds, PTL

(* The bus dispatches synchronously exactly while a run() plays, whether   *)
(* it comes to its end, is stopped or is cancelled by the shutdown.        *)
THEOREM SyncFollowsRun == AppSpec => []SyncWhileRunning
<1>1. IInv => SyncWhileRunning
  BY DEF IInv, EngineInv
<1> QED
  BY <1>1, InvHolds, PTL

(* No event is dispatched past a closed journal, and none by the replay    *)
(* past strategies that are not started or are stopped, for every file and *)
(* every order of the tasks' steps during startup and shutdown.            *)
THEOREM WiredAlways == AppSpec => []WiredThroughout
<1>1. IInv => WiredThroughout
  <2> SUFFICES ASSUME IInv PROVE WiredThroughout
    OBVIOUS
  <2>1. (\E t \in Dispatchers : open[t] # <<>>) => journaling
    BY DEF IInv, Dispatching
  <2>2. open["replay"] # <<>> => "strategies" \in on
    BY DEF IInv, Dispatching
  <2> QED
    BY <2>1, <2>2 DEF WiredThroughout
<1> QED
  BY <1>1, InvHolds, PTL
-----------------------------------------------------------------------------
(* The clock. Base and elapsed time are those of the event played last     *)
(* until somebody turns it, and base never falls behind that event.        *)
ClockInv ==
  /\ Loaded \subseteq Events
  /\ base \in Nat /\ elapsed \in Nat /\ speed \in Nat
  /\ played # <<>> => LET at == Time[Last(played)]
                      IN  base >= at /\ (~turned => base = at /\ elapsed = 0)

LEMMA ProductOfNaturals ==
  ASSUME NEW m \in Nat, NEW n \in Nat
  PROVE  m * n \in Nat
OBVIOUS

LEMMA ClockShows ==
  ASSUME ClockInv, played \in Seq(Loaded)
  PROVE  ClockShowsEvent
<1>1. SUFFICES ASSUME played # <<>>
               PROVE  LET at == Time[Last(played)] IN Now >= at /\ (~turned => Now = at)
  BY DEF ClockShowsEvent
<1>2. Time[Last(played)] \in Nat
  BY <1>1, FeedAssumption DEF ClockInv, Last
<1>3. elapsed * speed \in Nat /\ (elapsed = 0 => elapsed * speed = 0)
  BY ProductOfNaturals DEF ClockInv
<1> QED
  BY <1>1, <1>2, <1>3 DEF ClockInv, Now

(* Setting the clock to an event as it is played.                          *)
LEMMA PublishSetsClock ==
  ASSUME ClockInv, EngineInv, index < Len(events), StartPublish, UNCHANGED events
  PROVE  ClockInv'
<1>1. events[index + 1] \in Loaded /\ events[index + 1] \in Events
  BY DEF ClockInv, EngineInv, Types, Loaded
<1>2. Time[events[index + 1]] \in Nat
  BY <1>1, FeedAssumption
<1>3. played' # <<>> /\ Last(played') = events[index + 1]
  BY <1>1 DEF StartPublish, EngineInv, Types, Last
<1> QED
  BY <1>2, <1>3 DEF StartPublish, SetTime, ClockInv, Loaded

LEMMA LoadSetsClock ==
  ASSUME ClockInv, NEW rows \in Files, NEW range, LoadEvents(LoadCsv(rows, range))
  PROVE  ClockInv'
<1> DEFINE list == LoadCsv(rows, range)
<1>1. events' \in Seq(Events) /\ played' = <<>>
  BY LoadedIs DEF LoadEvents
<1>2. Loaded' \subseteq Events
  BY <1>1 DEF Loaded
<1>3. CASE UNCHANGED clockVars
  BY <1>1, <1>2, <1>3 DEF ClockInv, clockVars
<1>4. CASE list # <<>> /\ SetTime(Time[Head(events')])
  <2>1. events' # <<>>
    <3>1. list \in Seq(Events) /\ Len(events') = Len(list)
      BY LoadedIs DEF LoadEvents
    <3> QED
      BY <1>4, <3>1
  <2>2. Time[Head(events')] \in Nat
    BY <1>1, <2>1, FeedAssumption
  <2> QED
    BY <1>1, <1>2, <1>4, <2>2 DEF ClockInv, SetTime
<1> QED
  BY <1>3, <1>4 DEF LoadEvents

(* What turns, stops or restarts the clock leaves what was played.         *)
LEMMA TurningKeepsClock ==
  ASSUME ClockInv, played \in Seq(Loaded), Pause \/ Resume \/ TurnClock
  PROVE  ClockInv'
<1>1. UNCHANGED <<events, played>>
  BY DEF Pause, Resume, TurnClock, engineVars
<1>2. elapsed * speed \in Nat /\ (elapsed = 0 => elapsed * speed = 0)
  BY ProductOfNaturals DEF ClockInv
<1>3. base' \in Nat /\ elapsed' \in Nat /\ speed' \in Nat
  BY <1>2, ReplayAssumption DEF ClockInv, Pause, PauseClock, Resume, ResumeClock,
     TurnClock, Advance, SetSpeed, ResetClock
<1>4. ASSUME played # <<>>, NEW at, at = Time[Last(played)]
      PROVE  base' >= at /\ (~turned' => base' = at /\ elapsed' = 0)
  <2>1. base >= at /\ (~turned => base = at /\ elapsed = 0)
    BY <1>4 DEF ClockInv
  <2>2. at \in Nat
    BY <1>4, FeedAssumption DEF ClockInv, Last
  <2>3. CASE Pause
    BY <2>1, <2>3 DEF Pause, PauseClock
  <2>4. CASE Resume
    BY <1>2, <2>1, <2>2, <2>4 DEF ClockInv, Resume, ResumeClock
  <2>5. CASE TurnClock
    BY <2>1, <2>5 DEF TurnClock, Advance, SetSpeed, ResetClock
  <2> QED
    BY <2>3, <2>4, <2>5
<1> QED
  BY <1>1, <1>3, <1>4 DEF ClockInv, Loaded

LEMMA RestKeepsClock ==
  ASSUME ClockInv, UNCHANGED <<events, played, turned, clockVars>>
  PROVE  ClockInv'
BY DEF ClockInv, Loaded, clockVars

LEMMA PlayersKeepClock ==
  ASSUME ClockInv, EngineInv,
         \E p \in Players : Run(p) \/ LoopTop(p) \/ Published(p) \/ Waited(p) \/ Cancel(p)
  PROVE  ClockInv'
<1>1. PICK p \in Players : Run(p) \/ LoopTop(p) \/ Published(p) \/ Waited(p) \/ Cancel(p)
  OBVIOUS
<1>2. CASE UNCHANGED <<events, played, turned, clockVars>>
  BY <1>2, RestKeepsClock
<1>3. CASE index < Len(events) /\ StartPublish /\ UNCHANGED events
  BY <1>3, PublishSetsClock
<1> QED
  BY <1>1, <1>2, <1>3 DEF Run, LoopTop, Published, Waited, Cancel

LEMMA ClockStep == IInv /\ ClockInv /\ [AppNext]_allVars => ClockInv'
<1> SUFFICES ASSUME IInv, ClockInv, [AppNext]_allVars PROVE ClockInv'
  OBVIOUS
<1>1. EngineInv /\ played \in Seq(Loaded)
  BY DEF IInv, EngineInv, Types
<1>2. CASE ScriptStep
  <2>1. Next
    BY <1>2 DEF ScriptStep
  <2>2. CASE \E rows \in Files : Load(rows)
    BY <2>2, LoadSetsClock DEF Load
  <2>3. CASE \/ \E p \in Runs : Run(p) \/ LoopTop(p) \/ Waited(p)
             \/ \E p \in Players : Published(p)
    BY <1>1, <2>3, PlayersKeepClock DEF Players
  <2>4. CASE Step
    BY <1>1, <2>4, PublishSetsClock DEF Step
  <2>5. CASE Pause \/ Resume \/ TurnClock
    BY <1>1, <2>5, TurningKeepsClock
  <2>6. CASE Stop
    BY <2>6, RestKeepsClock DEF Stop
  <2> QED
    BY <2>1, <2>2, <2>3, <2>4, <2>5, <2>6 DEF Next
<1>3. CASE UNCHANGED vars
  BY <1>3, RestKeepsClock DEF vars, engineVars
<1>4. CASE Startup
  BY <1>3, <1>4, LoadSetsClock DEF Startup, BuildReplay
<1>5. CASE ReplayStep
  <2>1. "run" \in Players
    BY DEF Players, Runs
  <2> QED
    BY <1>1, <1>5, <2>1, PlayersKeepClock DEF ReplayStep, ReplayBegins, ReplayPlays, ReplayGoesOn
<1>6. CASE ReplayCancelled
  <2>1. "run" \in Players
    BY DEF Players, Runs
  <2> QED
    BY <1>1, <1>3, <1>6, <2>1, PlayersKeepClock DEF ReplayCancelled
<1>7. CASE StartupFails \/ TaskStep \/ Shutdown \/ StopStrategies \/ StopExecution \/ Close
  BY <1>3, <1>7 DEF StartupFails, TaskStep, Shutdown, StopStrategies, StopExecution, Close
<1> QED
  BY <1>2, <1>3, <1>4, <1>5, <1>6, <1>7 DEF AppNext, MainStep, allVars

(* Until somebody turns it the clock shows the time of the event played    *)
(* last, through pauses, resumes, stops and cancelled runs, and nothing    *)
(* ever turns it back before that event, for any files, speeds and calls.  *)
THEOREM ClockIsRight == AppSpec => []ClockShowsEvent
<1>1. AppInit => ClockInv
  BY DEF AppInit, Init, ClockInit, ClockInv, Loaded
<1>2. IInv /\ ClockInv => ClockShowsEvent
  BY ClockShows DEF IInv, EngineInv, Types
<1> QED
  BY <1>1, <1>2, InitInv, StepInv, ClockStep, PTL DEF AppSpec

-----------------------------------------------------------------------------
(* Nesting. Where events are that were published: each in the queue, in    *)
(* one dispatch, or done with. nested and trail remember those that were   *)
(* there.                                                                  *)
Happenings == [bar : Events, stage : 1..Len(Owner), again : BOOLEAN]
InOpen(t) == {open[t][n] : n \in DOMAIN open[t]}
Waiting == {queue[n] : n \in DOMAIN queue}
Logged == {trail[n] : n \in DOMAIN trail}
Seen == nested \cup Waiting \cup Logged \cup UNION {InOpen(t) : t \in Dispatchers}
PlayedBars == {played[i] : i \in DOMAIN played}

(* Two events that go back to the same bar, or to the same retry.          *)
Same(x, y) == x.bar = y.bar /\ x.again = y.again

NestTypes ==
  /\ queue \in Seq(Happenings) /\ trail \in Seq(Happenings)
  /\ nested \subseteq Happenings
  /\ \A t \in Dispatchers : open[t] \in Seq(Happenings)

(* Bars are published by the replay, retries begin with an order request.  *)
Stages ==
  /\ \A e \in nested : e.stage > 1 /\ (e.again => e.stage > Requested)
  /\ \A e \in Seen : e.again => e.stage >= Requested

(* What a task dispatches are the effects of one event, each nested in the *)
(* one before; only the innermost may have come to the journal. No two     *)
(* tasks dispatch the same event.                                          *)
Chain(t) ==
  \A n \in DOMAIN open[t] :
    /\ n > 1 <=> open[t][n] \in nested
    /\ open[t][n] \in Logged => n = Len(open[t])
    /\ \A m \in DOMAIN open[t] :
         /\ Same(open[t][m], open[t][n])
         /\ open[t][n].stage = open[t][m].stage + (n - m)
Chains ==
  /\ \A t \in Dispatchers : Chain(t)
  /\ \A t, u \in Dispatchers : t = u \/ InOpen(t) \cap InOpen(u) = {}

(* What waits in the queue is waiting there only, and nothing has followed *)
(* from it yet.                                                            *)
QueueLast ==
  /\ \A m, n \in DOMAIN queue : queue[m] = queue[n] => m = n
  /\ \A e \in Waiting :
       /\ e \notin nested /\ e \notin Logged
       /\ \A t \in Dispatchers : e \notin InOpen(t)
       /\ \A x \in Seen : Same(x, e) => x.stage <= e.stage

BarsPlayed == \A e \in Seen : ~e.again => e.bar \in PlayedBars

(* A retry task is started once, when its order request has been handled.  *)
Request(bar) == EventAt(bar, Requested, FALSE)
Again(bar) == \E e \in Seen : e.bar = bar /\ e.again
Handled(bar) == Request(bar) \in nested /\ \A t \in Dispatchers : Request(bar) \notin InOpen(t)
RetriedOnce ==
  \A bar \in Events :
    /\ ~(bar \in retries /\ Again(bar))
    /\ bar \in retries \/ Again(bar) => Handled(bar)

TrailOnce ==
  /\ \A i, j \in DOMAIN trail : trail[i] = trail[j] => i = j
  /\ TrailShowsNesting

Nest ==
  NestTypes /\ Stages /\ Chains /\ QueueLast /\ BarsPlayed /\ RetriedOnce /\ TrailOnce

LEMMA FiveStages == Len(Owner) = 5
BY DEF Owner

LEMMA EffectIs ==
  ASSUME NEW x \in Happenings, NEW y \in Happenings
  PROVE  /\ Effect(x) # x
         /\ y = Effect(x) <=> Same(x, y) /\ y.stage = x.stage + 1
         /\ Same(x, y) /\ x.stage = y.stage => x = y
         /\ x.stage \in 1..5
<1>1. Effect(x) = [bar |-> x.bar, stage |-> x.stage + 1, again |-> x.again]
  BY DEF Effect, Happenings
<1>2. x.stage \in 1..5
  BY FiveStages DEF Happenings
<1>3. /\ x = [bar |-> x.bar, stage |-> x.stage, again |-> x.again]
      /\ y = [bar |-> y.bar, stage |-> y.stage, again |-> y.again]
  BY DEF Happenings
<1> QED
  BY <1>1, <1>2, <1>3 DEF Same

LEMMA AppendIs ==
  ASSUME NEW S, NEW q \in Seq(S), NEW y \in S, NEW r, r = Append(q, y)
  PROVE  /\ r \in Seq(S) /\ DOMAIN r = 1..Len(q) + 1 /\ Len(q) \in Nat /\ r[Len(q) + 1] = y
         /\ \A n \in 1..Len(q) : r[n] = q[n]
         /\ {r[n] : n \in DOMAIN r} = {q[n] : n \in DOMAIN q} \cup {y}
         /\ (\A m, n \in DOMAIN q : q[m] = q[n] => m = n) /\ y \notin {q[n] : n \in DOMAIN q}
              => \A m, n \in DOMAIN r : r[m] = r[n] => m = n
<1>1. /\ r \in Seq(S) /\ DOMAIN r = 1..Len(q) + 1 /\ Len(q) \in Nat /\ r[Len(q) + 1] = y
      /\ DOMAIN q = 1..Len(q) /\ \A n \in 1..Len(q) : r[n] = q[n]
  OBVIOUS
<1>2. DOMAIN r = DOMAIN q \cup {Len(q) + 1}
  BY <1>1
<1>3. {r[n] : n \in DOMAIN r} = {q[n] : n \in DOMAIN q} \cup {y}
  BY <1>1, <1>2
<1>4. ASSUME \A m, n \in DOMAIN q : q[m] = q[n] => m = n, y \notin {q[n] : n \in DOMAIN q},
             NEW m \in DOMAIN r, NEW n \in DOMAIN r, r[m] = r[n]
      PROVE  m = n
  BY <1>1, <1>2, <1>4
<1> QED
  BY <1>1, <1>3, <1>4

(* How the trail may grow: by what is not in it, after whatever is not     *)
(* nested in it and before whatever it is not nested in.                   *)
LEMMA TrailGrows ==
  ASSUME NestTypes, TrailOnce, NEW x \in Happenings, x \notin Logged,
         trail' = Append(trail, x),
         \A y \in Logged : y \in nested' <=> y \in nested,
         \A y \in Logged : x = Effect(y) => x \notin nested',
         \A y \in Logged : y = Effect(x) => y \in nested'
  PROVE  TrailOnce' /\ Logged' = Logged \cup {x}
<1>1. /\ DOMAIN trail = 1..Len(trail) /\ Len(trail) \in Nat
      /\ DOMAIN trail' = 1..Len(trail) + 1
      /\ \A i \in DOMAIN trail : trail'[i] = trail[i] /\ trail[i] \in Happenings
      /\ trail'[Len(trail) + 1] = x
  BY DEF NestTypes
<1> DEFINE N == Len(trail) + 1
<1>2. /\ N \in Nat /\ DOMAIN trail' = DOMAIN trail \cup {N} /\ trail'[N] = x
      /\ \A i \in DOMAIN trail : i \in Nat /\ i < N /\ trail[i] \in Logged
  BY <1>1 DEF Logged
<1> HIDE DEF N
<1>3. Effect(x) # x
  BY EffectIs
<1>4. \A i, j \in DOMAIN trail' : trail'[i] = trail'[j] => i = j
  BY <1>1, <1>2 DEF TrailOnce
<1>5. ASSUME NEW i \in DOMAIN trail', NEW j \in DOMAIN trail', trail'[j] = Effect(trail'[i])
      PROVE  IF trail'[j] \in nested' THEN j < i ELSE i < j
  <2>1. CASE i \in DOMAIN trail /\ j \in DOMAIN trail
    BY <1>1, <1>2, <1>5, <2>1 DEF TrailOnce, TrailShowsNesting
  <2>2. CASE i \in DOMAIN trail /\ j = N
    BY <1>1, <1>2, <1>5, <2>2
  <2>3. CASE i = N /\ j \in DOMAIN trail
    BY <1>1, <1>2, <1>5, <2>3
  <2>4. CASE i = N /\ j = N
    BY <1>2, <1>3, <1>5, <2>4
  <2> QED
    BY <1>2, <2>1, <2>2, <2>3, <2>4
<1>6. Logged' = Logged \cup {x}
  BY <1>1, <1>2 DEF Logged
<1> QED
  BY <1>4, <1>5, <1>6 DEF TrailOnce, TrailShowsNesting, Effect
LEMMA StepsApart ==
  ASSUME NEW a \in 1..5, NEW k \in Nat, NEW m \in Nat
  PROVE  a + (m - 1) = (a + (k - 1)) + (m - k)
OBVIOUS

LEMMA SameSteps ==
  ASSUME NEW a \in 1..5, NEW k \in Nat, NEW m \in Nat, a = a + (m - k)
  PROVE  k = m
OBVIOUS

(* A dispatch ends or is cut off: the events of task t from the n-th on    *)
(* are done with, and the one before may come to the journal and, if it    *)
(* requested an order, to its retry task.                                  *)
LEMMA Shrinks ==
  ASSUME Nest, Dispatching, NEW t \in Dispatchers, NEW s, s = open[t], NEW n \in 0..Len(s),
         open' = [open EXCEPT ![t] = SubSeq(s, 1, n)],
         UNCHANGED <<queue, nested>>, PlayedBars \subseteq PlayedBars',
         \/ UNCHANGED trail
         \/ n \in 1..Len(s) - 1 /\ trail' = Append(trail, s[n]),
         \A bar \in retries' \ retries :
           n \in 1..Len(s) - 1 /\ s[n + 1].stage = Requested /\ s[n + 1].bar = bar
  PROVE  Nest'
<1> DEFINE x == s[n]
<1>1. /\ Len(s) \in Nat /\ DOMAIN s = 1..Len(s) /\ n \in Nat
      /\ \A m \in DOMAIN s : s[m] \in Happenings
      /\ Len(open'[t]) = n /\ DOMAIN open'[t] = 1..n /\ open'[t] \in Seq(Happenings)
      /\ \A m \in 1..n : m \in DOMAIN s /\ open'[t][m] = s[m]
      /\ \A u \in Dispatchers \ {t} : open'[u] = open[u]
      /\ InOpen(t)' \subseteq InOpen(t)
  <2>1. s \in Seq(Happenings) /\ Len(s) \in Nat /\ DOMAIN s = 1..Len(s)
        /\ \A m \in DOMAIN s : s[m] \in Happenings
    BY DEF Nest, NestTypes
  <2>2. \A u \in Dispatchers \ {t} : open'[u] = open[u]
    BY DEF Dispatching
  <2>3. open'[t] = SubSeq(s, 1, n)
    BY DEF Dispatching
  <2>4. /\ Len(open'[t]) = n /\ DOMAIN open'[t] = 1..n /\ open'[t] \in Seq(Happenings)
        /\ \A m \in 1..n : m \in DOMAIN s /\ open'[t][m] = s[m]
    BY <2>1, <2>3
  <2>5. InOpen(t)' \subseteq InOpen(t)
    BY <2>4 DEF InOpen
  <2> QED
    BY <2>1, <2>2, <2>4, <2>5
<1>2. /\ \A m \in DOMAIN s : m > 1 <=> s[m] \in nested
      /\ \A m \in DOMAIN s : s[m] \in Logged => m = Len(s)
      /\ \A k, m \in DOMAIN s : Same(s[k], s[m]) /\ s[m].stage = s[k].stage + (m - k)
  BY DEF Nest, Chains, Chain
<1>3. \A k, m \in DOMAIN s : s[k] = s[m] => k = m
  <2>1. SUFFICES ASSUME NEW k \in DOMAIN s, NEW m \in DOMAIN s, s[k] = s[m]
                 PROVE  k = m
    OBVIOUS
  <2>2. s[k].stage \in 1..5 /\ k \in Nat /\ m \in Nat
    BY <1>1, EffectIs
  <2>3. s[k].stage = s[k].stage + (m - k)
    BY <1>2, <2>1
  <2> QED
    BY <2>2, <2>3, SameSteps
<1>4. TrailOnce' /\ (Logged' = Logged \/ (n \in 1..Len(s) - 1 /\ Logged' = Logged \cup {x}))
  <2>1. CASE UNCHANGED trail
    BY <2>1 DEF Nest, TrailOnce, TrailShowsNesting, Logged
  <2>2. CASE n \in 1..Len(s) - 1 /\ trail' = Append(trail, x)
    <3>1. n \in DOMAIN s /\ n + 1 \in DOMAIN s /\ x \in Happenings /\ x \notin Logged
      BY <1>1, <1>2, <2>2
    <3>2. \A y \in Logged : y \in Happenings
      BY DEF Nest, NestTypes, Logged
    <3>3. ASSUME NEW y \in Logged, x = Effect(y), x \in nested
          PROVE  FALSE
      <4>1. n > 1 /\ n - 1 \in DOMAIN s
        BY <1>1, <1>2, <3>1, <3>3
      <4>2. s[n - 1] \in Happenings /\ y \in Happenings
        BY <1>1, <3>2, <4>1
      <4>3. Same(y, x) /\ x.stage = y.stage + 1 /\ Same(s[n - 1], x) /\ x.stage = s[n - 1].stage + 1
        <5>1. Same(y, x) /\ x.stage = y.stage + 1
          BY <3>1, <3>3, <4>2, EffectIs
        <5>2. n - (n - 1) = 1
          BY <1>1
        <5> QED
          BY ONLY <1>2, <3>1, <4>1, <5>1, <5>2 DEF x
      <4>4. y.stage \in 1..5 /\ s[n - 1].stage \in 1..5 /\ Same(y, s[n - 1])
        BY <4>2, <4>3, EffectIs DEF Same
      <4>5. y = s[n - 1]
        BY <4>2, <4>3, <4>4, EffectIs
      <4> QED
        BY <1>1, <1>2, <2>2, <3>3, <4>1, <4>5
    <3>4. ASSUME NEW y \in Logged, y = Effect(x)
          PROVE  y \in nested
      <4>1. s[n + 1] \in Happenings /\ y \in Happenings
        BY <1>1, <3>1, <3>2
      <4>2. Same(x, y) /\ y.stage = x.stage + 1 /\ Same(x, s[n + 1]) /\ s[n + 1].stage = x.stage + 1
        BY <1>1, <1>2, <3>1, <3>4, <4>1, EffectIs
      <4>4. Same(y, s[n + 1]) /\ y.stage = s[n + 1].stage
        BY <4>2 DEF Same
      <4>3. y = s[n + 1]
        BY <4>1, <4>4, EffectIs
      <4> QED
        BY <1>1, <1>2, <3>1, <4>3
    <3> QED
      BY <2>2, <3>1, <3>3, <3>4, TrailGrows DEF Nest
  <2> QED
    BY <2>1, <2>2
<1>5. x \in InOpen(t) \/ Logged' = Logged
  BY <1>1, <1>4 DEF InOpen
<1>6. /\ Waiting' = Waiting
      /\ \A u \in Dispatchers : InOpen(u)' \subseteq InOpen(u)
      /\ \A u \in Dispatchers \ {t} : InOpen(u)' = InOpen(u)
  BY <1>1 DEF Waiting, InOpen
<1>7. Seen' \subseteq Seen
  BY <1>4, <1>5, <1>6 DEF Seen
<1>8. NestTypes'
  <2>1. trail' \in Seq(Happenings)
    <3>1. trail \in Seq(Happenings) /\ (n \in 1..Len(s) - 1 => s[n] \in Happenings)
      BY <1>1 DEF Nest, NestTypes
    <3> QED
      BY <3>1
  <2> QED
    BY <1>1, <2>1 DEF Nest, NestTypes
<1>9. Stages'
  BY <1>7 DEF Nest, Stages
<1>10. Chains'
  <2>1. Chain(t)'
    <3>1. ASSUME NEW m \in DOMAIN open'[t]
          PROVE  /\ m > 1 <=> open'[t][m] \in nested'
                 /\ open'[t][m] \in Logged' => m = Len(open'[t])
                 /\ \A k \in DOMAIN open'[t] :
                      /\ Same(open'[t][k], open'[t][m])
                      /\ open'[t][m].stage = open'[t][k].stage + (m - k)
      <4>1. m \in DOMAIN s /\ m \in 1..n /\ m <= n /\ open'[t][m] = s[m]
        BY <1>1
      <4>2. s[m] \in Logged' => m = n
        <5>1. s[m] \in Logged => m = n
          BY <1>1, <1>2, <4>1
        <5>2. s[m] = x /\ n \in DOMAIN s => m = n
          BY <1>3, <4>1
        <5> QED
          BY <1>1, <1>4, <5>1, <5>2
      <4>3. \A k \in DOMAIN open'[t] : Same(open'[t][k], s[m])
                      /\ s[m].stage = open'[t][k].stage + (m - k)
        BY <1>1, <1>2, <4>1
      <4> QED
        <5>1. Len(open'[t]) = n /\ nested' = nested
          BY <1>1
        <5> QED
          BY ONLY <1>2, <4>1, <4>2, <4>3, <5>1
    <3> QED
      BY <3>1 DEF Chain
  <2>2. ASSUME NEW u \in Dispatchers \ {t}
        PROVE  Chain(u)'
    <3>1. \A m \in DOMAIN open[u] : open[u][m] \in Logged' => open[u][m] \in Logged
      <4>1. \A m \in DOMAIN open[u] : open[u][m] \in InOpen(u)
        BY DEF InOpen
      <4>2. InOpen(t) \cap InOpen(u) = {}
        BY DEF Nest, Chains
      <4> QED
        BY <1>4, <1>5, <4>1, <4>2
    <3> QED
      BY <1>1, <3>1 DEF Nest, Chains, Chain
  <2> QED
    BY <1>6, <2>1, <2>2 DEF Nest, Chains
<1>11. QueueLast'
  <2>1. \A e \in Waiting : e \notin Logged'
    BY <1>4, <1>5 DEF Nest, QueueLast
  <2> QED
    BY <1>6, <1>7, <2>1 DEF Nest, QueueLast
<1>12. BarsPlayed'
  BY <1>7 DEF Nest, BarsPlayed
<1>13. RetriedOnce'
  <2>1. \A bar \in Events : Again(bar)' => Again(bar)
    BY <1>7 DEF Again
  <2>2. \A bar \in Events : Handled(bar) => Handled(bar)'
    BY <1>6 DEF Handled, Request
  <2>3. ASSUME NEW bar \in Events, bar \in retries' \ retries
        PROVE  ~Again(bar) /\ Handled(bar)'
    <3>1. /\ n \in 1..Len(s) - 1 /\ n + 1 \in DOMAIN s
          /\ s[n + 1].stage = Requested /\ s[n + 1].bar = bar /\ s[n + 1] \in nested
      <4>1. n \in 1..Len(s) - 1 /\ s[n + 1].stage = Requested /\ s[n + 1].bar = bar
        BY <2>3
      <4>2. n + 1 \in DOMAIN s /\ n + 1 > 1
        BY <1>1, <4>1
      <4> QED
        BY <1>2, <4>1, <4>2
    <3>2. s[n + 1] = Request(bar)
      <4>1. s[n + 1] \in Happenings /\ ~s[n + 1].again
        BY <1>1, <3>1 DEF Nest, Stages, Requested
      <4> QED
        BY <3>1, <4>1 DEF Request, EventAt, Happenings
    <3>3. s[n + 1] \in InOpen(t)
      BY <3>1 DEF InOpen
    <3>4. s[n + 1] \notin InOpen(t)'
      BY <1>1, <1>3, <3>1 DEF InOpen
    <3>5. \A u \in Dispatchers \ {t} : s[n + 1] \notin InOpen(u)
      BY <3>3 DEF Nest, Chains
    <3>6. ~Again(bar)
      BY <3>2, <3>3 DEF Nest, RetriedOnce, Handled
    <3> QED
      BY <1>6, <3>1, <3>2, <3>4, <3>5, <3>6 DEF Handled, Request
  <2> QED
    BY <2>1, <2>2, <2>3 DEF Nest, RetriedOnce
<1> QED
  BY <1>4, <1>8, <1>9, <1>10, <1>11, <1>12, <1>13 DEF Nest
(* What a dispatch begins: in sync_mode a chain of events, else one and    *)
(* perhaps its effect in the queue.                                        *)
Begins(t, e, waiting, chain) ==
  /\ chain \in Seq(Happenings) /\ Len(chain) >= 1
  /\ \A n \in DOMAIN chain : Same(e, chain[n]) /\ chain[n].stage = e.stage + (n - 1)
  /\ open' = [open EXCEPT ![t] = chain]
  /\ nested' = nested \cup {chain[n] : n \in 2..Len(chain)}
  /\ UNCHANGED trail \/ trail' = Append(trail, chain[Len(chain)])
  /\ \/ queue' = waiting
     \/ Len(chain) = 1 /\ Effect(e) \in Happenings /\ queue' = Append(waiting, Effect(e))

LEMMA DispatchBegins ==
  ASSUME NEW t \in Dispatchers, NEW e \in Happenings, NEW waiting, Dispatch(t, e, waiting)
  PROVE  \E chain : Begins(t, e, waiting, chain)
<1>1. e.stage \in 1..5 /\ e = [bar |-> e.bar, stage |-> e.stage, again |-> e.again]
      /\ e.bar \in Events /\ e.again \in BOOLEAN
  BY FiveStages DEF Happenings
<1>2. PICK last \in e.stage..5 :
        IF syncMode
        THEN LET chain == [n \in 1..last - e.stage + 1 |->
                             EventAt(e.bar, e.stage + n - 1, e.again)]
             IN /\ open' = [open EXCEPT ![t] = chain]
                /\ AppendInnermost(chain)
                /\ nested' = nested \cup (ToSet(chain) \ {e})
                /\ queue' = waiting
        ELSE /\ last <= e.stage + 1
             /\ open' = [open EXCEPT ![t] = <<e>>]
             /\ AppendInnermost(<<e>>)
             /\ queue' = IF last = e.stage THEN waiting ELSE Append(waiting, Effect(e))
             /\ UNCHANGED nested
  BY FiveStages DEF Dispatch
<1>3. \A chain : AppendInnermost(chain) => UNCHANGED trail \/ trail' = Append(trail, chain[Len(chain)])
  BY DEF AppendInnermost, AppendToJournal, Last
<1>4. CASE syncMode
  <2> DEFINE k == last - e.stage + 1
             chain == [n \in 1..k |-> EventAt(e.bar, e.stage + n - 1, e.again)]
  <2>1. k \in Nat /\ k >= 1 /\ e.stage + k - 1 <= 5
    BY <1>1, <1>2
  <2>2. ASSUME NEW n \in 1..k
        PROVE  chain[n] \in Happenings /\ Same(e, chain[n]) /\ chain[n].stage = e.stage + (n - 1)
    <3>1. e.stage + n - 1 \in 1..5 /\ e.stage + n - 1 = e.stage + (n - 1)
      BY <1>1, <2>1
    <3>2. chain[n] = [bar |-> e.bar, stage |-> e.stage + n - 1, again |-> e.again]
      BY DEF EventAt
    <3> QED
      BY <1>1, <3>1, <3>2, FiveStages DEF Happenings, Same
  <2>3. open' = [open EXCEPT ![t] = chain] /\ AppendInnermost(chain)
        /\ nested' = nested \cup (ToSet(chain) \ {e}) /\ queue' = waiting
    BY <1>2, <1>4
  <2>4. DOMAIN chain = 1..k
    OBVIOUS
  <2> HIDE DEF chain, k
  <2>5. chain \in Seq(Happenings) /\ Len(chain) = k
    <3>1. chain \in [1..k -> Happenings]
      BY <2>2, <2>4, <1>4 DEF chain
    <3> QED
      BY <2>1, <2>4, <3>1
  <2>6. ToSet(chain) \ {e} = {chain[n] : n \in 2..k}
    <3>1. ToSet(chain) = {chain[n] : n \in 1..k}
      BY <2>4 DEF ToSet
    <3>2. chain[1] = e
      BY <1>1, <2>1, <2>2, EffectIs
    <3>3. \A n \in 2..k : chain[n] # e
      BY <1>1, <2>1, <2>2
    <3>4. 1..k = {1} \cup 2..k
      BY <2>1
    <3> QED
      BY <3>1, <3>2, <3>3, <3>4
  <2> QED
    BY <1>3, <2>1, <2>2, <2>3, <2>4, <2>5, <2>6 DEF Begins
<1>5. CASE ~syncMode
  <2>1. <<e>> \in Seq(Happenings) /\ Len(<<e>>) = 1 /\ DOMAIN <<e>> = {1} /\ <<e>>[1] = e
    OBVIOUS
  <2>2. {<<e>>[n] : n \in 2..1} = {}
    OBVIOUS
  <2>3. Same(e, e) /\ e.stage = e.stage + (1 - 1)
    BY <1>1 DEF Same
  <2>4. last # e.stage => Effect(e) \in Happenings
    <3>1. last # e.stage => e.stage + 1 \in 1..5
      BY <1>1, <1>2, <1>5
    <3>2. Effect(e) = [bar |-> e.bar, stage |-> e.stage + 1, again |-> e.again]
      BY <1>1 DEF Effect
    <3> QED
      BY <1>1, <3>1, <3>2, FiveStages DEF Happenings
  <2>5. open' = [open EXCEPT ![t] = <<e>>] /\ nested' = nested
        /\ (UNCHANGED trail \/ trail' = Append(trail, e))
        /\ queue' = IF last = e.stage THEN waiting ELSE Append(waiting, Effect(e))
    BY <1>2, <1>3, <1>5, <2>1
  <2>6. Begins(t, e, waiting, <<e>>)
    BY <2>1, <2>2, <2>3, <2>4, <2>5 DEF Begins
  <2> QED
    BY <2>6
<1> QED
  BY <1>4, <1>5
(* Event e may be dispatched now: it was in the queue or is new, and       *)
(* nothing has followed from it.                                           *)
Ready(e, waiting) ==
  /\ waiting \in Seq(Happenings)
  /\ \A m, n \in DOMAIN waiting : waiting[m] = waiting[n] => m = n
  /\ \A n \in DOMAIN waiting : waiting[n] \in Waiting /\ ~Same(waiting[n], e)
  /\ e \notin nested /\ e \notin Logged /\ \A t \in Dispatchers : e \notin InOpen(t)
  /\ \A x \in Seen : Same(x, e) => x.stage <= e.stage
  /\ ~e.again => e.bar \in PlayedBars'
  /\ e.again => e.stage >= Requested /\ e.bar \notin retries' /\ Handled(e.bar)

LEMMA Dispatches ==
  ASSUME Nest, Dispatching, NEW t \in Dispatchers, open[t] = <<>>,
         NEW e \in Happenings, NEW waiting, Ready(e, waiting), NEW chain,
         Begins(t, e, waiting, chain),
         retries' \subseteq retries, PlayedBars \subseteq PlayedBars'
  PROVE  Nest'
<1> DEFINE inner == {chain[n] : n \in 2..Len(chain)}
           later == {x \in Happenings : Same(e, x) /\ x.stage > e.stage}
           x == chain[Len(chain)]
<1>1. /\ Len(chain) \in Nat /\ Len(chain) >= 1 /\ DOMAIN chain = 1..Len(chain)
      /\ \A n \in DOMAIN chain : chain[n] \in Happenings
      /\ \A n \in DOMAIN chain : Same(e, chain[n]) /\ chain[n].stage = e.stage + (n - 1)
      /\ nested' = nested \cup inner
  BY DEF Begins
<1>2. e.stage \in 1..5 /\ \A y \in Seen : y \in Happenings
  BY EffectIs DEF Nest, NestTypes, Seen, Waiting, Logged, InOpen
<1>3. chain[1] = e /\ Effect(e) # e /\ inner \subseteq later
  <2>1. 1 \in DOMAIN chain /\ Same(e, chain[1]) /\ chain[1].stage = e.stage + (1 - 1)
    BY <1>1
  <2>2. e.stage + (1 - 1) = e.stage
    BY <1>2
  <2>3. ASSUME NEW n \in 2..Len(chain)
        PROVE  chain[n] \in later
    <3>1. n \in DOMAIN chain /\ n - 1 >= 1 /\ n - 1 \in Nat
      BY <1>1
    <3>2. e.stage + (n - 1) > e.stage
      BY <1>2, <3>1
    <3> QED
      BY <1>1, <3>1, <3>2
  <2> QED
    BY <1>1, <2>1, <2>2, <2>3, EffectIs
<1>4. \A y \in later : y \notin Seen /\ y # e
  <2>1. SUFFICES ASSUME NEW y \in Seen \cup {e}, Same(e, y), y.stage > e.stage
                 PROVE  FALSE
    OBVIOUS
  <2>2. y.stage <= e.stage /\ y.stage \in 1..5
    <3>1. y.stage <= e.stage
      BY <1>2, <2>1 DEF Ready, Same
    <3> QED
      BY <1>2, <3>1, EffectIs
  <2> QED
    BY <1>2, <2>1, <2>2
<1>5. \A m, n \in DOMAIN chain : chain[m] = chain[n] => m = n
  <2>1. SUFFICES ASSUME NEW m \in DOMAIN chain, NEW n \in DOMAIN chain, chain[m] = chain[n]
                 PROVE  m = n
    OBVIOUS
  <2>2. e.stage + (m - 1) = e.stage + (n - 1) /\ m \in Nat /\ n \in Nat
    BY <1>1, <2>1
  <2> QED
    BY <1>2, <2>2
<1>6. /\ open'[t] = chain /\ InOpen(t)' = {e} \cup inner
      /\ \A u \in Dispatchers \ {t} : open'[u] = open[u] /\ InOpen(u)' = InOpen(u)
  <2>1. open'[t] = chain /\ \A u \in Dispatchers \ {t} : open'[u] = open[u]
    BY DEF Dispatching, Begins
  <2>2. {chain[n] : n \in 1..Len(chain)} = {e} \cup inner
    <3>1. 1..Len(chain) = {1} \cup 2..Len(chain)
      BY <1>1
    <3> QED
      BY <1>3, <3>1
  <2>3. InOpen(t)' = {chain[n] : n \in 1..Len(chain)}
    BY <1>1, <2>1 DEF InOpen
  <2>4. \A u \in Dispatchers \ {t} : InOpen(u)' = InOpen(u)
    BY <2>1 DEF InOpen
  <2> HIDE DEF inner
  <2> QED
    BY <2>1, <2>2, <2>3, <2>4
<1> HIDE DEF inner, later
<1>7. x \in Happenings /\ x \in {e} \cup inner /\ (x = e \/ x \in inner)
  <2>1. Len(chain) \in DOMAIN chain /\ (Len(chain) = 1 \/ Len(chain) \in 2..Len(chain))
    BY <1>1
  <2> QED
    BY <1>1, <1>3, <2>1 DEF inner
<1>8. x \notin Logged /\ \A y \in Logged : y \in Seen /\ y \in Happenings
  BY <1>2, <1>3, <1>4, <1>7 DEF Seen, Ready
<1>9. TrailOnce' /\ (Logged' = Logged \/ Logged' = Logged \cup {x})
  <2>1. \A y \in Logged : y \in nested' <=> y \in nested
    BY <1>1, <1>3, <1>4, <1>8
  <2>2. CASE UNCHANGED trail
    <3>1. \A i \in DOMAIN trail : trail[i] \in Logged
      BY DEF Logged
    <3> QED
      BY <2>1, <2>2, <3>1 DEF Nest, TrailOnce, TrailShowsNesting, Logged, Effect
  <2>3. CASE trail' = Append(trail, x)
    <3>1. ASSUME NEW y \in Logged, x = Effect(y), x \in nested'
          PROVE  FALSE
      <4>1. x \in inner
        <5>1. e \notin nested /\ e \notin inner
          BY <1>3, <1>4 DEF Ready
        <5>2. x \notin nested
          BY <1>3, <1>4, <1>7, <5>1 DEF Seen
        <5> QED
          BY <1>1, <3>1, <5>2
      <4>2. Same(y, x) /\ x.stage = y.stage + 1 /\ Same(e, x) /\ x.stage > e.stage
        BY <1>3, <1>7, <1>8, <3>1, <4>1, EffectIs DEF later
      <4>3. Same(y, e) /\ y.stage <= e.stage /\ y.stage \in 1..5
        <5>1. Same(y, e)
          BY <4>2 DEF Same
        <5> QED
          BY <1>8, <5>1, EffectIs DEF Ready
      <4>4. y.stage = e.stage
        BY <1>2, <4>2, <4>3
      <4>5. y = e
        BY <1>8, <4>3, <4>4, EffectIs
      <4> QED
        BY <3>1, <4>5 DEF Ready
    <3>2. ASSUME NEW y \in Logged, y = Effect(x)
          PROVE  y \in nested'
      <4>1. Same(x, y) /\ y.stage = x.stage + 1
        BY <1>7, <1>8, <3>2, EffectIs
      <4>2. Same(e, x) /\ x.stage >= e.stage /\ x.stage \in 1..5
        BY <1>2, <1>3, <1>7, EffectIs DEF later, Same
      <4>3. Same(e, y) /\ y.stage > e.stage
        BY <1>2, <4>1, <4>2 DEF Same
      <4>4. y \in later
        BY <1>8, <4>3 DEF later
      <4> QED
        BY <1>4, <1>8, <4>4
    <3> QED
      BY <1>7, <1>8, <2>1, <2>3, <3>1, <3>2, TrailGrows DEF Nest
  <2> QED
    BY <2>2, <2>3 DEF Begins
<1>10. PICK f : /\ \/ f = e /\ queue' = waiting
                   \/ f \in later /\ inner = {} /\ queue' = Append(waiting, f)
                /\ f \in Happenings
  <2>1. CASE Len(chain) = 1 /\ Effect(e) \in Happenings /\ queue' = Append(waiting, Effect(e))
    <3>1. 2..Len(chain) = {}
      BY <2>1
    <3>2. inner = {}
      BY <3>1 DEF inner
    <3>3. Same(e, Effect(e)) /\ Effect(e).stage = e.stage + 1
      BY <2>1, EffectIs
    <3>4. Effect(e) \in later
      BY <1>2, <2>1, <3>3 DEF later
    <3> QED
      BY <2>1, <3>2, <3>4
  <2> QED
    BY <2>1 DEF Begins
<1>11. /\ queue' \in Seq(Happenings)
       /\ \A m, n \in DOMAIN queue' : queue'[m] = queue'[n] => m = n
       /\ \A y \in Waiting' : (y \in Waiting /\ ~Same(y, e)) \/ (y = f /\ f \in later /\ inner = {})
  <2>1. /\ waiting \in Seq(Happenings) /\ DOMAIN waiting = 1..Len(waiting) /\ Len(waiting) \in Nat
        /\ \A m, n \in DOMAIN waiting : waiting[m] = waiting[n] => m = n
        /\ \A n \in DOMAIN waiting : waiting[n] \in Waiting /\ ~Same(waiting[n], e)
    BY DEF Ready
  <2>2. CASE queue' = waiting
    BY <2>1, <2>2 DEF Waiting
  <2>3. CASE f \in later /\ inner = {} /\ queue' = Append(waiting, f)
    <3>1. /\ queue' \in Seq(Happenings) /\ DOMAIN queue' = 1..Len(waiting) + 1
          /\ queue'[Len(waiting) + 1] = f
          /\ \A n \in 1..Len(waiting) : queue'[n] = waiting[n]
      <4>1. f \in Happenings /\ queue' = Append(waiting, f) /\ waiting \in Seq(Happenings)
        BY <1>10, <2>1, <2>3
      <4> QED
        BY ONLY <4>1, AppendIs
    <3>2. \A n \in DOMAIN queue' : n \in DOMAIN waiting \/ n = Len(waiting) + 1
      BY <2>1, <3>1
    <3>3. \A n \in DOMAIN waiting : waiting[n] # f
      BY <1>4, <2>1, <2>3 DEF Seen
    <3>4. \A m, n \in DOMAIN queue' : queue'[m] = queue'[n] => m = n
      BY <2>1, <3>1, <3>2, <3>3
    <3>5. \A y \in Waiting' : (y \in Waiting /\ ~Same(y, e)) \/ y = f
      BY <2>1, <3>1, <3>2 DEF Waiting
    <3> QED
      BY <2>3, <3>1, <3>4, <3>5
  <2> QED
    BY <1>10, <2>2, <2>3
<1>12. \A y \in Seen' : y \in Seen \/ y = e \/ y \in inner \/ (y = f /\ f \in later)
  <2>1. \A y \in UNION {InOpen(u)' : u \in Dispatchers} : y \in Seen \/ y = e \/ y \in inner
    BY <1>3, <1>6 DEF Seen
  <2>2. \A y \in nested' \cup Waiting' \cup Logged' :
          y \in Seen \/ y = e \/ y \in inner \/ (y = f /\ f \in later)
    BY <1>1, <1>3, <1>7, <1>9, <1>11 DEF Seen
  <2> QED
    BY <2>1, <2>2 DEF Seen
<1>13. NestTypes'
  <2>1. trail' \in Seq(Happenings)
    <3>1. trail \in Seq(Happenings)
      BY DEF Nest, NestTypes
    <3> QED
      BY <1>7, <3>1, AppendIs DEF Begins
  <2>2. nested' \subseteq Happenings
    BY <1>1, <1>3 DEF Nest, NestTypes, later
  <2>3. \A u \in Dispatchers : open'[u] \in Seq(Happenings)
    BY <1>6 DEF Nest, NestTypes, Begins
  <2> QED
    BY <1>11, <2>1, <2>2, <2>3 DEF NestTypes
<1>14. Stages'
  <2>1. ASSUME NEW y \in later
        PROVE  y.stage > 1 /\ (y.again => y.stage > Requested)
    <3>1. y \in Happenings /\ y.again = e.again /\ y.stage > e.stage /\ y.stage \in 1..5
      BY <2>1, EffectIs DEF later, Same
    <3>2. e.again => e.stage >= Requested
      BY DEF Ready
    <3> QED
      BY <1>2, <3>1, <3>2 DEF Requested
  <2>2. \A y \in nested' : y.stage > 1 /\ (y.again => y.stage > Requested)
    BY <1>1, <1>3, <2>1 DEF Nest, Stages
  <2>3. \A y \in later : y.again => y.stage >= Requested
    <3>1. \A y \in later : y.stage \in 1..5
      BY EffectIs DEF later
    <3> QED
      BY <2>1, <3>1 DEF Requested
  <2> QED
    BY <1>3, <1>12, <2>2, <2>3 DEF Nest, Stages, Ready
<1>15. Chains'
  <2>1. Chain(t)'
    <3>1. ASSUME NEW n \in DOMAIN chain
          PROVE  /\ n > 1 <=> chain[n] \in nested'
                 /\ chain[n] \in Logged' => n = Len(chain)
                 /\ \A m \in DOMAIN chain :
                      /\ Same(chain[m], chain[n])
                      /\ chain[n].stage = chain[m].stage + (n - m)
      <4>1. n \in Nat /\ n >= 1 /\ n <= Len(chain) /\ (n > 1 => n \in 2..Len(chain))
            /\ (n > 1 => chain[n] \in inner) /\ Len(chain) \in DOMAIN chain
        BY <1>1 DEF inner
      <4>2. ~(n > 1) => chain[n] = e
        BY <1>3, <4>1
      <4>3. e \notin nested'
        BY <1>1, <1>3, <1>4 DEF Ready
      <4>4. chain[n] \notin Logged
        BY <1>3, <1>4, <4>1, <4>2 DEF Ready, Seen
      <4>5. chain[n] \in Logged' => n = Len(chain)
        BY <1>5, <1>9, <4>1, <4>4
      <4>6. ASSUME NEW m \in DOMAIN chain
            PROVE  Same(chain[m], chain[n]) /\ chain[n].stage = chain[m].stage + (n - m)
        <5>1. /\ chain[m].stage = e.stage + (m - 1) /\ chain[n].stage = e.stage + (n - 1)
              /\ Same(e, chain[m]) /\ Same(e, chain[n]) /\ m \in Nat
          BY <1>1
        <5> QED
          BY <1>2, <4>1, <5>1, StepsApart DEF Same
      <4> QED
        BY <1>1, <4>1, <4>2, <4>3, <4>5, <4>6
    <3>2. (open[t])' = chain
      BY <1>6
    <3> QED
      BY <3>1, <3>2 DEF Chain
  <2>2. ASSUME NEW u \in Dispatchers \ {t}
        PROVE  Chain(u)' /\ InOpen(t)' \cap InOpen(u) = {}
    <3>1. \A n \in DOMAIN open[u] : open[u][n] \in InOpen(u)
      BY DEF InOpen
    <3>2. \A y \in InOpen(u) : y # e /\ y \notin inner /\ y \in Seen
      BY <1>3, <1>4 DEF Ready, Seen
    <3>3. \A n \in DOMAIN open[u] : /\ open[u][n] \in nested' <=> open[u][n] \in nested
                                    /\ open[u][n] \in Logged' <=> open[u][n] \in Logged
      BY <1>1, <1>7, <1>9, <3>1, <3>2
    <3> QED
      BY <1>6, <3>2, <3>3 DEF Nest, Chains, Chain
  <2> QED
    BY <1>6, <2>1, <2>2 DEF Nest, Chains
<1>16. QueueLast'
  <2>1. ASSUME NEW y \in Waiting', y \in Waiting, ~Same(y, e)
        PROVE  /\ y \notin nested' /\ y \notin Logged' /\ \A u \in Dispatchers : y \notin InOpen(u)'
               /\ \A z \in Seen' : Same(z, y) => z.stage <= y.stage
    <3>1. y \in Seen /\ y # e /\ y \notin inner /\ Same(e, e)
      BY <1>3, <1>4, <2>1 DEF Seen, Same
    <3>2. y \notin nested /\ y \notin Logged /\ \A u \in Dispatchers : y \notin InOpen(u)
      BY <2>1 DEF Nest, QueueLast
    <3>3. \A z : Same(z, y) => ~Same(e, z)
      BY <2>1 DEF Same
    <3>4. \A z \in Seen' : Same(z, y) => z \in Seen
      BY <1>3, <1>12, <3>1, <3>3 DEF later
    <3> QED
      BY <1>1, <1>6, <1>7, <1>9, <2>1, <3>1, <3>2, <3>4 DEF Nest, QueueLast
  <2>2. ASSUME f \in later, inner = {}
        PROVE  /\ f \notin nested' /\ f \notin Logged' /\ \A u \in Dispatchers : f \notin InOpen(u)'
               /\ \A z \in Seen' : Same(z, f) => z.stage <= f.stage
    <3>1. f \notin Seen /\ f # e /\ f.stage > e.stage /\ Same(e, f) /\ f.stage \in 1..5
      BY <1>4, <1>10, <2>2, EffectIs DEF later
    <3>2. f \notin nested' /\ f \notin Logged' /\ \A u \in Dispatchers : f \notin InOpen(u)'
      BY <1>1, <1>6, <1>7, <1>9, <2>2, <3>1 DEF Seen
    <3>3. ASSUME NEW z \in Seen', Same(z, f)
          PROVE  z.stage <= f.stage
      <4>1. CASE z \in Seen
        <5>1. Same(z, e)
          BY <3>1, <3>3 DEF Same
        <5>2. z.stage <= e.stage /\ z.stage \in 1..5
          BY <1>2, <4>1, <5>1, EffectIs DEF Ready
        <5> QED
          BY <1>2, <3>1, <5>2
      <4>2. CASE z = e \/ z = f
        BY <1>2, <3>1, <4>2
      <4> QED
        BY <1>12, <2>2, <4>1, <4>2
    <3> QED
      BY <3>2, <3>3
  <2> QED
    BY <1>11, <2>1, <2>2 DEF QueueLast
<1>17. BarsPlayed'
  <2>1. \A y \in later : y.bar = e.bar /\ y.again = e.again
    BY DEF later, Same
  <2> QED
    BY <1>3, <1>12, <2>1 DEF Nest, BarsPlayed, Ready
<1>18. RetriedOnce'
  <2>1. ASSUME NEW bar \in Events, Again(bar)'
        PROVE  Again(bar) \/ (e.again /\ e.bar = bar)
    <3>1. \A y \in later : y.bar = e.bar /\ y.again = e.again
      BY DEF later, Same
    <3> QED
      BY <1>3, <1>12, <2>1, <3>1 DEF Again
  <2>2. ASSUME NEW bar \in Events, Handled(bar)
        PROVE  Handled(bar)'
    <3>1. Request(bar) \in nested /\ Request(bar) \in Seen
      BY <2>2 DEF Handled, Seen
    <3>2. Request(bar) # e /\ Request(bar) \notin inner
      BY <1>3, <1>4, <3>1 DEF Ready
    <3>3. Request(bar) \in nested' /\ \A u \in Dispatchers : Request(bar) \notin InOpen(u)'
      BY <1>1, <1>6, <2>2, <3>1, <3>2 DEF Handled
    <3> QED
      BY <3>3 DEF Handled, Request
  <2>3. \A bar \in Events : bar = e.bar /\ e.again => Handled(bar) /\ bar \notin retries'
    BY DEF Ready
  <2> QED
    BY <2>1, <2>2, <2>3 DEF Nest, RetriedOnce
<1> QED
  BY <1>9, <1>13, <1>14, <1>15, <1>16, <1>17, <1>18 DEF Nest

(* A retry in the queue begins anew: nothing of it has been seen.          *)
LEMMA Queues ==
  ASSUME Nest, NEW bar \in Events, bar \in retries,
         queue' = Append(queue, EventAt(bar, Requested, TRUE)),
         retries' = retries \ {bar}, UNCHANGED <<open, trail, nested, played>>
  PROVE  Nest'
<1> DEFINE f == EventAt(bar, Requested, TRUE)
<1>1. /\ f \in Happenings /\ f.bar = bar /\ f.again /\ f.stage = Requested /\ Requested \in Nat
  BY FiveStages DEF EventAt, Happenings, Requested
<1>2. \A y \in Seen : ~Same(y, f) /\ y # f
  BY <1>1 DEF Nest, RetriedOnce, Again, Same
<1>3. queue \in Seq(Happenings) /\ DOMAIN queue = 1..Len(queue)
  BY DEF Nest, NestTypes
<1> HIDE DEF f
<1>4. queue' \in Seq(Happenings) /\ Waiting' = Waiting \cup {f}
      /\ \A m, n \in DOMAIN queue' : queue'[m] = queue'[n] => m = n
  <2>1. f \in Happenings /\ queue' = Append(queue, f)
    BY <1>1 DEF f
  <2>2. \A m, n \in DOMAIN queue : queue[m] = queue[n] => m = n
    BY DEF Nest, QueueLast
  <2>3. f \notin {queue[n] : n \in DOMAIN queue}
    BY <1>2 DEF Seen, Waiting
  <2>4. /\ queue' \in Seq(Happenings)
        /\ {queue'[n] : n \in DOMAIN queue'} = {queue[n] : n \in DOMAIN queue} \cup {f}
        /\ \A m, n \in DOMAIN queue' : queue'[m] = queue'[n] => m = n
    BY ONLY <1>3, <2>1, <2>2, <2>3, AppendIs
  <2> QED
    BY <2>4 DEF Waiting
<1>7. /\ nested' = nested /\ Logged' = Logged /\ \A t \in Dispatchers : InOpen(t)' = InOpen(t)
      /\ PlayedBars' = PlayedBars
  BY DEF Logged, InOpen, PlayedBars
<1>8. Seen' = Seen \cup {f}
  BY <1>4, <1>7 DEF Seen
<1>9. NestTypes'
  BY <1>4 DEF Nest, NestTypes
<1>10. Stages'
  BY <1>1, <1>7, <1>8 DEF Nest, Stages, Requested
<1>11. Chains'
  BY <1>7 DEF Nest, Chains, Chain
<1>12. QueueLast'
  <2>2. f \notin nested' /\ f \notin Logged' /\ \A t \in Dispatchers : f \notin InOpen(t)'
    BY <1>2, <1>7 DEF Seen
  <2>3. \A x \in Seen' : Same(x, f) => x.stage <= f.stage
    BY <1>1, <1>2, <1>8
  <2>4. ASSUME NEW y \in Waiting
        PROVE  /\ y \notin nested' /\ y \notin Logged' /\ \A t \in Dispatchers : y \notin InOpen(t)'
               /\ \A x \in Seen' : Same(x, y) => x.stage <= y.stage
    <3>1. y \in Seen
      BY DEF Seen
    <3>2. ~Same(f, y)
      BY <1>2, <3>1 DEF Same
    <3> QED
      BY <1>7, <1>8, <3>2 DEF Nest, QueueLast
  <2> QED
    BY <1>4, <2>2, <2>3, <2>4 DEF QueueLast
<1>13. BarsPlayed'
  BY <1>1, <1>7, <1>8 DEF Nest, BarsPlayed
<1>14. RetriedOnce'
  <2>1. \A b \in Events : Again(b)' => Again(b) \/ b = bar
    BY <1>1, <1>8 DEF Again
  <2>2. \A b \in Events : Handled(b)' <=> Handled(b)
    BY <1>7 DEF Handled, Request
  <2> QED
    BY <2>1, <2>2 DEF Nest, RetriedOnce
<1>15. TrailOnce'
  BY DEF Nest, TrailOnce, TrailShowsNesting, Effect
<1> QED
  BY <1>9, <1>10, <1>11, <1>12, <1>13, <1>14, <1>15 DEF Nest
LEMMA NestRests ==
  ASSUME Nest, UNCHANGED <<queue, open, trail, nested, retries>>,
         PlayedBars \subseteq PlayedBars' \/ Seen = {}
  PROVE  Nest'
<1>1. /\ Seen' = Seen /\ Waiting' = Waiting /\ Logged' = Logged
      /\ \A t \in Dispatchers : InOpen(t)' = InOpen(t)
  BY DEF Seen, Waiting, Logged, InOpen
<1>2. BarsPlayed'
  BY <1>1 DEF Nest, BarsPlayed
<1>3. NestTypes' /\ Stages' /\ Chains'
  BY <1>1 DEF Nest, NestTypes, Stages, Chains, Chain
<1>4. QueueLast' /\ TrailOnce'
  BY <1>1 DEF Nest, QueueLast, TrailOnce, TrailShowsNesting, Effect
<1>5. RetriedOnce'
  BY <1>1 DEF Nest, RetriedOnce, Again, Handled, Request
<1> QED
  BY <1>2, <1>3, <1>4, <1>5 DEF Nest

(* The bus takes the first event of the queue.                             *)
LEMMA BusNests ==
  ASSUME Nest, Dispatching, BusTakes, UNCHANGED played
  PROVE  Nest'
<1> DEFINE e == Head(queue)
           waiting == Tail(queue)
<1>1. /\ queue \in Seq(Happenings) /\ queue # <<>> /\ open["bus"] = <<>>
      /\ "bus" \in Dispatchers /\ retries' = retries /\ PlayedBars' = PlayedBars
      /\ Dispatch("bus", e, waiting)
  BY DEF BusTakes, Nest, NestTypes, Dispatchers, PlayedBars
<1>2. /\ DOMAIN queue = 1..Len(queue) /\ Len(queue) \in Nat /\ Len(queue) >= 1
      /\ e = queue[1] /\ e \in Happenings
      /\ waiting \in Seq(Happenings) /\ DOMAIN waiting = 1..Len(queue) - 1
      /\ \A n \in DOMAIN waiting : waiting[n] = queue[n + 1]
  BY <1>1
<1> HIDE DEF e, waiting
<1>3. 1 \in DOMAIN queue /\ \A n \in DOMAIN waiting : n + 1 \in DOMAIN queue /\ n + 1 # 1 /\ n \in Nat
  BY <1>2
<1>4. /\ e \in Waiting /\ e \in Seen
      /\ e \notin nested /\ e \notin Logged /\ \A t \in Dispatchers : e \notin InOpen(t)
      /\ \A x \in Seen : Same(x, e) => x.stage <= e.stage
  <2>1. e \in Waiting
    BY <1>2, <1>3 DEF Waiting
  <2> QED
    BY <2>1 DEF Seen, Nest, QueueLast
<1>5. \A m, n \in DOMAIN waiting : waiting[m] = waiting[n] => m = n
  BY <1>2, <1>3 DEF Nest, QueueLast
<1>6. ASSUME NEW n \in DOMAIN waiting
      PROVE  waiting[n] \in Waiting /\ ~Same(waiting[n], e)
  <2>1. waiting[n] \in Waiting /\ waiting[n] # e /\ waiting[n] \in Happenings
    <3>1. waiting[n] = queue[n + 1] /\ queue[n + 1] # queue[1]
      BY <1>2, <1>3 DEF Nest, QueueLast
    <3> QED
      BY <1>2, <1>3, <3>1 DEF Waiting
  <2>2. ASSUME Same(waiting[n], e)
        PROVE  FALSE
    <3>1. Same(e, waiting[n]) /\ waiting[n] \in Seen
      BY <2>1, <2>2 DEF Same, Seen
    <3>2. waiting[n].stage <= e.stage /\ e.stage <= waiting[n].stage
      BY <1>4, <2>1, <2>2, <3>1 DEF Nest, QueueLast
    <3>3. waiting[n].stage \in 1..5 /\ e.stage \in 1..5
      BY <1>2, <2>1, EffectIs
    <3>4. waiting[n].stage = e.stage
      BY <3>2, <3>3
    <3> QED
      BY <1>2, <2>1, <2>2, <3>4, EffectIs
  <2> QED
    BY <2>1, <2>2
<1>7. ~e.again => e.bar \in PlayedBars'
  BY <1>1, <1>4 DEF Nest, BarsPlayed
<1>8. e.again => e.stage >= Requested /\ e.bar \notin retries' /\ Handled(e.bar)
  <2>1. e.bar \in Events
    BY <1>2 DEF Happenings
  <2>2. e.again => Again(e.bar)
    BY <1>4 DEF Again
  <2> QED
    BY <1>1, <1>4, <2>1, <2>2 DEF Nest, RetriedOnce, Stages
<1>9. Ready(e, waiting)
  BY <1>2, <1>4, <1>5, <1>6, <1>7, <1>8 DEF Ready
<1>10. PICK chain : Begins("bus", e, waiting, chain)
  BY <1>1, <1>2, DispatchBegins
<1> QED
  BY <1>1, <1>2, <1>9, <1>10, Dispatches

(* An event of which nothing has been seen is dispatched beside the queue. *)
LEMMA NewEventNests ==
  ASSUME Nest, Dispatching, NEW t \in Dispatchers, open[t] = <<>>, NEW e \in Happenings,
         Dispatch(t, e, queue), \A x \in Seen : ~Same(x, e),
         retries' \subseteq retries, PlayedBars \subseteq PlayedBars',
         ~e.again => e.bar \in PlayedBars',
         e.again => e.stage >= Requested /\ e.bar \notin retries' /\ Handled(e.bar)
  PROVE  Nest'
<1>1. e \notin Seen
  BY DEF Same
<1>2. \A n \in DOMAIN queue : queue[n] \in Waiting /\ queue[n] \in Seen
  BY DEF Waiting, Seen
<1>3. e \notin nested /\ e \notin Logged /\ \A u \in Dispatchers : e \notin InOpen(u)
  BY <1>1 DEF Seen
<1>4. queue \in Seq(Happenings) /\ \A m, n \in DOMAIN queue : queue[m] = queue[n] => m = n
  BY DEF Nest, NestTypes, QueueLast
<1>5. Ready(e, queue)
  BY <1>2, <1>3, <1>4 DEF Ready
<1>6. PICK chain : Begins(t, e, queue, chain)
  BY DispatchBegins
<1> QED
  BY <1>5, <1>6, Dispatches

(* What the replay feeds: every event once, one call at a time.            *)
Feeds ==
  /\ Loaded \subseteq Events
  /\ \A m, n \in 1..Len(events) : events[m] = events[n] => m = n
  /\ environment # "script" => ~raced
  /\ phase \in {"new", "failed"} => trail = <<>> /\ nested = {}
  /\ place["run"] # "publishing" => open["replay"] = <<>>

LEMMA NothingSeen ==
  ASSUME Dispatching, Feeds, phase \in {"new", "failed"}
  PROVE  Seen = {} /\ \A t \in Dispatchers : open[t] = <<>>
<1>1. queue = <<>> /\ trail = <<>> /\ nested = {} /\ \A t \in Dispatchers : open[t] = <<>>
  BY DEF Dispatching, Feeds, Wired
<1>2. Waiting = {} /\ Logged = {} /\ \A t \in Dispatchers : InOpen(t) = {}
  BY <1>1 DEF Waiting, Logged, InOpen
<1> QED
  BY <1>1, <1>2 DEF Seen

(* The replay publishes an event that has not been played yet.             *)
LEMMA ReplayNests ==
  ASSUME IInv, Feeds, Nest, ReplayPlays
  PROVE  Nest'
<1>1. /\ phase = "running" /\ LoopTop("run") /\ UNCHANGED retries
      /\ place["run"] = "top" /\ UNCHANGED <<events, index, raced>>
      /\ "run" \in Players /\ "run" \in Runs /\ "replay" \in Dispatchers
  BY DEF ReplayPlays, LoopTop, Players, Runs, Dispatchers
<1>2. environment # "script" /\ ~raced /\ Exact /\ Prefix /\ EngineInv /\ Dispatching
  BY <1>1 DEF IInv, Plays, Feeds, Over
<1>3. open["replay"] = <<>>
  BY <1>1 DEF Feeds
<1>4. CASE place'["run"] = "publishing"
  <2> DEFINE bar == events[index + 1]
             e == EventAt(Last(played'), 1, FALSE)
  <2>1. /\ index < Len(events) /\ played' = Append(played, bar)
        /\ Dispatch("replay", e, queue)
    BY <1>1, <1>4 DEF ReplayPlays, LoopTop, MoveTo, EngineInv, Types, StartPublish, IInv
  <2>2. \A p \in Players : place[p] # "publishing"
    BY <1>1, <1>2 DEF EngineInv, OneCall
  <2>3. Len(played) = index /\ \A i \in 1..index : played[i] = events[i]
    BY <1>2, <2>2 DEF Exact, Prefix, Publishing
  <2>4. /\ played \in Seq(Loaded) /\ DOMAIN played = 1..index /\ index \in Nat
        /\ Len(events) \in Nat /\ index + 1 \in 1..Len(events)
        /\ bar \in Loaded /\ bar \in Events
    <3>1. events \in Seq(Loaded) /\ played \in Seq(Loaded) /\ index \in Nat
      BY <1>2 DEF EngineInv, Types
    <3>2. index + 1 \in 1..Len(events) /\ Len(events) \in Nat
      BY <2>1, <3>1
    <3> QED
      BY <2>3, <3>1, <3>2 DEF Loaded, Feeds
  <2>5. bar \notin PlayedBars
    <3>1. \A i \in 1..index : i \in 1..Len(events) /\ i # index + 1
      BY <2>4
    <3> QED
      BY <2>3, <2>4, <3>1 DEF PlayedBars, Feeds
  <2>6. /\ \A n \in 1..Len(played) : played'[n] = played[n]
        /\ played'[Len(played) + 1] = bar /\ Len(played') = Len(played) + 1
        /\ PlayedBars' = PlayedBars \cup {bar}
    <3>1. played \in Seq(Loaded) /\ bar \in Loaded
      BY <2>4
    <3> HIDE DEF bar
    <3>2. /\ played' \in Seq(Loaded) /\ DOMAIN played' = 1..Len(played) + 1 /\ Len(played) \in Nat
          /\ played'[Len(played) + 1] = bar
          /\ \A n \in 1..Len(played) : played'[n] = played[n]
          /\ {played'[n] : n \in DOMAIN played'} = {played[n] : n \in DOMAIN played} \cup {bar}
      BY ONLY <2>1, <3>1, AppendIs
    <3> QED
      BY <3>2 DEF PlayedBars
  <2>7. Last(played') = bar
    BY <2>6 DEF Last
  <2>8. /\ e \in Happenings /\ e.bar = bar /\ ~e.again
    BY <2>4, <2>7, FiveStages DEF EventAt, Happenings
  <2>9. \A x \in Seen : ~Same(x, e)
    BY <2>5, <2>8 DEF Nest, BarsPlayed, Same
  <2> HIDE DEF e, bar
  <2> QED
    BY <1>1, <1>2, <1>3, <2>1, <2>6, <2>8, <2>9, NewEventNests
<1>5. CASE place'["run"] # "publishing"
  <2>1. UNCHANGED <<open, trail, nested, queue, retries>>
    BY <1>1, <1>5 DEF ReplayPlays
  <2>2. UNCHANGED played
    BY <1>1, <1>5 DEF LoopTop, MoveTo, IInv, EngineInv, Types
  <2> QED
    BY <2>1, <2>2, NestRests DEF PlayedBars
<1> QED
  BY <1>4, <1>5

(* The bus, a retry, and what ends or is cut off.                          *)
LEMMA TaskNests ==
  ASSUME IInv, Feeds, Nest, TaskStep
  PROVE  Nest'
<1>1. Dispatching /\ UNCHANGED played /\ PlayedBars' = PlayedBars
  BY DEF IInv, TaskStep, vars, engineVars, PlayedBars
<1>2. ASSUME NEW t \in Dispatchers, AppendEnds(t)
      PROVE  Nest'
  <2>1. PICK s : s = open[t]
    OBVIOUS
  <2>2. s \in Seq(Happenings) /\ s # <<>> /\ UNCHANGED <<queue, nested>>
    BY <1>2, <2>1 DEF AppendEnds, Nest, NestTypes
  <2>3. Len(s) \in Nat /\ Len(s) >= 1
    BY <2>2
  <2>4. PICK n \in Nat : n = Len(s) - 1
    BY <2>3
  <2>5. n \in 0..Len(s) /\ n + 1 = Len(s)
    BY <2>3, <2>4
  <2>6. Front(s) = SubSeq(s, 1, n) /\ Last(s) = s[n + 1]
    BY <2>4, <2>5 DEF Front, Last
  <2>7. Len(Front(s)) = n /\ (n > 0 => Front(s)[n] = s[n] /\ n \in 1..Len(s) - 1)
    BY <2>2, <2>3, <2>4, <2>6
  <2>8. Front(s) # <<>> => n > 0
    BY <2>2, <2>4, <2>6, <2>7
  <2>9. open' = [open EXCEPT ![t] = SubSeq(s, 1, n)]
    BY <1>2, <2>1, <2>6 DEF AppendEnds
  <2>10. UNCHANGED trail \/ (n \in 1..Len(s) - 1 /\ trail' = Append(trail, s[n]))
    BY <1>2, <2>1, <2>7, <2>8 DEF AppendEnds, AppendToJournal, Last
  <2>11. \A bar \in retries' \ retries :
           n \in 1..Len(s) - 1 /\ s[n + 1].stage = Requested /\ s[n + 1].bar = bar
    BY <1>2, <2>1, <2>6, <2>7, <2>8 DEF AppendEnds
  <2> QED
    BY <1>1, <2>1, <2>2, <2>5, <2>9, <2>10, <2>11, Shrinks
<1>3. ASSUME NEW t \in Dispatchers, CutOff(t)
      PROVE  Nest'
  <2>1. PICK s : s = open[t]
    OBVIOUS
  <2>2. PICK n \in 1..Len(s) - 1 :
          /\ open' = [open EXCEPT ![t] = SubSeq(s, 1, n)]
          /\ AppendToJournal(s[n]) /\ UNCHANGED <<queue, retries, nested>>
    BY <1>3, <2>1 DEF CutOff
  <2>3. n \in 0..Len(s)
    BY <2>1, <2>2 DEF Nest, NestTypes
  <2>4. UNCHANGED trail \/ (n \in 1..Len(s) - 1 /\ trail' = Append(trail, s[n]))
    BY <2>2 DEF AppendToJournal
  <2> QED
    BY <1>1, <2>1, <2>2, <2>3, <2>4, Shrinks
<1>4. CASE BusTakes
  BY <1>1, <1>4, BusNests
<1>5. ASSUME NEW bar \in Signalling, RetryDue(bar)
      PROVE  Nest'
  <2> DEFINE e == EventAt(bar, Requested, TRUE)
  <2>1. /\ bar \in retries /\ open["retry"] = <<>> /\ retries' = retries \ {bar}
        /\ "retry" \in Dispatchers /\ bar \in Events
    BY <1>5, ApplicationAssumption DEF RetryDue, Dispatchers
  <2>2. /\ e \in Happenings /\ e.bar = bar /\ e.again /\ e.stage >= Requested
    BY <2>1, FiveStages DEF EventAt, Happenings, Requested
  <2>3. CASE syncMode
    <3>1. Dispatch("retry", e, queue)
      BY <1>5, <2>3 DEF RetryDue
    <3>2. Handled(bar) /\ ~Again(bar)
      BY <2>1 DEF Nest, RetriedOnce
    <3>3. \A x \in Seen : ~Same(x, e)
      BY <2>2, <3>2 DEF Again, Same
    <3>4. e.stage >= Requested /\ e.bar \notin retries' /\ Handled(e.bar)
      <4>1. bar \notin retries'
        BY <2>1
      <4> HIDE DEF e
      <4> QED
        BY <2>2, <3>2, <4>1
    <3> HIDE DEF e
    <3> QED
      BY <1>1, <2>1, <2>2, <3>1, <3>3, <3>4, NewEventNests
  <2>4. CASE ~syncMode
    BY <1>1, <1>5, <2>1, <2>4, Queues DEF RetryDue
  <2> QED
    BY <2>3, <2>4
<1> QED
  BY <1>2, <1>3, <1>4, <1>5 DEF TaskStep, Runnable

LEMMA FeedsStep ==
  ASSUME IInv, Feeds, ClockInv', \A rows \in Files : IsInjective(rows), [AppNext]_allVars
  PROVE  Feeds'
<1>1. EngineInv /\ Dispatching /\ Plays /\ Loaded' \subseteq Events
  BY DEF IInv, ClockInv
<1>2. ASSUME NEW rows \in Files, NEW range, LoadEvents(LoadCsv(rows, range))
      PROVE  /\ \A m, n \in 1..Len(events') : events'[m] = events'[n] => m = n
             /\ raced' = FALSE
  BY <1>2, LoadedIs DEF LoadEvents
<1>3. CASE ScriptStep
  <2>1. environment = "script" /\ phase = "new" /\ UNCHANGED appVars /\ Next
    BY <1>1, <1>3 DEF ScriptStep, Plays
  <2>2. \A m, n \in 1..Len(events') : events'[m] = events'[n] => m = n
    <3>1. CASE \E rows \in Files : Load(rows)
      BY <1>2, <3>1 DEF Load
    <3>2. CASE UNCHANGED events
      BY <3>2 DEF Feeds
    <3> QED
      BY <2>1, <3>1, <3>2 DEF Next, Run, LoopTop, Waited, Published, Step, Pause, Resume,
         Stop, TurnClock, engineVars
  <2>3. open["replay"] = <<>>
    BY <2>1, NothingSeen, <1>1 DEF Dispatchers
  <2> QED
    BY <1>1, <2>1, <2>2, <2>3 DEF Feeds, appVars
<1>4. CASE Startup \/ StartupFails
  <2>1. /\ phase = "new" /\ UNCHANGED <<environment, open, trail, nested>>
        /\ phase' \in {"running", "failed"}
    BY <1>4 DEF Startup, StartupFails, StartComponents
  <2>2. open["replay"] = <<>>
    BY <2>1, NothingSeen, <1>1 DEF Dispatchers
  <2>3. \/ UNCHANGED <<events, raced>>
        \/ \E rows \in Files : LoadEvents(LoadCsv(rows, Nat))
    BY <1>4 DEF Startup, StartupFails, BuildReplay, vars, engineVars
  <2>4. /\ \A m, n \in 1..Len(events') : events'[m] = events'[n] => m = n
        /\ environment' # "script" => ~raced'
    <3>1. CASE UNCHANGED <<events, raced>>
      BY <2>1, <3>1 DEF Feeds
    <3>2. CASE \E rows \in Files : LoadEvents(LoadCsv(rows, Nat))
      BY <1>2, <3>2
    <3> QED
      BY <2>3, <3>1, <3>2
  <2> QED
    BY <1>1, <2>1, <2>2, <2>4 DEF Feeds
<1>5. ASSUME phase \notin {"new", "failed"} \/ UNCHANGED <<trail, nested>>,
             phase' \in {"new", "failed"} => phase \in {"new", "failed"},
             UNCHANGED <<environment, events, raced>>,
             place'["run"] # "publishing" => open'["replay"] = <<>>
      PROVE  Feeds'
  BY <1>1, <1>5 DEF Feeds
<1>6. CASE TaskStep
  <2>1. phase \notin {"new", "failed"} \/ UNCHANGED <<trail, nested>>
    <3>1. phase \in {"new", "failed"} =>
            queue = <<>> /\ retries = {} /\ \A t \in Dispatchers : open[t] = <<>>
      BY <1>1 DEF Dispatching, Wired
    <3>2. \A t \in Dispatchers : open[t] = <<>> => ~AppendEnds(t) /\ ~CutOff(t)
      BY DEF AppendEnds, CutOff
    <3>3. \A bar \in Signalling : retries = {} => ~RetryDue(bar)
      BY DEF RetryDue
    <3> QED
      BY <1>6, <3>1, <3>2, <3>3 DEF TaskStep, Runnable, BusTakes
  <2>2. open["replay"] = <<>> => open'["replay"] = <<>>
    <3>1. SUFFICES ASSUME open["replay"] = <<>> PROVE open'["replay"] = <<>>
      OBVIOUS
    <3>2. ASSUME NEW t \in Dispatchers, AppendEnds(t) \/ CutOff(t)
          PROVE  open'["replay"] = <<>>
      <4>1. t # "replay"
        BY <3>1, <3>2 DEF AppendEnds, CutOff
      <4>2. \E s : open' = [open EXCEPT ![t] = s]
        BY <3>2 DEF AppendEnds, CutOff
      <4> QED
        BY <1>1, <3>1, <4>1, <4>2 DEF Dispatching, Dispatchers
    <3>3. CASE BusTakes
      <4>1. Dispatch("bus", Head(queue), Tail(queue))
        BY <3>3 DEF BusTakes
      <4> QED
        BY <3>1, <4>1, DispatchOpens DEF Dispatchers
    <3>4. ASSUME NEW bar \in Signalling, RetryDue(bar)
          PROVE  open'["replay"] = <<>>
      <4>1. Dispatch("retry", EventAt(bar, Requested, TRUE), queue) \/ UNCHANGED open
        BY <3>4 DEF RetryDue
      <4> QED
        BY <3>1, <4>1, DispatchOpens DEF Dispatchers
    <3> QED
      BY <1>6, <3>2, <3>3, <3>4 DEF TaskStep, Runnable
  <2>3. UNCHANGED <<environment, phase, events, raced, place>>
    BY <1>6 DEF TaskStep, AppendEnds, CutOff, BusTakes, RetryDue, vars, engineVars
  <2> QED
    BY <1>5, <2>1, <2>2, <2>3 DEF Feeds
<1>7. CASE ReplayBegins
  <2>1. /\ phase = "running" /\ environment # "script" /\ place["run"] = "off"
        /\ UNCHANGED <<environment, phase, open, trail, nested, events>>
        /\ raced' = (raced \/ ~Idle)
    BY <1>1, <1>7 DEF ReplayBegins, Run, Enter, Plays
  <2>2. Idle
    BY <1>1, <2>1 DEF Idle, Plays, Players, Runs
  <2> QED
    BY <1>1, <2>1, <2>2 DEF Feeds
<1>8. CASE ReplayPlays \/ ReplayGoesOn
  <2>1. phase = "running" /\ UNCHANGED <<environment, phase, events, raced>>
    BY <1>8 DEF ReplayPlays, ReplayGoesOn, LoopTop, Published, Waited, appVars
  <2>2. place'["run"] # "publishing" => open'["replay"] = <<>>
    BY <1>8 DEF ReplayPlays, ReplayGoesOn, LoopTop, appVars, Feeds
  <2> QED
    BY <1>5, <2>1, <2>2
<1>9. CASE ReplayCancelled
  <2>1. open'["replay"] = <<>>
    BY <1>1, <1>9 DEF ReplayCancelled, Dispatching, Dispatchers
  <2> QED
    BY <1>5, <1>9, <2>1 DEF ReplayCancelled, Cancel, vars, engineVars
<1>10. CASE Shutdown \/ StopStrategies \/ StopExecution \/ Close
  <2>1. open'["replay"] = open["replay"]
    BY <1>1, <1>10 DEF Shutdown, StopStrategies, StopExecution, Close, Dispatching, Dispatchers
  <2> QED
    BY <1>5, <1>10, <2>1 DEF Shutdown, StopStrategies, StopExecution, Close, vars, engineVars,
       Feeds
<1>11. CASE UNCHANGED allVars
  BY <1>5, <1>11 DEF allVars, vars, engineVars, appVars, Feeds
<1> QED
  BY <1>3, <1>4, <1>6, <1>7, <1>8, <1>9, <1>10, <1>11 DEF AppNext, ReplayStep, MainStep

LEMMA NestStep ==
  ASSUME IInv, Feeds, Nest, [AppNext]_allVars
  PROVE  Nest'
<1>1. Dispatching
  BY DEF IInv
<1>2. ASSUME UNCHANGED <<queue, open, trail, nested, retries>>,
             UNCHANGED played \/ phase \in {"new", "failed"}
      PROVE  Nest'
  BY <1>1, <1>2, NothingSeen, NestRests DEF PlayedBars
<1>3. CASE ScriptStep
  BY <1>2, <1>3 DEF ScriptStep, appVars, IInv, Plays
<1>4. CASE Startup \/ StartupFails
  BY <1>2, <1>4 DEF Startup, StartupFails
<1>5. CASE TaskStep
  BY <1>5, TaskNests
<1>6. CASE ReplayBegins \/ ReplayGoesOn
  BY <1>2, <1>6 DEF ReplayBegins, ReplayGoesOn, Run, Published, Waited, appVars
<1>7. CASE ReplayPlays
  BY <1>7, ReplayNests
<1>8. ASSUME NEW t \in Dispatchers, open' = [open EXCEPT ![t] = <<>>],
             UNCHANGED <<queue, nested, trail, played>>, retries' \subseteq retries
      PROVE  Nest'
  <2>1. PICK s : s = open[t]
    OBVIOUS
  <2>2. s \in Seq(Happenings)
    BY <2>1 DEF Nest, NestTypes
  <2>3. 0 \in 0..Len(s) /\ SubSeq(s, 1, 0) = <<>>
    BY <2>2
  <2>4. PlayedBars' = PlayedBars
    BY <1>8 DEF PlayedBars
  <2> QED
    BY <1>1, <1>8, <2>1, <2>3, <2>4, Shrinks
<1>9. CASE ReplayCancelled
  <2>1. UNCHANGED played
    BY <1>9 DEF ReplayCancelled, Cancel, vars, engineVars
  <2> QED
    BY <1>8, <1>9, <2>1 DEF ReplayCancelled, Dispatchers
<1>10. CASE StopExecution \/ Close
  BY <1>8, <1>10 DEF StopExecution, Close, Dispatchers, vars, engineVars
<1>11. CASE Shutdown \/ StopStrategies \/ UNCHANGED allVars
  BY <1>2, <1>11 DEF Shutdown, StopStrategies, allVars, appVars, vars, engineVars
<1> QED
  BY <1>3, <1>4, <1>5, <1>6, <1>7, <1>9, <1>10, <1>11 DEF AppNext, ReplayStep, MainStep

LEMMA NestInit == AppInit => Feeds /\ Nest
<1> SUFFICES ASSUME AppInit PROVE Feeds /\ Nest
  OBVIOUS
<1>1. /\ events = <<>> /\ raced = FALSE /\ trail = <<>> /\ nested = {} /\ queue = <<>>
      /\ retries = {} /\ \A t \in Dispatchers : open[t] = <<>>
  BY DEF AppInit, Init
<1>2. Feeds
  BY <1>1 DEF Feeds, Loaded, Dispatchers
<1>3. Waiting = {} /\ Logged = {} /\ \A t \in Dispatchers : InOpen(t) = {}
  BY <1>1 DEF Waiting, Logged, InOpen
<1>4. Seen = {}
  BY <1>1, <1>3 DEF Seen
<1>5. NestTypes /\ Chains
  <2>1. <<>> \in Seq(Happenings) /\ DOMAIN <<>> = {}
    OBVIOUS
  <2>2. NestTypes
    BY <1>1, <2>1 DEF NestTypes
  <2>3. \A t \in Dispatchers : Chain(t)
    BY <1>1, <2>1 DEF Chain
  <2> QED
    BY <1>3, <2>2, <2>3 DEF Chains
<1>6. Stages /\ QueueLast /\ BarsPlayed /\ TrailOnce
  BY <1>1, <1>3, <1>4 DEF Stages, QueueLast, BarsPlayed, TrailOnce, TrailShowsNesting
<1>7. RetriedOnce
  BY <1>1, <1>4 DEF RetriedOnce, Again
<1> QED
  BY <1>2, <1>5, <1>6, <1>7 DEF Nest

(* The journal shows what was published inside what: an event published in *)
(* sync_mode comes before its cause, one that was queued after it, however *)
(* long the chains are, wherever they are cut off or cancelled, and        *)
(* whatever retries come between. The rows of a file are told apart, as    *)
(* the events made of them are.                                            *)
THEOREM TrailIsNested ==
  ASSUME \A rows \in Files : IsInjective(rows)
  PROVE  AppSpec => []TrailShowsNesting
<1>1. AppInit => ClockInv
  BY DEF AppInit, Init, ClockInit, ClockInv, Loaded
<1>2. IInv /\ ClockInv /\ Feeds /\ [AppNext]_allVars => Feeds'
  BY StepInv, ClockStep, FeedsStep
<1>3. IInv /\ Feeds /\ Nest /\ [AppNext]_allVars => Nest'
  BY NestStep
<1>4. Nest => TrailShowsNesting
  BY DEF Nest, TrailOnce
<1> QED
  BY <1>1, <1>2, <1>3, <1>4, InitInv, StepInv, ClockStep, NestInit, PTL DEF AppSpec
=============================================================================
