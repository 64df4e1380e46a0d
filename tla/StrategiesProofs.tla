--------------------------- MODULE StrategiesProofs ---------------------------
(***************************************************************************)
(* What the example strategies keep agrees with what they were handed and  *)
(* with what they got onto the bus, for any number of events, stops and    *)
(* lost emits, any prices and any lengths of their windows.                *)
(*                                                                         *)
(* A sum over a sequence is a recursive function. What it satisfies is     *)
(* shown by induction over a set of naturals, which follows from the       *)
(* well-ordering of finite sets by inclusion.                              *)
(***************************************************************************)
EXTENDS Strategies, WellFoundedInduction, FiniteSetTheorems, SequenceTheorems, TLAPS

LEMMA Least ==
  ASSUME NEW T \in SUBSET Nat, T # {}
  PROVE  \E m \in T : \A n \in T : m <= n
<1> DEFINE R == StrictSubsetOrdering(Nat)
           Initials == {1..n : n \in T}
<1>1. Initials \subseteq FiniteSubsetsOf(Nat) /\ Initials # {}
  <2>1. \A n \in T : IsFiniteSet(1..n) /\ 1..n \subseteq Nat
    BY FS_Interval
  <2> QED
    BY <2>1 DEF FiniteSubsetsOf
<1>2. \E x \in Initials : \A y \in Initials : ~(<<y, x>> \in R)
  BY <1>1, FS_StrictSubsetOrderingWellFounded, WFMin
<1>3. PICK m \in T : \A n \in T : ~(<<1..n, 1..m>> \in R)
  BY <1>2
<1>4. ASSUME NEW n \in T, n < m PROVE FALSE
  <2>1. 1..n \subseteq 1..m /\ 1..n # 1..m /\ 1..n \in SUBSET Nat /\ 1..m \in SUBSET Nat
    BY <1>4
  <2> QED
    BY <1>3, <2>1 DEF StrictSubsetOrdering
<1> QED
  BY <1>4

LEMMA SetInduction ==
  ASSUME NEW A, 0 \in A, \A n \in Nat : n \in A => n + 1 \in A
  PROVE  Nat \subseteq A
<1> SUFFICES ASSUME NEW n \in Nat, n \notin A PROVE FALSE
  OBVIOUS
<1>1. PICK m \in Nat \ A : \A k \in Nat \ A : m <= k
  BY Least
<1>2. m # 0 /\ m - 1 \in Nat
  BY <1>1
<1>3. m - 1 \in A
  BY <1>1, <1>2
<1>4. (m - 1) + 1 \in A
  BY <1>2, <1>3
<1>5. (m - 1) + 1 = m
  BY <1>1
<1> QED
  BY <1>1, <1>4, <1>5

Sums(g, s, k) ==
  \A n \in 0..k : g[n] \in Int /\ g[n] = IF n = 0 THEN 0 ELSE g[n - 1] + s[n]
IsSum(g, s) == g = [n \in 0..Len(s) |-> IF n = 0 THEN 0 ELSE g[n - 1] + s[n]]

LEMMA SumExists ==
  ASSUME NEW s \in Seq(Int)
  PROVE  \E g : Sums(g, s, Len(s)) /\ IsSum(g, s)
<1> DEFINE Upto(g, n) == \A i \in 0..n : g[i] = IF i = 0 THEN 0 ELSE g[i - 1] + s[i]
           Has(n) == n <= Len(s) => \E g \in [0..n -> Int] : Upto(g, n)
           A == {n \in Nat : Has(n)}
<1>0. Len(s) \in Nat
  BY LenProperties
<1>1. Has(0)
  <2>1. [i \in 0..0 |-> 0] \in [0..0 -> Int] /\ Upto([i \in 0..0 |-> 0], 0)
    OBVIOUS
  <2> QED
    BY <2>1
<1>2. ASSUME NEW n \in Nat, Has(n), n + 1 <= Len(s)
      PROVE  \E g \in [0..n + 1 -> Int] : Upto(g, n + 1)
  <2>1. PICK g \in [0..n -> Int] : Upto(g, n)
    <3>1. n <= Len(s)
      BY <1>0, <1>2
    <3> HIDE DEF Upto
    <3> QED
      BY <1>2, <3>1
  <2> DEFINE h == [i \in 0..n + 1 |-> IF i = n + 1 THEN g[n] + s[n + 1] ELSE g[i]]
  <2>2. s[n + 1] \in Int
    BY <1>0, <1>2, ElementOfSeq
  <2>3. h \in [0..n + 1 -> Int]
    BY <2>2
  <2>4. ASSUME NEW i \in 0..n + 1 PROVE h[i] = IF i = 0 THEN 0 ELSE h[i - 1] + s[i]
    <3>1. CASE i = n + 1
      BY <3>1
    <3>2. CASE i # n + 1
      <4>1. i \in 0..n /\ h[i] = g[i] /\ (i # 0 => h[i - 1] = g[i - 1])
        BY <3>2
      <4> HIDE DEF h
      <4> QED
        BY <2>1, <4>1
    <3> QED
      BY <3>1, <3>2
  <2> QED
    BY <2>3, <2>4
<1>3. ASSUME NEW n \in Nat, Has(n) PROVE Has(n + 1)
  BY <1>2, <1>3
<1> HIDE DEF Has
<1>4. 0 \in A /\ \A n \in Nat : n \in A => n + 1 \in A
  BY <1>1, <1>3
<1>5. Len(s) \in A
  BY <1>0, <1>4, SetInduction
<1>6. PICK g \in [0..Len(s) -> Int] : Upto(g, Len(s))
  BY <1>0, <1>5 DEF Has
<1> QED
  BY <1>6 DEF IsSum, Sums

LEMMA SumUnique ==
  ASSUME NEW k \in Nat, NEW s, NEW t, \A i \in 1..k : s[i] = t[i],
         NEW g, Sums(g, s, k), NEW h, \A n \in 0..k : h[n] = IF n = 0 THEN 0 ELSE h[n - 1] + t[n]
  PROVE  g[k] = h[k]
<1> DEFINE Has(n) == n <= k => g[n] = h[n]
           A == {n \in Nat : Has(n)}
<1>1. Has(0)
  BY DEF Sums
<1>2. ASSUME NEW n \in Nat, Has(n), n + 1 <= k PROVE g[n + 1] = h[n + 1]
  <2>1. g[n] = h[n] /\ s[n + 1] = t[n + 1]
    BY <1>2
  <2>2. n + 1 \in 0..k /\ n + 1 # 0 /\ (n + 1) - 1 = n
    BY <1>2
  <2>3. g[n + 1] = g[(n + 1) - 1] + s[n + 1] /\ h[n + 1] = h[(n + 1) - 1] + t[n + 1]
    BY <2>2 DEF Sums
  <2> QED
    BY <2>1, <2>2, <2>3
<1>3. ASSUME NEW n \in Nat, Has(n) PROVE Has(n + 1)
  BY <1>2, <1>3
<1> HIDE DEF Has
<1>4. 0 \in A /\ \A n \in Nat : n \in A => n + 1 \in A
  BY <1>1, <1>3
<1>5. Has(k)
  BY <1>4, SetInduction
<1> QED
  BY <1>5 DEF Has

(* The last partial sum is the total.                                      *)
LEMMA TotalIs ==
  ASSUME NEW s \in Seq(Int), NEW g, Sums(g, s, Len(s))
  PROVE  Total(s) = g[Len(s)]
<1> DEFINE f == CHOOSE h : IsSum(h, s)
<1>1. IsSum(f, s)
  <2>1. \E h : IsSum(h, s)
    BY SumExists
  <2> HIDE DEF IsSum
  <2> QED
    BY <2>1
<1>2. Total(s) = f[Len(s)]
  BY DEF Total, IsSum
<1> HIDE DEF f
<1>3. Len(s) \in Nat
  BY LenProperties
<1>4. \A n \in 0..Len(s) : f[n] = IF n = 0 THEN 0 ELSE f[n - 1] + s[n]
  BY <1>1 DEF IsSum
<1>5. g[Len(s)] = f[Len(s)]
  BY <1>3, <1>4, SumUnique
<1> QED
  BY <1>2, <1>5

LEMMA TotalEmpty == Total(<<>>) = 0
<1>1. <<>> \in Seq(Int) /\ Len(<<>>) = 0
  BY EmptySeq
<1>2. PICK g : Sums(g, <<>>, 0)
  BY <1>1, SumExists
<1>3. Total(<<>>) = g[0]
  BY <1>1, <1>2, TotalIs
<1> QED
  BY <1>2, <1>3 DEF Sums

LEMMA TotalAppend ==
  ASSUME NEW s \in Seq(Int), NEW x \in Int
  PROVE  /\ Total(s) \in Int
         /\ Total(Append(s, x)) = Total(s) + x
<1> DEFINE t == Append(s, x)
<1>1. /\ Len(s) \in Nat /\ t \in Seq(Int) /\ Len(t) = Len(s) + 1
      /\ t[Len(s) + 1] = x /\ \A i \in 1..Len(s) : t[i] = s[i]
  BY LenProperties, AppendProperties
<1> HIDE DEF t
<1>2. PICK g : Sums(g, t, Len(t))
  BY <1>1, SumExists
<1>3. Sums(g, s, Len(s))
  BY <1>1, <1>2 DEF Sums
<1>4. Total(s) = g[Len(s)] /\ Total(t) = g[Len(t)]
  BY <1>1, <1>2, <1>3, TotalIs
<1>5. g[Len(s)] \in Int /\ g[Len(t)] = g[Len(s)] + x
  BY <1>1, <1>2 DEF Sums
<1> QED
  BY <1>4, <1>5 DEF t

LEMMA TotalTail ==
  ASSUME NEW s \in Seq(Int), s # <<>>
  PROVE  Total(Tail(s)) = Total(s) - Head(s)
<1> DEFINE t == Tail(s)
<1>1. /\ Len(s) \in Nat /\ Len(s) > 0 /\ t \in Seq(Int) /\ Len(t) = Len(s) - 1
      /\ \A i \in 1..Len(t) : t[i] = s[i + 1]
      /\ Head(s) = s[1] /\ \A i \in 1..Len(s) : s[i] \in Int
  <2>1. Len(s) \in Nat /\ Len(s) > 0
    BY LenProperties, EmptySeq
  <2> QED
    BY <2>1, HeadTailProperties, ElementOfSeq
<1> HIDE DEF t
<1>2. PICK g : Sums(g, s, Len(s))
  BY SumExists
<1> DEFINE h == [n \in 0..Len(t) |-> g[n + 1] - s[1]]
<1>3. ASSUME NEW n \in 0..Len(t)
      PROVE  h[n] \in Int /\ h[n] = IF n = 0 THEN 0 ELSE h[n - 1] + t[n]
  <2>1. /\ n + 1 \in 0..Len(s) /\ n + 1 # 0 /\ n \in 0..Len(s) /\ s[1] \in Int
        /\ h[n] = g[n + 1] - s[1] /\ g[n + 1] \in Int /\ g[n] \in Int
    BY <1>1, <1>2 DEF Sums
  <2>2. g[n + 1] = g[n] + s[n + 1]
    BY <1>1, <1>2, <2>1 DEF Sums
  <2>3. CASE n = 0
    <3>1. g[0] = 0 /\ g[1] = 0 + s[1]
      BY <1>1, <1>2, <2>2, <2>3 DEF Sums
    <3> QED
      BY <2>1, <2>3, <3>1
  <2>4. CASE n # 0
    <3>1. h[n - 1] = g[n] - s[1] /\ t[n] = s[n + 1] /\ s[n + 1] \in Int
      BY <1>1, <2>4
    <3> HIDE DEF h
    <3> QED
      BY <2>1, <2>2, <2>4, <3>1
  <2> QED
    BY <2>3, <2>4
<1> HIDE DEF h
<1>4. Total(s) = g[Len(s)] /\ Total(t) = h[Len(t)]
  <2>1. Sums(h, t, Len(t))
    BY <1>3 DEF Sums
  <2> QED
    BY <1>1, <1>2, <2>1, TotalIs
<1>5. h[Len(t)] = g[Len(s)] - s[1]
  BY <1>1 DEF h
<1> QED
  BY <1>1, <1>4, <1>5 DEF t

-----------------------------------------------------------------------------
(* A deque keeps within its length.                                        *)
LEMMA PushTyped ==
  ASSUME NEW S, NEW s \in Seq(S), NEW x \in S, NEW n \in Nat \ {0}, Len(s) <= n
  PROVE  Push(s, x, n) \in Seq(S) /\ Len(Push(s, x, n)) <= n
<1>1. Len(s) \in Nat
  BY LenProperties
<1>2. CASE Len(s) < n
  <2>1. Append(s, x) \in Seq(S) /\ Len(Append(s, x)) = Len(s) + 1
    BY AppendProperties
  <2> QED
    BY <1>1, <1>2, <2>1 DEF Push
<1>3. CASE Len(s) = n
  <2>1. s # <<>>
    BY <1>3, EmptySeq
  <2>2. Tail(s) \in Seq(S) /\ Len(Tail(s)) = n - 1
    BY <1>3, <2>1, HeadTailProperties
  <2>3. Append(Tail(s), x) \in Seq(S) /\ Len(Append(Tail(s), x)) = n
    BY <2>2, AppendProperties
  <2> QED
    BY <1>3, <2>3 DEF Push
<1> QED
  BY <1>1, <1>2, <1>3

-----------------------------------------------------------------------------
(* SmaCrossoverStrategy.                                                   *)

(* The averages noted are those of the last bar whose signal was not lost; *)
(* no other strategy notes any.                                            *)
Trend ==
  /\ prices \in Seq(Int) /\ Len(prices) <= SlowWindow
  /\ prevFast \in Int /\ prevSlow \in Int
  /\ strategy # "sma_crossover" => prevFast = 0 /\ prevSlow = 0
  /\ LastSignalShowsTrend

LEMMA AveragesTyped ==
  ASSUME NEW s \in Seq(Int), Len(s) = SlowWindow
  PROVE  Fast(s) \in Int /\ Slow(s) \in Int
<1>1. ASSUME NEW n \in {FastWindow, SlowWindow} PROVE SumOfLast(s, n) \in Int
  <2>1. n \in Nat /\ 1 <= n /\ n <= Len(s) /\ Len(s) \in Nat
    BY SmaAssumption
  <2>2. SubSeq(s, Len(s) - n + 1, Len(s)) \in Seq(Int)
    <3> DEFINE m == Len(s) - n + 1
               k == Len(s)
    <3>1. m \in Nat /\ k \in Nat /\ 1 <= m /\ m <= k
      BY <2>1
    <3>2. \A i \in m..k : s[i] \in Int
      BY <3>1, ElementOfSeq
    <3> QED
      BY <3>1, <3>2, SubSeqProperties
  <2> QED
    BY <2>2, 0 \in Int, TotalAppend DEF SumOfLast
<1> QED
  BY <1>1, SmaAssumption DEF Fast, Slow

(* A bar: a crossing is signalled, or its averages are not noted.          *)
LEMMA SmaOnBarKeeps ==
  ASSUME Trend, NEW p \in Closes, SmaOnBar(p), UNCHANGED strategy,
         strategy = "sma_crossover"
  PROVE  Trend'
<1>1. prices' \in Seq(Int) /\ Len(prices') <= SlowWindow
  <2>1. /\ p \in Int /\ SlowWindow \in Nat \ {0}
        /\ prices \in Seq(Int) /\ Len(prices) <= SlowWindow
        /\ prices' = Push(prices, p, SlowWindow)
    BY SmaAssumption, StrategyAssumption DEF Trend, SmaOnBar
  <2> QED
    BY <2>1, PushTyped
<1>2. CASE UNCHANGED <<prevFast, prevSlow>> /\ (astray' \/ UNCHANGED <<last, astray>>)
  BY <1>1, <1>2 DEF Trend, LastSignalShowsTrend
<1>3. CASE Len(prices') >= SlowWindow /\ Emit(Crossing(prices')) /\ NoteAverages
  <2> DEFINE f == Fast(prices')
             s == Slow(prices')
             side == Crossing(prices')
  <2>1. f \in Int /\ s \in Int
    <3>1. Len(prices') \in Nat /\ SlowWindow \in Nat
      BY <1>1, LenProperties, SmaAssumption
    <3>2. Len(prices') = SlowWindow
      BY <1>1, <1>3, <3>1
    <3> QED
      BY <1>1, <3>2, AveragesTyped
  <2>2. prevFast' = f /\ prevSlow' = s
    BY <1>3 DEF NoteAverages
  <2>3. side = CASE prevFast <= prevSlow /\ f > s -> "BUY"
                 [] prevFast >= prevSlow /\ f < s -> "SELL"
                 [] OTHER -> "none"
    BY DEF Crossing
  <2>4. Emit(side)
    BY <1>3
  <2>5. prevFast \in Int /\ prevSlow \in Int
    BY DEF Trend
  <2> HIDE DEF f, s, side
  <2>6. ASSUME ~astray', prevFast' > prevSlow' PROVE last' = "BUY"
    <3>1. IF side = "none" THEN ~astray /\ last' = last ELSE last' = side
      BY <2>4, <2>6 DEF Emit
    <3>2. CASE prevFast <= prevSlow
      <4>1. side = "BUY"
        BY <2>1, <2>2, <2>3, <2>5, <2>6, <3>2
      <4> QED
        BY <3>1, <4>1
    <3>3. CASE prevFast > prevSlow
      <4>1. side = "none"
        BY <2>1, <2>2, <2>3, <2>5, <2>6, <3>3
      <4> QED
        BY <3>1, <3>3, <4>1 DEF Trend, LastSignalShowsTrend
    <3> QED
      BY <2>5, <3>2, <3>3
  <2>7. ASSUME ~astray', prevFast' < prevSlow' PROVE last' = "SELL"
    <3>1. IF side = "none" THEN ~astray /\ last' = last ELSE last' = side
      BY <2>4, <2>7 DEF Emit
    <3>2. CASE prevFast >= prevSlow
      <4>1. side = "SELL"
        BY <2>1, <2>2, <2>3, <2>5, <2>7, <3>2
      <4> QED
        BY <3>1, <4>1
    <3>3. CASE prevFast < prevSlow
      <4>1. side = "none"
        BY <2>1, <2>2, <2>3, <2>5, <2>7, <3>3
      <4> QED
        BY <3>1, <3>3, <4>1 DEF Trend, LastSignalShowsTrend
    <3> QED
      BY <2>5, <3>2, <3>3
  <2> QED
    BY <1>1, <2>1, <2>2, <2>6, <2>7 DEF Trend, LastSignalShowsTrend
<1>4. CASE Emit("none") /\ UNCHANGED <<prevFast, prevSlow>>
  BY <1>2, <1>4 DEF Emit
<1>5. CASE EmitTimedOut(Crossing(prices')) /\ UNCHANGED <<prevFast, prevSlow>>
  BY <1>2, <1>5 DEF EmitTimedOut, EmitLost, EmitCutOff
<1> QED
  BY <1>3, <1>4, <1>5 DEF SmaOnBar

-----------------------------------------------------------------------------
(* VwapReversionStrategy.                                                  *)

Traded == [price : Int, volume : Int]

Rolling == window \in Seq(Traded) /\ RollingSumsExact

(* The values and volumes of a window that gets a tick, or loses one.      *)
LEMMA WindowSums ==
  ASSUME NEW w \in Seq(Traded)
  PROVE  /\ Total(Values(w)) \in Int /\ Total(Shares(w)) \in Int
         /\ \A x \in Traded :
              /\ Total(Values(Append(w, x))) = Total(Values(w)) + x.price * x.volume
              /\ Total(Shares(Append(w, x))) = Total(Shares(w)) + x.volume
         /\ w # <<>> =>
              /\ Total(Values(Tail(w))) = Total(Values(w)) - Head(w).price * Head(w).volume
              /\ Total(Shares(Tail(w))) = Total(Shares(w)) - Head(w).volume
<1>1. ASSUME NEW u \in Seq(Traded)
      PROVE  /\ Len(u) \in Nat
             /\ Values(u) \in Seq(Int) /\ Len(Values(u)) = Len(u)
             /\ Shares(u) \in Seq(Int) /\ Len(Shares(u)) = Len(u)
             /\ \A i \in 1..Len(u) : /\ u[i] \in Traded
                                     /\ Values(u)[i] = u[i].price * u[i].volume
                                     /\ Shares(u)[i] = u[i].volume
  <2>1. Len(u) \in Nat /\ DOMAIN u = 1..Len(u)
    BY LenProperties
  <2>2. \A i \in 1..Len(u) : u[i] \in Traded /\ u[i].price \in Int /\ u[i].volume \in Int
    <3>1. \A i \in 1..Len(u) : u[i] \in Traded
      BY ElementOfSeq
    <3> QED
      BY <3>1 DEF Traded
  <2>3. Values(u) = [i \in 1..Len(u) |-> u[i].price * u[i].volume]
    BY <2>1 DEF Values
  <2>4. Shares(u) = [i \in 1..Len(u) |-> u[i].volume]
    BY <2>1 DEF Shares
  <2>5. Values(u) \in [1..Len(u) -> Int] /\ Shares(u) \in [1..Len(u) -> Int]
    BY <2>2, <2>3, <2>4
  <2> QED
    BY <2>1, <2>2, <2>3, <2>4, <2>5, SeqDef, LenProperties
<1>2. ASSUME NEW x \in Traded
      PROVE  /\ Values(Append(w, x)) = Append(Values(w), x.price * x.volume)
             /\ Shares(Append(w, x)) = Append(Shares(w), x.volume)
  <2> DEFINE u == Append(w, x)
  <2>1. /\ u \in Seq(Traded) /\ Len(u) = Len(w) + 1
        /\ \A i \in 1..Len(w) : u[i] = w[i]
        /\ u[Len(w) + 1] = x
    BY AppendProperties
  <2> HIDE DEF u
  <2>2. x.price * x.volume \in Int /\ x.volume \in Int
    BY DEF Traded
  <2>3. Values(u) = Append(Values(w), x.price * x.volume)
    <3> DEFINE v == Append(Values(w), x.price * x.volume)
    <3>1. /\ v \in Seq(Int) /\ Len(v) = Len(Values(w)) + 1
          /\ \A i \in 1..Len(Values(w)) : v[i] = Values(w)[i]
          /\ v[Len(Values(w)) + 1] = x.price * x.volume
      BY <1>1, <2>2, AppendProperties
    <3> HIDE DEF v
    <3>2. ASSUME NEW i \in 1..Len(u) PROVE Values(u)[i] = v[i]
      <4>1. Values(u)[i] = u[i].price * u[i].volume
        BY <1>1, <2>1
      <4>2. CASE i = Len(w) + 1
        BY <1>1, <2>1, <3>1, <4>1, <4>2
      <4>3. CASE i # Len(w) + 1
        <5>1. i \in 1..Len(w) /\ Len(Values(w)) = Len(w)
          BY <1>1, <2>1, <4>3
        <5>2. Values(w)[i] = w[i].price * w[i].volume
          BY <1>1, <5>1
        <5> QED
          BY <2>1, <3>1, <4>1, <5>1, <5>2
      <4> QED
        BY <4>2, <4>3
    <3>3. Values(u) \in Seq(Int) /\ Len(Values(u)) = Len(v)
      BY <1>1, <2>1, <3>1
    <3>4. Values(u) = v
      BY <1>1, <2>1, <3>1, <3>2, <3>3, SeqEqual
    <3> QED
      BY <3>4 DEF v
  <2>4. Shares(u) = Append(Shares(w), x.volume)
    <3> DEFINE v == Append(Shares(w), x.volume)
    <3>1. /\ v \in Seq(Int) /\ Len(v) = Len(Shares(w)) + 1
          /\ \A i \in 1..Len(Shares(w)) : v[i] = Shares(w)[i]
          /\ v[Len(Shares(w)) + 1] = x.volume
      BY <1>1, <2>2, AppendProperties
    <3> HIDE DEF v
    <3>2. ASSUME NEW i \in 1..Len(u) PROVE Shares(u)[i] = v[i]
      <4>1. Shares(u)[i] = u[i].volume
        BY <1>1, <2>1
      <4>2. CASE i = Len(w) + 1
        BY <1>1, <2>1, <3>1, <4>1, <4>2
      <4>3. CASE i # Len(w) + 1
        <5>1. i \in 1..Len(w) /\ Len(Shares(w)) = Len(w)
          BY <1>1, <2>1, <4>3
        <5>2. Shares(w)[i] = w[i].volume
          BY <1>1, <5>1
        <5> QED
          BY <2>1, <3>1, <4>1, <5>1, <5>2
      <4> QED
        BY <4>2, <4>3
    <3>3. Shares(u) \in Seq(Int) /\ Len(Shares(u)) = Len(v)
      BY <1>1, <2>1, <3>1
    <3>4. Shares(u) = v
      BY <1>1, <2>1, <3>1, <3>2, <3>3, SeqEqual
    <3> QED
      BY <3>4 DEF v
  <2> QED
    BY <2>3, <2>4 DEF u
<1>3. ASSUME w # <<>>
      PROVE  /\ Values(Tail(w)) = Tail(Values(w)) /\ Shares(Tail(w)) = Tail(Shares(w))
             /\ Head(Values(w)) = Head(w).price * Head(w).volume
             /\ Head(Shares(w)) = Head(w).volume
             /\ Values(w) # <<>> /\ Shares(w) # <<>>
  <2> DEFINE u == Tail(w)
  <2>1. /\ Len(w) \in Nat /\ Len(w) > 0 /\ u \in Seq(Traded) /\ Len(u) = Len(w) - 1
        /\ \A i \in 1..Len(u) : u[i] = w[i + 1]
        /\ Head(w) = w[1]
    <3>1. Len(w) \in Nat /\ Len(w) > 0
      BY <1>3, LenProperties, EmptySeq
    <3> QED
      BY <1>3, <3>1, HeadTailProperties
  <2> HIDE DEF u
  <2>2. Values(w) # <<>> /\ Shares(w) # <<>>
    BY <1>1, <2>1, EmptySeq
  <2>3. ASSUME NEW v \in {Values(w), Shares(w)}
        PROVE  /\ Head(v) = v[1] /\ Tail(v) \in Seq(Int) /\ Len(Tail(v)) = Len(v) - 1
               /\ \A i \in 1..Len(Tail(v)) : Tail(v)[i] = v[i + 1]
    BY <1>1, <2>2, HeadTailProperties
  <2>4. Values(u) = Tail(Values(w))
    <3> DEFINE v == Tail(Values(w))
    <3>1. /\ v \in Seq(Int) /\ Len(v) = Len(w) - 1
          /\ \A i \in 1..Len(v) : v[i] = Values(w)[i + 1]
      BY <1>1, <2>3
    <3> HIDE DEF v
    <3>2. ASSUME NEW i \in 1..Len(u) PROVE Values(u)[i] = v[i]
      <4>1. i + 1 \in 1..Len(w) /\ i \in 1..Len(v)
        BY <2>1, <3>1
      <4>2. Values(u)[i] = u[i].price * u[i].volume /\ Values(w)[i + 1] = w[i + 1].price * w[i + 1].volume
        BY <1>1, <2>1, <4>1
      <4> QED
        BY <2>1, <3>1, <4>1, <4>2
    <3>3. Values(u) \in Seq(Int) /\ Len(Values(u)) = Len(u) /\ Len(u) = Len(v)
      BY <1>1, <2>1, <3>1
    <3>4. Values(u) = v
      BY <3>1, <3>2, <3>3, SeqEqual
    <3> QED
      BY <3>4 DEF v
  <2>5. Shares(u) = Tail(Shares(w))
    <3> DEFINE v == Tail(Shares(w))
    <3>1. /\ v \in Seq(Int) /\ Len(v) = Len(w) - 1
          /\ \A i \in 1..Len(v) : v[i] = Shares(w)[i + 1]
      BY <1>1, <2>3
    <3> HIDE DEF v
    <3>2. ASSUME NEW i \in 1..Len(u) PROVE Shares(u)[i] = v[i]
      <4>1. i + 1 \in 1..Len(w) /\ i \in 1..Len(v)
        BY <2>1, <3>1
      <4>2. Shares(u)[i] = u[i].volume /\ Shares(w)[i + 1] = w[i + 1].volume
        BY <1>1, <2>1, <4>1
      <4> QED
        BY <2>1, <3>1, <4>1, <4>2
    <3>3. Shares(u) \in Seq(Int) /\ Len(Shares(u)) = Len(u) /\ Len(u) = Len(v)
      BY <1>1, <2>1, <3>1
    <3>4. Shares(u) = v
      BY <3>1, <3>2, <3>3, SeqEqual
    <3> QED
      BY <3>4 DEF v
  <2>6. /\ Head(Values(w)) = Head(w).price * Head(w).volume
        /\ Head(Shares(w)) = Head(w).volume
    BY <1>1, <2>1, <2>3
  <2> QED
    BY <2>2, <2>4, <2>5, <2>6 DEF u
<1>4. Values(w) \in Seq(Int) /\ Shares(w) \in Seq(Int)
  BY <1>1
<1>5. \A x \in Traded : x.price * x.volume \in Int /\ x.volume \in Int
  BY DEF Traded
<1> QED
  BY <1>2, <1>3, <1>4, <1>5, 0 \in Int, TotalAppend, TotalTail

(* A tick: its value and volume are added, those of the tick that falls    *)
(* out subtracted.                                                         *)
LEMMA VwapOnTickKeeps ==
  ASSUME Rolling, NEW p \in Trades, NEW v \in Volumes, VwapOnTick(p, v)
  PROVE  Rolling'
<1> DEFINE x == [price |-> p, volume |-> v]
           old == FallsOut(p, v)
<1>1. /\ p \in Int /\ v \in Int /\ x \in Traded /\ x.price = p /\ x.volume = v
      /\ Window \in Nat \ {0}
  BY VwapAssumption DEF Traded
<1>2. /\ window' = Push(window, x, Window)
      /\ sumPV' = sumPV + p * v - old.price * old.volume
      /\ sumVol' = sumVol + v - old.volume
  BY DEF VwapOnTick
<1>3. /\ window \in Seq(Traded) /\ Len(window) <= Window /\ Len(window) \in Nat
      /\ sumPV = Total(Values(window)) /\ sumVol = Total(Shares(window))
      /\ sumPV \in Int /\ sumVol \in Int
  BY LenProperties, WindowSums DEF Rolling, RollingSumsExact
<1> HIDE DEF x
<1>4. window' \in Seq(Traded) /\ Len(window') <= Window
  BY <1>1, <1>2, <1>3, PushTyped
<1>5. CASE Len(window) < Window
  <2>1. old.price = 0 /\ old.volume = 0
    BY <1>1, <1>3, <1>5 DEF FallsOut
  <2>2. window' = Append(window, x)
    BY <1>2, <1>5 DEF Push
  <2>3. /\ Total(Values(window')) = sumPV + p * v
        /\ Total(Shares(window')) = sumVol + v
    BY <1>1, <1>3, <2>2, WindowSums
  <2>4. p * v \in Int /\ 0 * 0 = 0
    BY <1>1
  <2>5. sumPV' = sumPV + p * v /\ sumVol' = sumVol + v
    BY <1>1, <1>2, <1>3, <2>1, <2>4
  <2> QED
    BY <1>4, <2>3, <2>5 DEF Rolling, RollingSumsExact
<1>6. CASE Len(window) = Window
  <2>1. window # <<>> /\ window' = Append(Tail(window), x)
    <3>1. window # <<>>
      BY <1>1, <1>6, EmptySeq
    <3>2. ~(Len(window) < Window)
      BY <1>1, <1>6
    <3> QED
      BY <1>2, <3>1, <3>2 DEF Push
  <2>2. old = Head(window) /\ Head(window) \in Traded /\ Tail(window) \in Seq(Traded)
    BY <1>3, <1>6, <2>1, HeadTailProperties DEF FallsOut
  <2> HIDE DEF old
  <2>3. /\ Total(Values(Tail(window))) = sumPV - old.price * old.volume
        /\ Total(Shares(Tail(window))) = sumVol - old.volume
    BY <1>3, <2>1, <2>2, WindowSums
  <2>4. /\ Total(Values(window')) = Total(Values(Tail(window))) + p * v
        /\ Total(Shares(window')) = Total(Shares(Tail(window))) + v
    BY <1>1, <2>1, <2>2, WindowSums
  <2>5. old.price * old.volume \in Int /\ old.volume \in Int /\ p * v \in Int
    BY <1>1, <2>2 DEF Traded
  <2>6. sumPV' = Total(Values(window')) /\ sumVol' = Total(Shares(window'))
    <3> DEFINE a == old.price * old.volume
               b == p * v
    <3>1. a \in Int /\ b \in Int /\ sumPV' = sumPV + b - a
          /\ Total(Values(window')) = (sumPV - a) + b
      BY <1>2, <2>3, <2>4, <2>5
    <3> HIDE DEF a, b
    <3>2. sumPV' = Total(Values(window'))
      BY <1>3, <3>1
    <3>3. sumVol' = Total(Shares(window'))
      BY <1>1, <1>2, <1>3, <2>3, <2>4, <2>5
    <3> QED
      BY <3>2, <3>3
  <2> QED
    BY <1>4, <2>6 DEF Rolling, RollingSumsExact
<1> QED
  BY <1>1, <1>3, <1>5, <1>6

-----------------------------------------------------------------------------
(* RsiMomentumStrategy.                                                    *)

(* The changes are those between neighbouring closes, and the close noted  *)
(* is the last of them; it is 0 before the first.                          *)
Chain ==
  /\ past \in Seq(Int) /\ deltas \in Seq(Int) /\ prevClose \in Int
  /\ Len(deltas) <= Changes
  /\ past = <<>> => deltas = <<>> /\ prevClose = 0
  /\ past # <<>> =>
       /\ prevClose # 0 /\ prevClose = past[Len(past)]
       /\ Len(past) = Len(deltas) + 1
       /\ \A i \in 1..Len(deltas) : deltas[i] = past[i + 1] - past[i]
       /\ past[Len(past)] - past[1] = Total(deltas)

LEMMA RsiOnBarKeeps ==
  ASSUME Chain, NEW p \in Closes, RsiOnBar(p)
  PROVE  Chain'
<1>1. p \in Int /\ p # 0 /\ Changes \in Nat \ {0} /\ Changes + 1 \in Nat \ {0}
  BY StrategyAssumption, RsiAssumption
<1>2. /\ past \in Seq(Int) /\ deltas \in Seq(Int) /\ prevClose \in Int
      /\ Len(past) \in Nat /\ Len(deltas) \in Nat /\ Len(deltas) <= Changes
      /\ \A i \in 1..Len(past) : past[i] \in Int
      /\ \A i \in 1..Len(deltas) : deltas[i] \in Int
  BY LenProperties, ElementOfSeq DEF Chain
<1>3. /\ deltas' = IF prevClose = 0 THEN deltas ELSE Push(deltas, p - prevClose, Changes)
      /\ prevClose' = p
      /\ past' = Push(past, p, Changes + 1)
  BY DEF RsiOnBar
<1>4. CASE past = <<>>
  <2>1. deltas' = <<>> /\ deltas = <<>> /\ Len(past) = 0
    BY <1>3, <1>4, EmptySeq DEF Chain
  <2>2. past' = Append(past, p)
    <3>1. Len(past) < Changes + 1
      BY <1>1, <2>1
    <3> QED
      BY <1>3, <3>1 DEF Push
  <2>3. past' \in Seq(Int) /\ Len(past') = 1 /\ past'[1] = p
    BY <1>1, <1>2, <2>1, <2>2, AppendProperties
  <2>4. Total(deltas') = 0 /\ Len(deltas') = 0
    BY <2>1, TotalEmpty, EmptySeq
  <2>5. past' # <<>>
    BY <2>3, EmptySeq
  <2> QED
    BY <1>1, <1>2, <1>3, <2>1, <2>3, <2>4, <2>5 DEF Chain
<1>5. CASE past # <<>>
  <2> DEFINE d == p - prevClose
  <2>1. /\ prevClose # 0 /\ prevClose = past[Len(past)]
        /\ Len(past) = Len(deltas) + 1
        /\ \A i \in 1..Len(deltas) : deltas[i] = past[i + 1] - past[i]
        /\ past[Len(past)] - past[1] = Total(deltas)
        /\ d \in Int
    BY <1>1, <1>2, <1>5 DEF Chain
  <2>2. deltas' = Push(deltas, d, Changes)
    BY <1>3, <2>1
  <2>3. d = p - past[Len(past)]
    BY <2>1
  <2> HIDE DEF d
  <2>4. CASE Len(deltas) < Changes
    <3>1. /\ deltas' = Append(deltas, d) /\ past' = Append(past, p)
      <4>1. Len(past) < Changes + 1
        BY <1>1, <1>2, <2>1, <2>4
      <4> QED
        BY <1>3, <2>2, <2>4, <4>1 DEF Push
    <3>2. /\ past' \in Seq(Int) /\ Len(past') = Len(past) + 1
          /\ past'[Len(past) + 1] = p /\ \A i \in 1..Len(past) : past'[i] = past[i]
      BY <1>1, <1>2, <3>1, AppendProperties
    <3>3. /\ deltas' \in Seq(Int) /\ Len(deltas') = Len(deltas) + 1
          /\ deltas'[Len(deltas) + 1] = d /\ \A i \in 1..Len(deltas) : deltas'[i] = deltas[i]
      BY <1>2, <2>1, <3>1, AppendProperties
    <3>4. Total(deltas) \in Int /\ Total(deltas') = Total(deltas) + d
      BY <1>2, <2>1, <3>1, TotalAppend
    <3>5. past' # <<>>
      BY <1>2, <3>2, EmptySeq
    <3>6. ASSUME NEW i \in 1..Len(deltas') PROVE deltas'[i] = past'[i + 1] - past'[i]
      <4>1. CASE i = Len(deltas) + 1
        BY <1>2, <2>1, <2>3, <3>2, <3>3, <4>1
      <4>2. CASE i # Len(deltas) + 1
        <5>1. i \in 1..Len(deltas) /\ i \in 1..Len(past) /\ i + 1 \in 1..Len(past)
          BY <1>2, <2>1, <3>3, <4>2
        <5> QED
          BY <2>1, <3>2, <3>3, <5>1
      <4> QED
        BY <4>1, <4>2
    <3>7. past'[Len(past')] - past'[1] = Total(deltas')
      <4>1. 1 \in 1..Len(past) /\ Len(past) \in 1..Len(past)
        BY <1>2, <2>1
      <4> QED
        BY <1>1, <1>2, <2>1, <2>3, <3>2, <3>4, <4>1
    <3>8. Len(deltas') <= Changes /\ Len(past') = Len(deltas') + 1
      BY <1>1, <1>2, <2>1, <2>4, <3>2, <3>3
    <3> QED
      BY <1>1, <1>3, <3>2, <3>3, <3>5, <3>6, <3>7, <3>8 DEF Chain
  <2>5. CASE Len(deltas) = Changes
    <3>1. /\ deltas # <<>> /\ deltas' = Append(Tail(deltas), d)
          /\ past' = Append(Tail(past), p)
      <4>1. ~(Len(past) < Changes + 1) /\ ~(Len(deltas) < Changes)
        BY <1>1, <1>2, <2>1, <2>5
      <4>2. deltas # <<>>
        BY <1>1, <2>5, EmptySeq
      <4> QED
        BY <1>3, <2>2, <4>1, <4>2 DEF Push
    <3>2. /\ Tail(past) \in Seq(Int) /\ Len(Tail(past)) = Len(past) - 1
          /\ \A i \in 1..Len(past) - 1 : Tail(past)[i] = past[i + 1]
      BY <1>2, <1>5, HeadTailProperties
    <3>3. /\ Tail(deltas) \in Seq(Int) /\ Len(Tail(deltas)) = Len(deltas) - 1
          /\ \A i \in 1..Len(deltas) - 1 : Tail(deltas)[i] = deltas[i + 1]
          /\ Head(deltas) = deltas[1]
      BY <1>2, <3>1, HeadTailProperties
    <3>4. /\ past' \in Seq(Int) /\ Len(past') = Len(past)
          /\ past'[Len(past)] = p /\ \A i \in 1..Len(past) - 1 : past'[i] = past[i + 1]
      BY <1>1, <1>2, <3>1, <3>2, AppendProperties
    <3>5. /\ deltas' \in Seq(Int) /\ Len(deltas') = Len(deltas)
          /\ deltas'[Len(deltas)] = d
          /\ \A i \in 1..Len(deltas) - 1 : deltas'[i] = deltas[i + 1]
      BY <1>2, <2>1, <3>1, <3>3, AppendProperties
    <3>6. /\ Total(deltas) \in Int
          /\ Total(deltas') = (Total(deltas) - deltas[1]) + d
      <4>1. /\ Total(deltas') = Total(Tail(deltas)) + d /\ Total(deltas) \in Int
        BY <1>2, <2>1, <3>1, <3>3, TotalAppend
      <4>2. Total(Tail(deltas)) = Total(deltas) - deltas[1]
        BY <1>2, <3>1, <3>3, TotalTail
      <4> QED
        BY <4>1, <4>2
    <3>7. past' # <<>>
      BY <1>2, <2>1, <3>4, EmptySeq
    <3>8. ASSUME NEW i \in 1..Len(deltas') PROVE deltas'[i] = past'[i + 1] - past'[i]
      <4>1. CASE i = Len(deltas)
        <5>1. i \in 1..Len(past) - 1 /\ i + 1 = Len(past)
          BY <1>1, <1>2, <2>1, <2>5, <4>1
        <5>2. past'[i] = past[Len(past)] /\ past'[i + 1] = p /\ deltas'[i] = d
          BY <3>4, <3>5, <4>1, <5>1
        <5> QED
          BY <2>3, <5>2
      <4>2. CASE i # Len(deltas)
        <5>1. /\ i \in 1..Len(deltas) - 1 /\ i + 1 \in 1..Len(deltas)
              /\ i \in 1..Len(past) - 1 /\ i + 1 \in 1..Len(past) - 1
          BY <1>2, <2>1, <3>5, <4>2
        <5>2. /\ deltas'[i] = deltas[i + 1] /\ past'[i] = past[i + 1]
              /\ past'[i + 1] = past[(i + 1) + 1]
          BY <3>4, <3>5, <5>1
        <5>3. deltas[i + 1] = past[(i + 1) + 1] - past[i + 1]
          BY <2>1, <5>1
        <5> QED
          BY <5>2, <5>3
      <4> QED
        BY <4>1, <4>2
    <3>9. past'[Len(past')] - past'[1] = Total(deltas')
      <4>1. /\ 1 \in 1..Len(past) - 1 /\ 1 \in 1..Len(past) /\ Len(past) \in 1..Len(past)
            /\ 2 \in 1..Len(past) /\ 1 \in 1..Len(deltas)
        BY <1>1, <1>2, <2>1, <2>5
      <4>2. past'[Len(past')] = p /\ past'[1] = past[2] /\ deltas[1] = past[2] - past[1]
        <5>1. past'[1] = past[1 + 1] /\ deltas[1] = past[1 + 1] - past[1] /\ 1 + 1 = 2
          BY <2>1, <3>4, <4>1
        <5> QED
          BY <3>4, <5>1
      <4>3. /\ past[1] \in Int /\ past[2] \in Int /\ past[Len(past)] \in Int
        BY <1>2, <4>1
      <4> QED
        BY <1>1, <2>1, <2>3, <3>6, <4>2, <4>3
    <3>10. Len(deltas') <= Changes /\ Len(past') = Len(deltas') + 1
      BY <1>2, <2>1, <3>4, <3>5
    <3> QED
      BY <1>1, <1>3, <3>4, <3>5, <3>7, <3>8, <3>9, <3>10 DEF Chain
  <2> QED
    BY <1>1, <1>2, <2>4, <2>5
<1> QED
  BY <1>4, <1>5

-----------------------------------------------------------------------------
(* MeanReversionStrategy.                                                  *)

Sides == {"LONG", "SHORT", "none"}

Balanced ==
  /\ positionSide \in Sides /\ net \in Int /\ slips \in Nat
  /\ SideFollowsSignals

(* What _on_bar_close emits moves the sum of the signals exactly as far as *)
(* it moves the side: entries come from no side and exits go back to it.   *)
LEMMA ReactionKeepsBalance ==
  ASSUME NEW z \in Zones, positionSide \in Sides
  PROVE  /\ Reaction(z).to \in Sides
         /\ Holds(positionSide) + Signed(Reaction(z).emits) = Holds(Reaction(z).to)
         /\ Reaction(z).emits = "none" => Reaction(z).to = positionSide
         /\ Signed(Reaction(z).emits) \in {-1, 0, 1}
<1>1. CASE positionSide = "none"
  <2>1. CASE z = "very low"
    <3>1. Reaction(z) = [emits |-> "BUY", to |-> "LONG"]
      BY <1>1, <2>1 DEF Reaction
    <3> QED
      BY <1>1, <3>1 DEF Holds, Signed, Sides
  <2>2. CASE z = "very high"
    <3>1. Reaction(z) = [emits |-> "SELL", to |-> "SHORT"]
      BY <1>1, <2>2 DEF Reaction
    <3> QED
      BY <1>1, <3>1 DEF Holds, Signed, Sides
  <2>3. CASE z \notin {"very low", "very high"}
    <3>1. Reaction(z) = [emits |-> "none", to |-> positionSide]
      BY <1>1, <2>3 DEF Reaction
    <3> QED
      BY <3>1 DEF Holds, Signed, Sides
  <2> QED
    BY <2>1, <2>2, <2>3
<1>2. CASE positionSide = "LONG"
  <2>1. CASE z \in {"within", "high", "very high"}
    <3>1. Reaction(z) = [emits |-> "SELL", to |-> "none"]
      BY <1>2, <2>1 DEF Reaction
    <3> QED
      BY <1>2, <3>1 DEF Holds, Signed, Sides
  <2>2. CASE z \notin {"within", "high", "very high"}
    <3>1. Reaction(z) = [emits |-> "none", to |-> positionSide]
      BY <1>2, <2>2 DEF Reaction
    <3> QED
      BY <3>1 DEF Holds, Signed, Sides
  <2> QED
    BY <2>1, <2>2
<1>3. CASE positionSide = "SHORT"
  <2>1. CASE z \in {"within", "low", "very low"}
    <3>1. Reaction(z) = [emits |-> "BUY", to |-> "none"]
      BY <1>3, <2>1 DEF Reaction
    <3> QED
      BY <1>3, <3>1 DEF Holds, Signed, Sides
  <2>2. CASE z \notin {"within", "low", "very low"}
    <3>1. Reaction(z) = [emits |-> "none", to |-> positionSide]
      BY <1>3, <2>2 DEF Reaction
    <3> QED
      BY <3>1 DEF Holds, Signed, Sides
  <2> QED
    BY <2>1, <2>2
<1> QED
  BY <1>1, <1>2, <1>3 DEF Sides


(* Only a bar moves the side or the sum of the signals: with a lost emit   *)
(* it moves neither, and it moves one without the other, by one signal,    *)
(* only by giving a signal up or by being cut off after one.               *)
LEMMA ReversionOnBarKeeps ==
  ASSUME Balanced, NEW z \in Zones, ReversionOnBar(z)
  PROVE  Balanced'
<1> DEFINE r == Reaction(z)
           held == Holds(positionSide)
           then == Holds(r.to)
           moved == Signed(r.emits)
<1>1. /\ r.to \in Sides /\ held + moved = then
      /\ r.emits = "none" => r.to = positionSide
      /\ moved \in {-1, 0, 1} /\ positionSide \in Sides
  BY ReactionKeepsBalance DEF Balanced
<1>2. held \in {-1, 0, 1} /\ then \in {-1, 0, 1}
  BY <1>1 DEF Holds, Sides
<1>3. net \in Int /\ slips \in Nat /\ net - held \in -slips..slips
  BY DEF Balanced, SideFollowsSignals
<1>4. CASE EmitCounted(r.emits) /\ positionSide' = r.to
  <2>1. Holds(positionSide)' = then
    BY <1>4 DEF Holds
  <2>2. CASE running
    <3>1. net' = net + moved /\ slips' = slips
      BY <1>4, <2>2 DEF EmitCounted
    <3> HIDE DEF held, then, moved
    <3>2. net' \in Int /\ net' - then = net - held
      BY <1>1, <1>2, <1>3, <3>1
    <3> QED
      BY <1>1, <1>3, <1>4, <2>1, <3>1, <3>2 DEF Balanced, SideFollowsSignals
  <2>3. CASE ~running /\ r.emits # "none"
    <3>1. net' = net /\ slips' = slips + 1
      BY <1>4, <2>3 DEF EmitCounted
    <3> HIDE DEF held, then, moved
    <3>2. slips' \in Nat /\ net' - then \in -slips'..slips'
      BY <1>1, <1>2, <1>3, <3>1
    <3> QED
      BY <1>1, <1>3, <1>4, <2>1, <3>1, <3>2 DEF Balanced, SideFollowsSignals
  <2>4. CASE ~running /\ r.emits = "none"
    <3>1. net' = net /\ slips' = slips /\ positionSide' = positionSide
      BY <1>1, <1>4, <2>4 DEF EmitCounted
    <3> QED
      BY <3>1 DEF Balanced, SideFollowsSignals, Holds
  <2> QED
    BY <2>2, <2>3, <2>4
<1>5. CASE EmitLost(r.emits) /\ UNCHANGED reversionVars
  BY <1>5 DEF reversionVars, Balanced, SideFollowsSignals, Holds
<1>6. CASE CutOffCounted(r.emits) /\ UNCHANGED positionSide
  <2>1. net' = net + moved /\ slips' = slips + 1 /\ Holds(positionSide)' = held
    BY <1>6 DEF CutOffCounted, Holds
  <2>2. positionSide' \in Sides
    BY <1>1, <1>6
  <2> HIDE DEF held, then, moved
  <2>3. net' \in Int /\ slips' \in Nat /\ net' - held \in -slips'..slips'
    BY <1>1, <1>2, <1>3, <2>1
  <2> QED
    BY <2>1, <2>2, <2>3 DEF Balanced, SideFollowsSignals
<1> QED
  BY <1>4, <1>5, <1>6 DEF ReversionOnBar

-----------------------------------------------------------------------------
(* The strategies together.                                                *)

IInv == Trend /\ Rolling /\ Chain /\ Balanced

LEMMA InitInv == Init => IInv
<1> SUFFICES ASSUME Init PROVE IInv
  OBVIOUS
<1>1. \A S : <<>> \in Seq(S) /\ Len(<<>>) = 0
  BY EmptySeq
<1>2. Trend
  BY <1>1, SmaAssumption DEF Init, SmaInit, Trend, LastSignalShowsTrend
<1>3. Rolling
  <2>1. Values(<<>>) = <<>> /\ Shares(<<>>) = <<>>
    BY DEF Values, Shares
  <2> QED
    BY <1>1, <2>1, TotalEmpty, VwapAssumption
    DEF Init, VwapInit, Rolling, RollingSumsExact
<1>4. Chain
  BY <1>1, RsiAssumption DEF Init, RsiInit, Chain
<1>5. Balanced
  BY DEF Init, ReversionInit, Balanced, SideFollowsSignals, Holds, Sides
<1> QED
  BY <1>2, <1>3, <1>4, <1>5 DEF IInv

(* What a step does not touch stays as it is.                              *)
LEMMA Untouched ==
  /\ Trend /\ UNCHANGED <<smaVars, strategy>>
           /\ (strategy # "sma_crossover" \/ UNCHANGED <<last, astray>>) => Trend'
  /\ Rolling /\ UNCHANGED vwapVars => Rolling'
  /\ Chain /\ UNCHANGED rsiVars => Chain'
  /\ Balanced /\ UNCHANGED reversionVars => Balanced'
<1>1. Trend /\ UNCHANGED <<smaVars, strategy>>
            /\ (strategy # "sma_crossover" \/ UNCHANGED <<last, astray>>) => Trend'
  BY DEF Trend, LastSignalShowsTrend, smaVars
<1>2. Rolling /\ UNCHANGED vwapVars => Rolling'
  BY DEF Rolling, RollingSumsExact, vwapVars
<1>3. Chain /\ UNCHANGED rsiVars => Chain'
  BY DEF Chain, rsiVars
<1>4. Balanced /\ UNCHANGED reversionVars => Balanced'
  BY DEF Balanced, SideFollowsSignals, reversionVars, Holds
<1> QED
  BY <1>1, <1>2, <1>3, <1>4

LEMMA StepInv == IInv /\ [Next]_vars => IInv'
<1> SUFFICES ASSUME IInv, [Next]_vars PROVE IInv'
  OBVIOUS
<1> USE DEF IInv
<1>1. CASE UNCHANGED <<last, astray, strategy, smaVars, vwapVars, rsiVars, reversionVars>>
  BY <1>1, Untouched
<1>2. CASE (Start \/ Stop) /\ UNCHANGED <<strategy, smaVars, vwapVars, rsiVars, reversionVars>>
  BY <1>1, <1>2 DEF Start, Stop
<1>3. CASE UNCHANGED vars
  BY <1>1, <1>3 DEF vars, baseVars
<1>4. ASSUME strategy = "sma_crossover", NEW p \in Closes, SmaOnBar(p),
             UNCHANGED <<strategy, vwapVars, reversionVars, rsiVars>>
      PROVE  IInv'
  BY <1>4, SmaOnBarKeeps, Untouched
<1>5. ASSUME strategy = "vwap_reversion", NEW p \in Trades, NEW v \in Volumes,
             VwapOnTick(p, v), UNCHANGED <<strategy, smaVars, reversionVars, rsiVars>>
      PROVE  IInv'
  BY <1>5, VwapOnTickKeeps, Untouched
<1>6. ASSUME strategy = "mean_reversion", NEW z \in Zones, ReversionOnBar(z),
             UNCHANGED <<strategy, smaVars, vwapVars, rsiVars>>
      PROVE  IInv'
  BY <1>6, ReversionOnBarKeeps, Untouched
<1>7. ASSUME strategy = "rsi_momentum", NEW p \in Closes, RsiOnBar(p),
             UNCHANGED <<strategy, smaVars, vwapVars, reversionVars>>
      PROVE  IInv'
  BY <1>7, RsiOnBarKeeps, Untouched
<1>8. ASSUME strategy = "bollinger_bands", NEW p \in Closes, BandsOnBar(p),
             UNCHANGED <<strategy, smaVars, vwapVars, reversionVars, rsiVars>>
      PROVE  IInv'
  BY <1>8, Untouched
<1>9. CASE Next
  <2>1. CASE strategy = "sma_crossover" /\ SmaNext
    BY <1>2, <1>4, <1>9, <2>1 DEF Next, SmaNext
  <2>2. CASE strategy = "vwap_reversion" /\ VwapNext
    BY <1>2, <1>5, <1>9, <2>2 DEF Next, VwapNext
  <2>3. CASE strategy = "mean_reversion" /\ ReversionNext
    BY <1>2, <1>6, <1>9, <2>3 DEF Next, ReversionNext
  <2>4. CASE strategy = "rsi_momentum" /\ RsiNext
    BY <1>2, <1>7, <1>9, <2>4 DEF Next, RsiNext
  <2>5. CASE strategy = "bollinger_bands" /\ BandsNext
    BY <1>2, <1>8, <1>9, <2>5 DEF Next, BandsNext
  <2> QED
    BY <1>9, <2>1, <2>2, <2>3, <2>4, <2>5 DEF Next
<1> QED
  BY <1>3, <1>9

-----------------------------------------------------------------------------
(* The averages SmaCrossoverStrategy notes last and its last signal on the *)
(* bus agree: a signal lost to a full queue is given again by a later bar, *)
(* never taken for given. One given up after stop(), or cut off after it   *)
(* got out, counts until the next that is both given and noted.            *)
THEOREM TrendShown == Spec => []LastSignalShowsTrend
<1>1. IInv => LastSignalShowsTrend
  BY DEF IInv, Trend
<1> QED
  BY InitInv, StepInv, <1>1, PTL DEF Spec

(* _cum_pv and _cum_vol of VwapReversionStrategy never drift from the ticks*)
(* in its deques, nor the changes of RsiMomentumStrategy from its closes.  *)
THEOREM WindowsTrue == Spec => []WindowsExact
<1>1. IInv => WindowsExact
  BY HeadTailProperties DEF IInv, Rolling, Chain, WindowsExact
<1> QED
  BY InitInv, StepInv, <1>1, PTL DEF Spec

(* The side MeanReversionStrategy believes it holds, _position_side, is    *)
(* the sum of the signals it got onto the bus, up to one for each signal   *)
(* given up after stop() or cut off before it was noted.                   *)
THEOREM SideCorrect == Spec => []SideFollowsSignals
<1>1. IInv => SideFollowsSignals
  BY DEF IInv, Balanced
<1> QED
  BY InitInv, StepInv, <1>1, PTL DEF Spec
===============================================================================
