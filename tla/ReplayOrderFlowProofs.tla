------------------------ MODULE ReplayOrderFlowProofs ------------------------
(***************************************************************************)
(* In a replay, for any orders, prices and limits, in either mode of the   *)
(* bus and however full its queue: no order waits that the last price      *)
(* fills, and what becomes of the orders is what OrderLife says.           *)
(***************************************************************************)
EXTENDS ReplayOrderFlow, WellFoundedInduction, FiniteSetTheorems, SequenceTheorems, TLAPS

LEMMA Least ==
  ASSUME NEW T \in SUBSET Nat, T # {}
  PROVE  \E m \in T : \A n \in T : m <= n
<1> DEFINE R == StrictSubsetOrdering(Nat)
           Initials == {1..n : n \in T}
<1>1. Initials \subseteq FiniteSubsetsOf(Nat) /\ Initials # {}
  <2>1. \A n \in T : IsFiniteSet(1..n) /\ 1..n \subseteq Nat
    BY FS_Interval
  <2> QED
    BY <2>1 DEF FiniteSubsetsOf
<1>2. \E x \in Initials : \A y \in Initials : ~(<<y, x>> \in R)
  BY <1>1, FS_StrictSubsetOrderingWellFounded, WFMin
<1>3. PICK m \in T : \A n \in T : ~(<<1..n, 1..m>> \in R)
  BY <1>2
<1>4. ASSUME NEW n \in T, n < m PROVE FALSE
  <2>1. 1..n \subseteq 1..m /\ 1..n # 1..m /\ 1..n \in SUBSET Nat /\ 1..m \in SUBSET Nat
    BY <1>4
  <2> QED
    BY <1>3, <2>1 DEF StrictSubsetOrdering
<1> QED
  BY <1>4

LEMMA SetInduction ==
  ASSUME NEW A, 0 \in A, \A n \in Nat : n \in A => n + 1 \in A
  PROVE  Nat \subseteq A
<1> SUFFICES ASSUME NEW n \in Nat, n \notin A PROVE FALSE
  OBVIOUS
<1>1. PICK m \in Nat \ A : \A k \in Nat \ A : m <= k
  BY Least
<1>2. m # 0 /\ m - 1 \in Nat
  BY <1>1
<1>3. m - 1 \in A
  BY <1>1, <1>2
<1>4. (m - 1) + 1 \in A
  BY <1>2, <1>3
<1>5. (m - 1) + 1 = m
  BY <1>1
<1> QED
  BY <1>1, <1>4, <1>5


-----------------------------------------------------------------------------
(* The lists of orders.                                                    *)

Distinct(q) == \A m, n \in 1..Len(q) : q[m] = q[n] => m = n

(* What Among picks from the first n of list q, step by step.              *)
Picks(g, q, T, k) ==
  \A n \in 0..k :
    /\ g[n] \in Seq(Nat)
    /\ g[n] = IF n = 0 THEN <<>>
              ELSE IF q[n] \in T THEN Append(g[n - 1], q[n]) ELSE g[n - 1]
IsPick(g, q, T) ==
  g = [n \in 0..Len(q) |->
         IF n = 0 THEN <<>>
         ELSE IF q[n] \in T THEN Append(g[n - 1], q[n]) ELSE g[n - 1]]

LEMMA PickExists ==
  ASSUME NEW q \in Seq(Nat), NEW T
  PROVE  \E g : IsPick(g, q, T)
<1> DEFINE Step(g, n) == IF q[n] \in T THEN Append(g[n - 1], q[n]) ELSE g[n - 1]
           Upto(g, n) == \A i \in 0..n : g[i] = IF i = 0 THEN <<>> ELSE Step(g, i)
           Has(n) == n <= Len(q) => \E g : g = [i \in 0..n |-> g[i]] /\ Upto(g, n)
           A == {n \in Nat : Has(n)}
<1>0. Len(q) \in Nat
  BY LenProperties
<1>1. Has(0)
  <2> DEFINE g == [i \in 0..0 |-> <<>>]
  <2>1. g = [i \in 0..0 |-> g[i]] /\ Upto(g, 0)
    OBVIOUS
  <2> QED
    BY <2>1
<1>2. ASSUME NEW n \in Nat, Has(n), n + 1 <= Len(q)
      PROVE  \E g : g = [i \in 0..n + 1 |-> g[i]] /\ Upto(g, n + 1)
  <2>1. PICK g : g = [i \in 0..n |-> g[i]] /\ Upto(g, n)
    <3>1. n <= Len(q)
      BY <1>0, <1>2
    <3> HIDE DEF Upto
    <3> QED
      BY <1>2, <3>1
  <2> DEFINE new == IF q[n + 1] \in T THEN Append(g[n], q[n + 1]) ELSE g[n]
             h == [i \in 0..n + 1 |-> IF i = n + 1 THEN new ELSE g[i]]
  <2>2. h = [i \in 0..n + 1 |-> h[i]]
    OBVIOUS
  <2>3. ASSUME NEW i \in 0..n + 1 PROVE h[i] = IF i = 0 THEN <<>> ELSE Step(h, i)
    <3>1. CASE i = n + 1
      <4>1. h[i] = new /\ i # 0 /\ h[i - 1] = g[n]
        BY <3>1
      <4> HIDE DEF h
      <4> QED
        BY <3>1, <4>1
    <3>2. CASE i # n + 1
      <4>1. i \in 0..n /\ h[i] = g[i] /\ (i # 0 => h[i - 1] = g[i - 1])
        BY <3>2
      <4> HIDE DEF h, new
      <4> QED
        BY <2>1, <4>1
    <3> QED
      BY <3>1, <3>2
  <2> HIDE DEF h, Step
  <2> QED
    BY <2>2, <2>3
<1>3. ASSUME NEW n \in Nat, Has(n) PROVE Has(n + 1)
  BY <1>2, <1>3
<1> HIDE DEF Has
<1>4. 0 \in A /\ \A n \in Nat : n \in A => n + 1 \in A
  BY <1>1, <1>3
<1>5. Len(q) \in A
  BY <1>0, <1>4, SetInduction
<1>6. PICK g : g = [i \in 0..Len(q) |-> g[i]] /\ Upto(g, Len(q))
  BY <1>0, <1>5 DEF Has
<1>7. \A i \in 0..Len(q) : g[i] = IF i = 0 THEN <<>> ELSE Step(g, i)
  BY <1>6
<1>8. g = [i \in 0..Len(q) |-> IF i = 0 THEN <<>> ELSE Step(g, i)]
  <2> HIDE DEF Step
  <2> QED
    BY <1>6, <1>7
<1> QED
  BY <1>8 DEF IsPick

(* Among lists the elements that are in the set, each as often.            *)
LEMMA AmongIs ==
  ASSUME NEW q \in Seq(Nat), NEW T
  PROVE  /\ Among(q, T) \in Seq(Nat)
         /\ Elements(Among(q, T)) = Elements(q) \cap T
         /\ Distinct(q) => Distinct(Among(q, T))
<1> DEFINE g == CHOOSE f : IsPick(f, q, T)
<1>0. Len(q) \in Nat /\ DOMAIN q = 1..Len(q) /\ \A i \in 1..Len(q) : q[i] \in Nat
  BY LenProperties, ElementOfSeq
<1>1. IsPick(g, q, T)
  <2>1. \E f : IsPick(f, q, T)
    BY PickExists
  <2> HIDE DEF IsPick
  <2> QED
    BY <2>1
<1>2. Among(q, T) = g[Len(q)]
  BY DEF Among, IsPick
<1> HIDE DEF g
<1>3. \A n \in 0..Len(q) :
        g[n] = IF n = 0 THEN <<>>
               ELSE IF q[n] \in T THEN Append(g[n - 1], q[n]) ELSE g[n - 1]
  BY <1>1 DEF IsPick
<1> DEFINE Fits(n) == /\ g[n] \in Seq(Nat)
                      /\ Elements(g[n]) = {q[i] : i \in 1..n} \cap T
                      /\ Distinct(q) => Distinct(g[n])
           Has(n) == n <= Len(q) => Fits(n)
           A == {n \in Nat : Has(n)}
<1>4. Fits(0)
  <2>1. g[0] = <<>>
    BY <1>0, <1>3
  <2>2. <<>> \in Seq(Nat) /\ Len(<<>>) = 0 /\ DOMAIN <<>> = 1..0
    BY EmptySeq, LenProperties
  <2> QED
    BY <2>1, <2>2 DEF Elements, Distinct
<1>5. ASSUME NEW n \in Nat, Fits(n), n + 1 <= Len(q) PROVE Fits(n + 1)
  <2>1. g[n + 1] = IF q[n + 1] \in T THEN Append(g[n], q[n + 1]) ELSE g[n]
    <3>1. n + 1 \in 0..Len(q) /\ n + 1 # 0 /\ (n + 1) - 1 = n
      BY <1>0, <1>5
    <3> QED
      BY <1>3, <3>1
  <2>2. q[n + 1] \in Nat /\ n + 1 \in 1..Len(q)
    BY <1>0, <1>5
  <2>3. {q[i] : i \in 1..n + 1} = {q[i] : i \in 1..n} \cup {q[n + 1]}
    OBVIOUS
  <2>4. CASE q[n + 1] \notin T
    <3>1. g[n + 1] = g[n]
      BY <2>1, <2>4
    <3> QED
      BY <1>5, <2>3, <2>4, <3>1
  <2>5. CASE q[n + 1] \in T
    <3> DEFINE a == g[n]
               b == g[n + 1]
    <3>1. b = Append(a, q[n + 1])
      BY <2>1, <2>5
    <3>2. a \in Seq(Nat) /\ Len(a) \in Nat /\ DOMAIN a = 1..Len(a)
      BY <1>5, LenProperties
    <3>3. /\ b \in Seq(Nat) /\ Len(b) = Len(a) + 1
          /\ \A i \in 1..Len(a) : b[i] = a[i]
          /\ b[Len(a) + 1] = q[n + 1]
      BY <2>2, <3>1, <3>2, AppendProperties
    <3>4. DOMAIN b = 1..Len(b)
      BY <3>3, LenProperties
    <3>5. Elements(a) = {q[i] : i \in 1..n} \cap T /\ (Distinct(q) => Distinct(a))
      BY <1>5
    <3> HIDE DEF a, b
    <3>6. Elements(b) = Elements(a) \cup {q[n + 1]}
      <4>1. ASSUME NEW i \in DOMAIN b PROVE b[i] \in Elements(a) \cup {q[n + 1]}
        <5>1. i \in 1..Len(a) \/ i = Len(a) + 1
          BY <3>2, <3>3, <3>4
        <5> QED
          BY <3>2, <3>3, <5>1 DEF Elements
      <4>2. ASSUME NEW i \in DOMAIN a PROVE a[i] \in Elements(b)
        <5>1. i \in DOMAIN b /\ b[i] = a[i]
          BY <3>2, <3>3, <3>4
        <5> QED
          BY <5>1 DEF Elements
      <4>3. q[n + 1] \in Elements(b)
        <5>1. Len(a) + 1 \in DOMAIN b
          BY <3>2, <3>3, <3>4
        <5> QED
          BY <3>3, <5>1 DEF Elements
      <4> QED
        BY <4>1, <4>2, <4>3 DEF Elements
    <3>7. ASSUME Distinct(q) PROVE Distinct(b)
      <4>1. q[n + 1] \notin Elements(a)
        <5>1. \A i \in 1..n : i \in 1..Len(q) /\ i # n + 1
          BY <1>0, <1>5
        <5> QED
          BY <2>2, <3>5, <3>7, <5>1 DEF Distinct
      <4>2. \A i \in 1..Len(a) : a[i] # q[n + 1]
        BY <3>2, <4>1 DEF Elements
      <4>3. Distinct(a)
        BY <3>5, <3>7
      <4>4. ASSUME NEW i \in 1..Len(b), NEW j \in 1..Len(b), b[i] = b[j] PROVE i = j
        <5>1. (i \in 1..Len(a) \/ i = Len(a) + 1) /\ (j \in 1..Len(a) \/ j = Len(a) + 1)
          BY <3>2, <3>3
        <5> QED
          BY <3>3, <4>2, <4>3, <4>4, <5>1 DEF Distinct
      <4> QED
        BY <4>4 DEF Distinct
    <3>8. Elements(b) = {q[i] : i \in 1..n + 1} \cap T
      BY <2>3, <2>5, <3>5, <3>6
    <3> QED
      BY <3>3, <3>7, <3>8 DEF b
  <2> QED
    BY <2>4, <2>5
<1>6. ASSUME NEW n \in Nat, Has(n) PROVE Has(n + 1)
  <2> SUFFICES ASSUME n + 1 <= Len(q) PROVE Fits(n + 1)
    OBVIOUS
  <2>1. n <= Len(q)
    BY <1>0
  <2> HIDE DEF Fits
  <2> QED
    BY <1>5, <1>6, <2>1
<1>7. 0 \in A /\ \A n \in Nat : n \in A => n + 1 \in A
  <2> HIDE DEF Fits
  <2>1. Has(0)
    BY <1>4
  <2> HIDE DEF Has
  <2> QED
    BY <1>6, <2>1
<1>8. Fits(Len(q))
  <2> HIDE DEF Fits
  <2>1. Len(q) \in A
    BY <1>0, <1>7, SetInduction
  <2> QED
    BY <1>0, <2>1
<1> QED
  BY <1>0, <1>2, <1>8 DEF Elements

(* Appending an order to a list.                                           *)
LEMMA AppendElement ==
  ASSUME NEW q \in Seq(Nat), NEW o \in Nat, o \notin Elements(q), Distinct(q)
  PROVE  /\ Append(q, o) \in Seq(Nat)
         /\ Elements(Append(q, o)) = Elements(q) \cup {o}
         /\ Distinct(Append(q, o))
<1> DEFINE b == Append(q, o)
<1>1. /\ b \in Seq(Nat) /\ Len(b) = Len(q) + 1
      /\ \A i \in 1..Len(q) : b[i] = q[i]
      /\ b[Len(q) + 1] = o
  BY AppendProperties
<1>2. /\ Len(q) \in Nat /\ DOMAIN q = 1..Len(q) /\ DOMAIN b = 1..Len(b)
  BY <1>1, LenProperties
<1> HIDE DEF b
<1>3. \A i \in DOMAIN b : i \in 1..Len(q) \/ i = Len(q) + 1
  BY <1>1, <1>2
<1>4. Elements(b) = Elements(q) \cup {o}
  <2>1. ASSUME NEW i \in DOMAIN b PROVE b[i] \in Elements(q) \cup {o}
    BY <1>1, <1>2, <1>3 DEF Elements
  <2>2. ASSUME NEW i \in DOMAIN q PROVE q[i] \in Elements(b)
    <3>1. i \in DOMAIN b /\ b[i] = q[i]
      BY <1>1, <1>2
    <3> QED
      BY <3>1 DEF Elements
  <2>3. o \in Elements(b)
    <3>1. Len(q) + 1 \in DOMAIN b
      BY <1>1, <1>2
    <3> QED
      BY <1>1, <3>1 DEF Elements
  <2> QED
    BY <2>1, <2>2, <2>3 DEF Elements
<1>5. ASSUME NEW i \in 1..Len(b), NEW j \in 1..Len(b), b[i] = b[j] PROVE i = j
  <2>1. \A k \in 1..Len(q) : q[k] # o
    BY <1>2 DEF Elements
  <2>2. (i \in 1..Len(q) \/ i = Len(q) + 1) /\ (j \in 1..Len(q) \/ j = Len(q) + 1)
    BY <1>2, <1>3
  <2> QED
    BY <1>1, <1>5, <2>1, <2>2 DEF Distinct
<1> QED
  BY <1>1, <1>4, <1>5 DEF b, Distinct

-----------------------------------------------------------------------------
(* The invariant.                                                          *)

Orders == 1..Len(simBook)
Fills == [o \in DOMAIN simBook |-> simBook[o].fills]

(* The orders that wait are orders of the book, market orders in one list  *)
(* and limit orders in the other, each once.                               *)
Listed ==
  /\ simBook \in Seq([intent : Intents, fills : 0..2])
  /\ held \in Seq(Nat) /\ pending \in Seq(Nat)
  /\ Distinct(held) /\ Distinct(pending)
  /\ \A o \in Elements(held) : o \in Orders /\ OrderType[IntentOf(o)] = "MKT"
  /\ \A o \in Elements(pending) : o \in Orders /\ OrderType[IntentOf(o)] = "LMT"

(* No order waits that the last price of its symbol fills, whatever the    *)
(* bus has in it.                                                          *)
NoneDue ==
  /\ prices \in [Symbols -> Prices \cup {None}]
  /\ \A o \in Elements(held) : MarketPrice(IntentOf(o)) = None \/ o \in cutOff
  /\ \A o \in Elements(pending) :
       \/ MarketPrice(IntentOf(o)) = None
       \/ ~Crossed(IntentOf(o), MarketPrice(IntentOf(o)))
       \/ o \in cutOff

IInv == Listed /\ NoneDue

LEMMA BookTyped ==
  ASSUME Listed
  PROVE  /\ Len(simBook) \in Nat /\ DOMAIN simBook = Orders
         /\ \A o \in Orders : /\ simBook[o] \in [intent : Intents, fills : 0..2]
                              /\ IntentOf(o) \in Intents /\ simBook[o].fills \in 0..2
<1>1. Len(simBook) \in Nat /\ DOMAIN simBook = Orders
  BY LenProperties DEF Listed, Orders
<1>2. \A o \in Orders : simBook[o] \in [intent : Intents, fills : 0..2]
  BY ElementOfSeq DEF Listed, Orders
<1> QED
  BY <1>1, <1>2 DEF IntentOf

(* A new order: its record is added, the others stay as they are.          *)
LEMMA BookAppended ==
  ASSUME Listed, NEW i \in Intents, NEW n \in 0..2,
         simBook' = Append(simBook, Record(i, n))
  PROVE  /\ simBook' \in Seq([intent : Intents, fills : 0..2])
         /\ Orders \subseteq Orders' /\ NextId \in Orders' /\ NextId \notin Orders
         /\ NextId \in Nat
         /\ \A o \in Orders : IntentOf(o)' = IntentOf(o)
         /\ simBook'[NextId].intent = i
         /\ Fills' = Append(Fills, n) /\ Len(Fills) + 1 = NextId
<1> DEFINE r == Record(i, n)
<1>1. r \in [intent : Intents, fills : 0..2] /\ r.intent = i /\ r.fills = n
  BY DEF Record
<1> HIDE DEF r
<1>2. /\ simBook' \in Seq([intent : Intents, fills : 0..2])
      /\ Len(simBook') = Len(simBook) + 1
      /\ \A o \in 1..Len(simBook) : simBook'[o] = simBook[o]
      /\ simBook'[Len(simBook) + 1] = r
  BY <1>1, AppendProperties DEF Listed, r
<1>3. Len(simBook) \in Nat /\ DOMAIN simBook = Orders /\ DOMAIN simBook' = Orders'
  BY <1>2, LenProperties, BookTyped DEF Orders
<1>4. /\ Orders \subseteq Orders' /\ NextId \in Orders' /\ NextId \notin Orders
      /\ NextId \in Nat /\ \A o \in Orders' : o \in Orders \/ o = NextId
  BY <1>2, <1>3 DEF Orders, NextId
<1>5. /\ \A o \in Orders : simBook'[o] = simBook[o]
      /\ simBook'[NextId] = r
  BY <1>2 DEF Orders, NextId
<1>6. Fills' = Append(Fills, n) /\ Len(Fills) + 1 = NextId
  <2>1. /\ Fills \in Seq(0..2) /\ Len(Fills) = Len(simBook)
        /\ \A o \in Orders : Fills[o] = simBook[o].fills
    <3>1. Fills \in [1..Len(simBook) -> 0..2]
      BY <1>3, BookTyped DEF Fills, Orders
    <3>2. Fills \in Seq(0..2)
      BY <1>3, <3>1, SeqDef
    <3>3. DOMAIN Fills = 1..Len(simBook)
      BY <1>3 DEF Fills, Orders
    <3> QED
      BY <1>3, <3>2, <3>3, LenProperties DEF Fills
  <2> DEFINE b == Append(Fills, n)
  <2>2. /\ b \in Seq(0..2) /\ Len(b) = Len(simBook) + 1
        /\ \A o \in 1..Len(simBook) : b[o] = Fills[o]
        /\ b[Len(simBook) + 1] = n
    BY <2>1, AppendProperties
  <2>3. DOMAIN b = 1..Len(b) /\ b = [o \in DOMAIN b |-> b[o]]
    BY <2>2, LenProperties
  <2> HIDE DEF b
  <2>4. DOMAIN b = DOMAIN simBook'
    BY <1>2, <1>3, <2>2, <2>3 DEF Orders
  <2>5. \A o \in DOMAIN simBook' : b[o] = simBook'[o].fills
    <3>1. \A o \in Orders : b[o] = simBook'[o].fills
      BY <1>5, <2>1, <2>2 DEF Orders
    <3>2. b[NextId] = simBook'[NextId].fills
      BY <1>1, <1>5, <2>2 DEF NextId
    <3> QED
      BY <1>3, <1>4, <3>1, <3>2
  <2>6. Fills' = b
    BY <2>3, <2>4, <2>5 DEF Fills
  <2> QED
    BY <2>1, <2>6 DEF b, NextId
<1> QED
  BY <1>1, <1>2, <1>4, <1>5, <1>6 DEF IntentOf

(* Orders that are filled: only their fills change.                        *)
LEMMA BookFilled ==
  ASSUME Listed, NEW done, simBook' = BookAfter(done)
  PROVE  /\ simBook' \in Seq([intent : Intents, fills : 0..2])
         /\ Orders' = Orders /\ \A o \in Orders : IntentOf(o)' = IntentOf(o)
         /\ Course!Filled(done)
<1>1. DOMAIN simBook = Orders /\ Len(simBook) \in Nat
  BY BookTyped
<1>2. simBook' = [o \in Orders |->
                    IF o \in done
                    THEN Record(IntentOf(o), IF simBook[o].fills = 0 THEN 1 ELSE 2)
                    ELSE simBook[o]]
  BY <1>1 DEF BookAfter
<1>3. ASSUME NEW o \in Orders
      PROVE  /\ simBook'[o] \in [intent : Intents, fills : 0..2]
             /\ simBook'[o].intent = IntentOf(o)
             /\ simBook'[o].fills = IF o \notin done THEN simBook[o].fills
                                    ELSE IF simBook[o].fills = 0 THEN 1 ELSE 2
  <2>1. /\ simBook[o] \in [intent : Intents, fills : 0..2] /\ IntentOf(o) \in Intents
        /\ IntentOf(o) = simBook[o].intent
    BY BookTyped DEF IntentOf
  <2>2. CASE o \in done
    BY <1>2, <2>1, <2>2 DEF Record
  <2>3. CASE o \notin done
    BY <1>2, <2>1, <2>3
  <2> QED
    BY <2>2, <2>3
<1>4. simBook' \in Seq([intent : Intents, fills : 0..2])
  <2>1. simBook' \in [1..Len(simBook) -> [intent : Intents, fills : 0..2]]
    BY <1>2, <1>3 DEF Orders
  <2> DEFINE S == [intent : Intents, fills : 0..2]
  <2>2. simBook' \in [1..Len(simBook) -> S]
    BY <2>1
  <2> HIDE DEF S
  <2>3. simBook' \in Seq(S)
    BY <1>1, <2>2, SeqDef
  <2> QED
    BY <2>3 DEF S
<1>5. Orders' = Orders
  <2>1. DOMAIN simBook' = Orders /\ DOMAIN simBook' = Orders'
    BY <1>2, <1>4, LenProperties DEF Orders
  <2> QED
    BY <2>1
<1>6. \A o \in Orders : IntentOf(o)' = IntentOf(o)
  BY <1>3 DEF IntentOf
<1>7. Course!Filled(done)
  <2>1. DOMAIN simBook' = DOMAIN simBook
    BY <1>1, <1>2
  <2>2. Fills' = [o \in DOMAIN Fills |->
                    IF o \notin done THEN Fills[o] ELSE IF Fills[o] = 0 THEN 1 ELSE 2]
    BY <1>1, <1>3, <2>1 DEF Fills
  <2> QED
    BY <2>2 DEF Course!Filled, Fills
<1> QED
  BY <1>4, <1>5, <1>6, <1>7

-----------------------------------------------------------------------------
(* What a price makes due.                                                 *)

LEMMA DueOrders ==
  ASSUME Listed, NEW s \in Symbols, NEW p \in Prices
  PROVE  LET h == HeldDue(s)
             d == PendingDue(s, p)
         IN  /\ h \in Seq(Nat) /\ d \in Seq(Nat) /\ h \o d \in Seq(Nat)
             /\ Len(h \o d) = Len(h) + Len(d)
             /\ Elements(h) = {o \in Elements(held) : Symbol[IntentOf(o)] = s}
             /\ Elements(d) = Reached(s, p)
             /\ \A n \in 1..Len(h) : (h \o d)[n] = h[n]
             /\ Elements(h \o d) = Elements(h) \cup Elements(d)
             /\ Distinct(h \o d)
<1> DEFINE h == HeldDue(s)
           d == PendingDue(s, p)
           due == h \o d
<1>1. /\ h \in Seq(Nat) /\ Distinct(h)
      /\ Elements(h) = {o \in Elements(held) : Symbol[IntentOf(o)] = s}
  BY AmongIs DEF HeldDue, Listed
<1>2. d \in Seq(Nat) /\ Distinct(d) /\ Elements(d) = Elements(pending) \cap Reached(s, p)
  BY AmongIs DEF PendingDue, Listed
<1>3. Elements(d) = Reached(s, p)
  BY <1>2 DEF Reached
<1>4. Elements(h) \cap Elements(d) = {}
  BY <1>1, <1>2, "MKT" # "LMT" DEF Listed
<1> HIDE DEF h, d
<1>5. /\ Len(h) \in Nat /\ DOMAIN h = 1..Len(h) /\ Len(d) \in Nat /\ DOMAIN d = 1..Len(d)
      /\ due \in Seq(Nat) /\ Len(due) = Len(h) + Len(d)
      /\ \A n \in 1..Len(due) : due[n] = IF n <= Len(h) THEN h[n] ELSE d[n - Len(h)]
  BY <1>1, <1>2, LenProperties, ConcatProperties
<1> HIDE DEF due
<1>6. DOMAIN due = 1..Len(due)
  BY <1>5, LenProperties
<1>7. \A n \in 1..Len(h) : n \in 1..Len(due) /\ due[n] = h[n]
  BY <1>5
<1>8. ASSUME NEW n \in 1..Len(d) PROVE Len(h) + n \in 1..Len(due) /\ due[Len(h) + n] = d[n]
  <2>1. Len(h) + n \in 1..Len(due) /\ ~(Len(h) + n <= Len(h)) /\ (Len(h) + n) - Len(h) = n
    BY <1>5
  <2> QED
    BY <1>5, <2>1
<1>9. ASSUME NEW n \in 1..Len(due)
      PROVE  \/ n \in 1..Len(h) /\ due[n] = h[n]
             \/ /\ n - Len(h) \in 1..Len(d) /\ due[n] = d[n - Len(h)]
  BY <1>5
<1>10. Elements(due) = Elements(h) \cup Elements(d)
  <2>1. ASSUME NEW n \in DOMAIN due PROVE due[n] \in Elements(h) \cup Elements(d)
    BY <1>5, <1>6, <1>9 DEF Elements
  <2>2. ASSUME NEW n \in DOMAIN h PROVE h[n] \in Elements(due)
    <3>1. n \in DOMAIN due /\ due[n] = h[n]
      BY <1>5, <1>6, <1>7
    <3> QED
      BY <3>1 DEF Elements
  <2>3. ASSUME NEW n \in DOMAIN d PROVE d[n] \in Elements(due)
    <3>1. Len(h) + n \in DOMAIN due /\ due[Len(h) + n] = d[n]
      BY <1>5, <1>6, <1>8
    <3> QED
      BY <3>1 DEF Elements
  <2> QED
    BY <2>1, <2>2, <2>3 DEF Elements
<1>11. ASSUME NEW m \in 1..Len(due), NEW n \in 1..Len(due), due[m] = due[n] PROVE m = n
  <2>1. CASE m \in 1..Len(h) /\ due[m] = h[m]
    <3>1. h[m] \in Elements(h)
      BY <1>5, <2>1 DEF Elements
    <3>2. due[n] \notin Elements(d)
      BY <1>4, <1>11, <2>1, <3>1
    <3>3. n \in 1..Len(h) /\ due[n] = h[n]
      BY <1>5, <1>9, <3>2 DEF Elements
    <3> QED
      BY <1>1, <1>11, <2>1, <3>3 DEF Distinct, h
  <2>2. CASE m - Len(h) \in 1..Len(d) /\ due[m] = d[m - Len(h)]
    <3>1. d[m - Len(h)] \in Elements(d)
      BY <1>5, <2>2 DEF Elements
    <3>2. due[n] \notin Elements(h)
      BY <1>4, <1>11, <2>2, <3>1
    <3>3. n - Len(h) \in 1..Len(d) /\ due[n] = d[n - Len(h)]
      BY <1>5, <1>9, <3>2 DEF Elements
    <3>4. m - Len(h) = n - Len(h)
      BY <1>2, <1>11, <2>2, <3>3 DEF Distinct
    <3> QED
      BY <1>5, <3>4
  <2> QED
    BY <1>9, <2>1, <2>2
<1>12. Distinct(due)
  BY <1>11 DEF Distinct
<1> QED
  BY <1>1, <1>2, <1>3, <1>5, <1>7, <1>10, <1>12 DEF h, d, due

(* Those among them that are filled when k events got out.                 *)
LEMMA FilledOrders ==
  ASSUME NEW due \in Seq(Nat), Distinct(due), NEW k \in 0..2 * Len(due)
  PROVE  /\ FilledAmong(due, k) \subseteq Elements(due)
         /\ k = 2 * Len(due) => FilledAmong(due, k) = Elements(due)
         /\ k # 2 * Len(due) => FilledAmong(due, k) # Elements(due)
         /\ \A n \in Nat : 2 * n <= k => {due[m] : m \in 1..n} \subseteq FilledAmong(due, k)
<1> DEFINE l == Len(due)
           half == k \div 2
<1>1. l \in Nat /\ DOMAIN due = 1..l
  BY LenProperties
<1>2. k \in Nat /\ k <= 2 * l
  BY <1>1
<1>3. half \in Nat /\ 2 * half <= k /\ k < 2 * half + 2
  BY <1>2
<1>4. FilledAmong(due, k) = {due[n] : n \in 1..half}
  BY DEF FilledAmong
<1> HIDE DEF half, l
<1>5. FilledAmong(due, k) \subseteq Elements(due)
  <2>1. \A n \in 1..half : n \in DOMAIN due
    BY <1>1, <1>2, <1>3
  <2> QED
    BY <1>4, <2>1 DEF Elements
<1>6. ASSUME k = 2 * l PROVE FilledAmong(due, k) = Elements(due)
  <2>1. half = l
    BY <1>1, <1>3, <1>6
  <2> QED
    BY <1>1, <1>4, <2>1 DEF Elements
<1>7. ASSUME k # 2 * l PROVE FilledAmong(due, k) # Elements(due)
  <2>1. l \in DOMAIN due /\ half < l
    BY <1>1, <1>2, <1>3, <1>7
  <2>2. due[l] \in Elements(due)
    BY <2>1 DEF Elements
  <2>3. ASSUME NEW n \in 1..half PROVE due[n] # due[l]
    <3>1. n \in 1..l /\ l \in 1..l /\ n # l
      BY <1>1, <1>3, <2>1
    <3> QED
      BY <3>1 DEF Distinct, l
  <2> QED
    BY <1>4, <2>2, <2>3
<1>8. ASSUME NEW n \in Nat, 2 * n <= k
      PROVE  {due[m] : m \in 1..n} \subseteq FilledAmong(due, k)
  <2>1. n <= half
    BY <1>3, <1>8
  <2>2. \A m \in 1..n : m \in 1..half
    BY <1>3, <2>1
  <2> QED
    BY <1>4, <2>2
<1> QED
  BY <1>5, <1>6, <1>7, <1>8 DEF l

-----------------------------------------------------------------------------
(* Steps of the broker.                                                    *)

(* A request: the order is filled at once, refused, or waits, if no price  *)
(* that is known fills it.                                                 *)
LEMMA RequestArrives ==
  ASSUME IInv, NEW i \in Intents, NEW n \in 0..1,
         simBook' = Append(simBook, Record(i, n)), UNCHANGED <<prices, cutOff>>,
         \/ UNCHANGED <<held, pending>>
         \/ /\ n = 0 /\ OrderType[i] = "MKT" /\ MarketPrice(i) = None
            /\ held' = Append(held, NextId) /\ UNCHANGED pending
         \/ /\ n = 0 /\ OrderType[i] = "LMT"
            /\ MarketPrice(i) = None \/ ~Crossed(i, MarketPrice(i))
            /\ pending' = Append(pending, NextId) /\ UNCHANGED held
  PROVE  IInv' /\ Course!Arrive
<1> DEFINE new == NextId
<1>1. Listed /\ NoneDue
  BY DEF IInv
<1>2. /\ simBook' \in Seq([intent : Intents, fills : 0..2])
      /\ Orders \subseteq Orders' /\ new \in Orders' /\ new \notin Orders /\ new \in Nat
      /\ \A o \in Orders : IntentOf(o)' = IntentOf(o)
      /\ simBook'[new].intent = i
      /\ Fills' = Append(Fills, n) /\ Len(Fills) + 1 = new
  <2>1. n \in 0..2
    OBVIOUS
  <2> QED
    BY <1>1, <2>1, BookAppended
<1> HIDE DEF new
<1>3. /\ held \in Seq(Nat) /\ pending \in Seq(Nat) /\ Distinct(held) /\ Distinct(pending)
      /\ \A o \in Elements(held) : o \in Orders /\ OrderType[IntentOf(o)] = "MKT"
      /\ \A o \in Elements(pending) : o \in Orders /\ OrderType[IntentOf(o)] = "LMT"
  BY <1>1 DEF Listed
<1>4. new \notin Elements(held) /\ new \notin Elements(pending)
  BY <1>2, <1>3
<1>5. \/ UNCHANGED <<held, pending>>
      \/ /\ n = 0 /\ OrderType[i] = "MKT" /\ MarketPrice(i) = None
         /\ held' \in Seq(Nat) /\ Distinct(held') /\ UNCHANGED pending
         /\ Elements(held') = Elements(held) \cup {new}
      \/ /\ n = 0 /\ OrderType[i] = "LMT"
         /\ MarketPrice(i) = None \/ ~Crossed(i, MarketPrice(i))
         /\ pending' \in Seq(Nat) /\ Distinct(pending') /\ UNCHANGED held
         /\ Elements(pending') = Elements(pending) \cup {new}
  <2>1. /\ Append(held, new) \in Seq(Nat) /\ Distinct(Append(held, new))
        /\ Elements(Append(held, new)) = Elements(held) \cup {new}
        /\ Append(pending, new) \in Seq(Nat) /\ Distinct(Append(pending, new))
        /\ Elements(Append(pending, new)) = Elements(pending) \cup {new}
    BY <1>2, <1>3, <1>4, AppendElement
  <2>2. CASE UNCHANGED <<held, pending>>
    BY <2>2
  <2>3. CASE /\ n = 0 /\ OrderType[i] = "MKT" /\ MarketPrice(i) = None
             /\ held' = Append(held, new) /\ UNCHANGED pending
    BY <2>1, <2>3
  <2>4. CASE /\ n = 0 /\ OrderType[i] = "LMT"
             /\ MarketPrice(i) = None \/ ~Crossed(i, MarketPrice(i))
             /\ pending' = Append(pending, new) /\ UNCHANGED held
    BY <2>1, <2>4
  <2> QED
    BY <2>2, <2>3, <2>4 DEF new
<1>6. Listed'
  <2>1. held' \in Seq(Nat) /\ pending' \in Seq(Nat) /\ Distinct(held') /\ Distinct(pending')
    BY <1>3, <1>5
  <2>2. ASSUME NEW o \in Elements(held') PROVE o \in Orders' /\ OrderType[IntentOf(o)'] = "MKT"
    <3>1. CASE o \in Elements(held)
      BY <1>2, <1>3, <3>1
    <3>2. CASE o = new /\ OrderType[i] = "MKT"
      BY <1>2, <3>2 DEF IntentOf
    <3> QED
      BY <1>5, <2>2, <3>1, <3>2
  <2>3. ASSUME NEW o \in Elements(pending') PROVE o \in Orders' /\ OrderType[IntentOf(o)'] = "LMT"
    <3>1. CASE o \in Elements(pending)
      BY <1>2, <1>3, <3>1
    <3>2. CASE o = new /\ OrderType[i] = "LMT"
      BY <1>2, <3>2 DEF IntentOf
    <3> QED
      BY <1>5, <2>3, <3>1, <3>2
  <2> QED
    BY <1>2, <2>1, <2>2, <2>3 DEF Listed, Distinct
<1>7. NoneDue'
  <2>1. prices' \in [Symbols -> Prices \cup {None}]
    BY <1>1 DEF NoneDue
  <2>2. ASSUME NEW o \in Elements(held')
        PROVE  MarketPrice(IntentOf(o)') = None \/ o \in cutOff
    <3>1. CASE o \in Elements(held)
      BY <1>1, <1>2, <1>3, <3>1 DEF NoneDue
    <3>2. CASE o = new /\ MarketPrice(i) = None
      BY <1>2, <3>2 DEF IntentOf
    <3> QED
      BY <1>5, <2>2, <3>1, <3>2
  <2>3. ASSUME NEW o \in Elements(pending')
        PROVE  \/ MarketPrice(IntentOf(o)') = None
               \/ ~Crossed(IntentOf(o)', MarketPrice(IntentOf(o)'))
               \/ o \in cutOff
    <3>1. CASE o \in Elements(pending)
      BY <1>1, <1>2, <1>3, <3>1 DEF NoneDue
    <3>2. CASE o = new /\ (MarketPrice(i) = None \/ ~Crossed(i, MarketPrice(i)))
      BY <1>2, <3>2 DEF IntentOf
    <3> QED
      BY <1>5, <2>3, <3>1, <3>2
  <2> QED
    BY <2>1, <2>2, <2>3 DEF NoneDue, MarketPrice
<1>8. Course!Arrive
  <2>1. \/ n = 1 /\ Waiting' = Waiting
        \/ n = 0 /\ Waiting' \in {Waiting, Waiting \cup {Len(Fills) + 1}}
    BY <1>2, <1>5 DEF Waiting
  <2> QED
    BY <1>2, <2>1 DEF Course!Arrive, Fills
<1> QED
  BY <1>6, <1>7, <1>8 DEF IInv

(* A price: what it makes due leaves its list, unless the round of fills   *)
(* is cut off, which is noted.                                             *)
LEMMA PriceKeeps ==
  ASSUME IInv, NEW s \in Symbols, NEW p \in Prices, NEW done,
         simBook' = BookAfter(done), prices' = [prices EXCEPT ![s] = p],
         cutOff \subseteq cutOff',
         \/ held' = Outside(held, HeldDue(s))
         \/ held' = held /\ Elements(HeldDue(s)) \subseteq cutOff',
         \/ pending' = Outside(pending, PendingDue(s, p))
         \/ pending' = pending /\ Elements(PendingDue(s, p)) \subseteq cutOff'
  PROVE  /\ IInv'
         /\ held' = Outside(held, HeldDue(s)) =>
              Elements(held') = Elements(held) \ Elements(HeldDue(s))
         /\ pending' = Outside(pending, PendingDue(s, p)) =>
              Elements(pending') = Elements(pending) \ Elements(PendingDue(s, p))
<1> DEFINE h == HeldDue(s)
           d == PendingDue(s, p)
<1>1. Listed /\ NoneDue
  BY DEF IInv
<1>2. /\ simBook' \in Seq([intent : Intents, fills : 0..2])
      /\ Orders' = Orders /\ \A o \in Orders : IntentOf(o)' = IntentOf(o)
  BY <1>1, BookFilled
<1>3. /\ Elements(h) = {o \in Elements(held) : Symbol[IntentOf(o)] = s}
      /\ Elements(d) = Reached(s, p)
  BY <1>1, DueOrders
<1>4. /\ held \in Seq(Nat) /\ pending \in Seq(Nat) /\ Distinct(held) /\ Distinct(pending)
      /\ \A o \in Elements(held) : o \in Orders /\ OrderType[IntentOf(o)] = "MKT"
      /\ \A o \in Elements(pending) : o \in Orders /\ OrderType[IntentOf(o)] = "LMT"
  BY <1>1 DEF Listed
<1> HIDE DEF h, d
<1>5. /\ Outside(held, h) \in Seq(Nat) /\ Distinct(Outside(held, h))
      /\ Elements(Outside(held, h)) = Elements(held) \ Elements(h)
  <2>1. Elements(held) \cap (Elements(held) \ Elements(h)) = Elements(held) \ Elements(h)
    OBVIOUS
  <2> QED
    BY <1>4, <2>1, AmongIs DEF Outside
<1>6. /\ Outside(pending, d) \in Seq(Nat) /\ Distinct(Outside(pending, d))
      /\ Elements(Outside(pending, d)) = Elements(pending) \ Elements(d)
  <2>1. Elements(pending) \cap (Elements(pending) \ Elements(d)) = Elements(pending) \ Elements(d)
    OBVIOUS
  <2> QED
    BY <1>4, <2>1, AmongIs DEF Outside
<1>7. /\ held' \in Seq(Nat) /\ Distinct(held') /\ Elements(held') \subseteq Elements(held)
      /\ \A o \in Elements(held') : o \notin Elements(h) \/ o \in cutOff'
  BY <1>4, <1>5 DEF h
<1>8. /\ pending' \in Seq(Nat) /\ Distinct(pending') /\ Elements(pending') \subseteq Elements(pending)
      /\ \A o \in Elements(pending') : o \notin Elements(d) \/ o \in cutOff'
  BY <1>4, <1>6 DEF d
<1>9. Listed'
  <2>1. \A o \in Elements(held') : o \in Orders' /\ OrderType[IntentOf(o)'] = "MKT"
    BY <1>2, <1>4, <1>7
  <2>2. \A o \in Elements(pending') : o \in Orders' /\ OrderType[IntentOf(o)'] = "LMT"
    BY <1>2, <1>4, <1>8
  <2> QED
    BY <1>2, <1>7, <1>8, <2>1, <2>2 DEF Listed, Distinct
<1>10. /\ prices' \in [Symbols -> Prices \cup {None}]
       /\ prices'[s] = p /\ \A r \in Symbols : r # s => prices'[r] = prices[r]
  BY <1>1 DEF NoneDue
<1>11. \A o \in Orders : IntentOf(o) \in Intents /\ Symbol[IntentOf(o)] \in Symbols
  BY <1>1, BookTyped DEF Symbols
<1>12. ASSUME NEW o \in Elements(held')
       PROVE  prices'[Symbol[IntentOf(o)']] = None \/ o \in cutOff'
  <2>1. o \in Elements(held) /\ o \in Orders /\ IntentOf(o)' = IntentOf(o)
    BY <1>2, <1>4, <1>7
  <2>2. CASE o \in cutOff'
    BY <2>2
  <2>3. CASE o \notin cutOff'
    <3>1. Symbol[IntentOf(o)] # s
      BY <1>3, <1>7, <2>1, <2>3
    <3>2. MarketPrice(IntentOf(o)) = None
      BY <1>1, <2>1, <2>3 DEF NoneDue
    <3> QED
      BY <1>10, <1>11, <2>1, <3>1, <3>2 DEF MarketPrice
  <2> QED
    BY <2>2, <2>3
<1>13. ASSUME NEW o \in Elements(pending')
       PROVE  \/ prices'[Symbol[IntentOf(o)']] = None
              \/ ~Crossed(IntentOf(o)', prices'[Symbol[IntentOf(o)']])
              \/ o \in cutOff'
  <2>1. o \in Elements(pending) /\ o \in Orders /\ IntentOf(o)' = IntentOf(o)
    BY <1>2, <1>4, <1>8
  <2>2. CASE o \in cutOff'
    BY <2>2
  <2>3. CASE o \notin cutOff' /\ Symbol[IntentOf(o)] = s
    <3>1. ~Crossed(IntentOf(o), p)
      BY <1>3, <1>8, <2>1, <2>3 DEF Reached
    <3> QED
      BY <1>10, <2>1, <2>3, <3>1
  <2>4. CASE o \notin cutOff' /\ Symbol[IntentOf(o)] # s
    <3>1. \/ MarketPrice(IntentOf(o)) = None
          \/ ~Crossed(IntentOf(o), MarketPrice(IntentOf(o)))
      BY <1>1, <2>1, <2>4 DEF NoneDue
    <3>2. prices'[Symbol[IntentOf(o)]] = MarketPrice(IntentOf(o))
      BY <1>10, <1>11, <2>1, <2>4 DEF MarketPrice
    <3> QED
      BY <2>1, <3>1, <3>2
  <2> QED
    BY <2>2, <2>3, <2>4
<1>14. NoneDue'
  BY <1>10, <1>12, <1>13 DEF NoneDue, MarketPrice
<1> QED
  BY <1>5, <1>6, <1>9, <1>14 DEF IInv, h, d

(* A round that is gone through to its end.                                *)
LEMMA PriceUpdateKeeps ==
  ASSUME IInv, NEW s \in Symbols, NEW p \in Prices, PriceUpdate(s, p)
  PROVE  IInv' /\ Course!Next
<1> DEFINE h == HeldDue(s)
           d == PendingDue(s, p)
           due == h \o d
<1>1. /\ due \in Seq(Nat) /\ Distinct(due) /\ Elements(due) = Elements(h) \cup Elements(d)
      /\ Elements(h) \subseteq Elements(held) /\ Elements(d) \subseteq Elements(pending)
      /\ Elements(h) = {o \in Elements(held) : OrderType[IntentOf(o)] = "MKT" /\ o \in Elements(h)}
  BY DueOrders DEF IInv, Reached, Listed
<1>2. /\ prices' = [prices EXCEPT ![s] = p]
      /\ simBook' = BookAfter(FilledAmong(due, 2 * Len(due)))
      /\ held' = Outside(held, h) /\ pending' = Outside(pending, d)
      /\ cutOff' = cutOff
  BY DEF PriceUpdate
<1> HIDE DEF h, d, due
<1>3. FilledAmong(due, 2 * Len(due)) = Elements(due)
  <2>1. 2 * Len(due) \in 0..2 * Len(due)
    BY <1>1, LenProperties
  <2> QED
    BY <1>1, <2>1, FilledOrders
<1>4. /\ IInv' /\ Elements(held') = Elements(held) \ Elements(h)
      /\ Elements(pending') = Elements(pending) \ Elements(d)
  <2> DEFINE done == FilledAmong(due, 2 * Len(due))
  <2>1. /\ simBook' = BookAfter(done) /\ prices' = [prices EXCEPT ![s] = p]
        /\ cutOff \subseteq cutOff'
        /\ held' = Outside(held, HeldDue(s)) /\ pending' = Outside(pending, PendingDue(s, p))
    BY <1>2 DEF h, d
  <2> HIDE DEF done
  <2> QED
    BY <2>1, PriceKeeps DEF h, d
<1>5. PICK all : all = Elements(due)
  OBVIOUS
<1>6. Course!Filled(all)
  <2>1. simBook' = BookAfter(all) /\ Listed
    BY <1>2, <1>3, <1>5 DEF IInv
  <2> QED
    BY <2>1, BookFilled
<1>7. Elements(held) \cap Elements(pending) = {}
  BY "MKT" # "LMT" DEF IInv, Listed
<1>8. all \in SUBSET Waiting /\ Waiting' = Waiting \ all
  BY <1>1, <1>4, <1>5, <1>7 DEF Waiting
<1>9. Course!Round(all)
  BY <1>2, <1>6, <1>8 DEF Course!Round
<1> QED
  BY <1>4, <1>8, <1>9 DEF Course!Next

(* A round that a full queue cuts off.                                     *)
LEMMA PriceUpdateTimedOutKeeps ==
  ASSUME IInv, NEW s \in Symbols, NEW p \in Prices, PriceUpdateTimedOut(s, p)
  PROVE  IInv' /\ Course!Next
<1> DEFINE h == HeldDue(s)
           d == PendingDue(s, p)
           due == h \o d
<1>1. /\ due \in Seq(Nat) /\ Distinct(due) /\ Elements(due) = Elements(h) \cup Elements(d)
      /\ Elements(h) \subseteq Elements(held) /\ Elements(d) \subseteq Elements(pending)
      /\ h \in Seq(Nat) /\ \A n \in 1..Len(h) : due[n] = h[n]
  BY DueOrders DEF IInv, Reached
<1>2. PICK k \in 0..(2 * Len(due) - 1) :
        /\ simBook' = BookAfter(FilledAmong(due, k))
        /\ held' = IF k >= 2 * Len(h) THEN Outside(held, h) ELSE held
  BY DEF PriceUpdateTimedOut
<1>3. /\ prices' = [prices EXCEPT ![s] = p]
      /\ cutOff' = cutOff \cup Elements(due)
      /\ pending' = pending
  BY DEF PriceUpdateTimedOut
<1> DEFINE orders == FilledAmong(due, k)
<1> HIDE DEF h, d, due
<1>4. /\ orders \subseteq Elements(due) /\ orders # Elements(due)
      /\ k >= 2 * Len(h) => Elements(h) \subseteq orders
  <2>1. Len(due) \in Nat /\ Len(h) \in Nat /\ DOMAIN h = 1..Len(h)
    BY <1>1, LenProperties
  <2>2. k \in 0..2 * Len(due) /\ k # 2 * Len(due)
    <3> DEFINE l == Len(due)
    <3>1. l \in Nat /\ k \in 0..(2 * l - 1)
      BY <2>1
    <3> HIDE DEF l
    <3>2. k \in 0..2 * l /\ k # 2 * l
      BY <3>1
    <3> QED
      BY <3>2 DEF l
  <2>3. /\ orders \subseteq Elements(due) /\ orders # Elements(due)
        /\ 2 * Len(h) <= k => {due[m] : m \in 1..Len(h)} \subseteq orders
    BY <1>1, <2>1, <2>2, FilledOrders
  <2>4. {due[m] : m \in 1..Len(h)} = Elements(h)
    BY <1>1, <2>1 DEF Elements
  <2>5. k >= 2 * Len(h) => 2 * Len(h) <= k
    BY <2>1, <2>2
  <2> QED
    BY <2>3, <2>4, <2>5
<1> HIDE DEF orders
<1>5. /\ IInv'
      /\ held' = Outside(held, h) => Elements(held') = Elements(held) \ Elements(h)
  <2>1. /\ cutOff \subseteq cutOff'
        /\ Elements(h) \subseteq cutOff' /\ Elements(d) \subseteq cutOff'
        /\ held' = Outside(held, h) \/ held' = held
    BY <1>1, <1>2, <1>3
  <2>2. /\ simBook' = BookAfter(orders) /\ prices' = [prices EXCEPT ![s] = p]
        /\ cutOff \subseteq cutOff'
        /\ \/ held' = Outside(held, HeldDue(s))
           \/ held' = held /\ Elements(HeldDue(s)) \subseteq cutOff'
        /\ pending' = pending /\ Elements(PendingDue(s, p)) \subseteq cutOff'
    BY <1>2, <1>3, <2>1 DEF h, d, orders
  <2> QED
    BY <2>2, PriceKeeps DEF h
<1>6. PICK all, some : all = Elements(due) /\ some = orders
  OBVIOUS
<1>7. Course!Filled(some)
  <2>1. simBook' = BookAfter(some) /\ Listed
    BY <1>2, <1>6 DEF IInv, orders
  <2> QED
    BY <2>1, BookFilled
<1>8. Elements(held) \cap Elements(pending) = {}
  BY "MKT" # "LMT" DEF IInv, Listed
<1>9. Elements(due) \subseteq Waiting
  BY <1>1 DEF Waiting
<1>10. \E again \in SUBSET orders : Waiting' = (Waiting \ orders) \cup again
  <2>1. CASE k >= 2 * Len(h)
    <3> DEFINE again == orders \ Elements(h)
    <3>1. Elements(held') = Elements(held) \ Elements(h) /\ Elements(h) \subseteq orders
      BY <1>2, <1>4, <1>5, <2>1
    <3>2. Waiting' = (Waiting \ orders) \cup again
      BY <1>1, <1>3, <1>4, <1>8, <1>9, <3>1 DEF Waiting
    <3> QED
      BY <3>2
  <2>2. CASE ~(k >= 2 * Len(h))
    <3>1. Waiting' = Waiting
      BY <1>2, <1>3, <2>2 DEF Waiting
    <3>2. Waiting = (Waiting \ orders) \cup orders
      BY <1>4, <1>9
    <3> QED
      BY <3>1, <3>2
  <2> QED
    BY <2>1, <2>2
<1>11. Course!Interrupted(all, some)
  <2>1. /\ some # all /\ cutOff' = cutOff \cup all
        /\ \E again \in SUBSET some : Waiting' = (Waiting \ some) \cup again
    BY <1>3, <1>4, <1>6, <1>10
  <2> QED
    BY <1>7, <2>1 DEF Course!Interrupted
<1>12. all \in SUBSET Waiting /\ some \in SUBSET all
  BY <1>4, <1>6, <1>9
<1> QED
  BY <1>5, <1>11, <1>12 DEF Course!Next

-----------------------------------------------------------------------------
(* The whole.                                                              *)

LEMMA InitInv == Init => IInv /\ Course!Init
<1> SUFFICES ASSUME Init PROVE IInv /\ Course!Init
  OBVIOUS
<1>1. \A S : <<>> \in Seq(S) /\ Len(<<>>) = 0
  BY EmptySeq
<1>2. DOMAIN <<>> = {}
  OBVIOUS
<1>3. held = <<>> /\ pending = <<>> /\ simBook = <<>> /\ cutOff = {}
      /\ prices = [x \in Symbols |-> None]
  BY DEF Init, SimInit
<1>4. Elements(<<>>) = {}
  BY <1>2 DEF Elements
<1>5. IInv
  BY <1>1, <1>3, <1>4 DEF IInv, Listed, NoneDue, Distinct
<1>6. [o \in DOMAIN simBook |-> simBook[o].fills] = <<>>
  BY <1>2, <1>3
<1> QED
  BY <1>3, <1>4, <1>5, <1>6 DEF Course!Init, Waiting

LEMMA StepInv == IInv /\ [Next]_vars => IInv' /\ [Course!Next]_Course!vars
<1> SUFFICES ASSUME IInv, [Next]_vars PROVE IInv' /\ [Course!Next]_Course!vars
  OBVIOUS
<1>1. CASE UNCHANGED <<prices, held, pending, simBook, cutOff>>
  BY <1>1 DEF IInv, Listed, NoneDue, Distinct, Orders, IntentOf, MarketPrice, Elements,
              Course!vars, Waiting
<1>2. CASE UNCHANGED simVars \/ UNCHANGED vars
  BY <1>1, <1>2 DEF simVars, vars
<1>3. ASSUME NEW i \in Intents, SimHandler(i) PROVE IInv' /\ [Course!Next]_Course!vars
  <2>1. CASE RequestFilled(i)
    <3>1. simBook' = Append(simBook, Record(i, 1)) /\ UNCHANGED <<prices, cutOff, held, pending>>
      BY <2>1 DEF RequestFilled
    <3> QED
      BY <3>1, RequestArrives DEF Course!Next
  <2>2. CASE RequestFillTimedOut(i)
    <3>1. simBook' = Append(simBook, Record(i, 0)) /\ UNCHANGED <<prices, cutOff, held, pending>>
      BY <2>2 DEF RequestFillTimedOut
    <3> QED
      BY <3>1, RequestArrives DEF Course!Next
  <2>3. CASE RequestKept(i)
    <3>1. simBook' = Append(simBook, Record(i, 0)) /\ UNCHANGED <<prices, cutOff>>
      BY <2>3 DEF RequestKept
    <3>2. \/ UNCHANGED <<held, pending>>
          \/ /\ OrderType[i] = "MKT" /\ MarketPrice(i) = None
             /\ held' = Append(held, NextId) /\ UNCHANGED pending
          \/ /\ OrderType[i] = "LMT"
             /\ MarketPrice(i) = None \/ ~Crossed(i, MarketPrice(i))
             /\ pending' = Append(pending, NextId) /\ UNCHANGED held
      BY <2>3, "MKT" # "LMT" DEF RequestKept, FillsAtOnce
    <3> QED
      BY <3>1, <3>2, RequestArrives DEF Course!Next
  <2>4. CASE RequestIgnored(i)
    BY <1>2, <2>4 DEF RequestIgnored
  <2> QED
    BY <1>3, <2>1, <2>2, <2>3, <2>4 DEF SimHandler
<1>4. CASE SimPrice
  BY <1>4, PriceUpdateKeeps, PriceUpdateTimedOutKeeps DEF SimPrice
<1>5. CASE SimStart
  BY <1>1, <1>5 DEF SimStart
<1>6. CASE SimStop
  <2>1. /\ held' = <<>> /\ pending' = <<>> /\ prices' = [x \in Symbols |-> None]
        /\ UNCHANGED <<simBook, cutOff>>
    BY <1>6 DEF SimStop
  <2>2. /\ <<>> \in Seq(Nat) /\ Len(<<>>) = 0 /\ Elements(<<>>) = {}
    BY EmptySeq DEF Elements
  <2>3. IInv'
    BY <2>1, <2>2 DEF IInv, Listed, NoneDue, Distinct, Orders
  <2>4. Course!Forget
    BY <2>1, <2>2 DEF Course!Forget, Waiting
  <2> QED
    BY <2>3, <2>4 DEF Course!Next
<1>7. CASE Next
  BY <1>2, <1>3, <1>4, <1>5, <1>6, <1>7 DEF Next, HandlerStep, SimControl
<1> QED
  BY <1>2, <1>7

(* Between two events of a replay no order waits that the last price       *)
(* fills, but for those of an update that was cut off.                     *)
THEOREM NothingWaits == Spec => []NothingDueWaits
<1>1. IInv => NothingDueWaits
  BY DEF IInv, NoneDue, NothingDueWaits, Elements
<1> QED
  BY InitInv, StepInv, <1>1, PTL DEF Spec

(* SimulatedBroker does with its orders what OrderLife promises: every     *)
(* step of the replay is one of the orders' course or leaves them alone.   *)
THEOREM CourseRuns == Spec => OrdersRunTheirCourse
<1> QED
  BY InitInv, StepInv, PTL DEF Spec, OrdersRunTheirCourse, Course!Spec
===============================================================================
