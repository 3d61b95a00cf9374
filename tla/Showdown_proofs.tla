--------------------------- MODULE Showdown_proofs ---------------------------
(***************************************************************************)
(* Proofs about Showdown, for all hands of five of the 52 cards and any    *)
(* number of players: the ranks of eval5 order hands as the rules of the   *)
(* game do, bestHand misses no combination, and potWinners no winner.      *)
(* And about SidePots, for any commitments: computePots makes the pots of  *)
(* the levels.  The last theorems carry both to EndHand.                   *)
(***************************************************************************)
EXTENDS EndHand, Counting_proofs, FunctionTheorems, SequenceTheorems

\* Five cards in some order.
FiveCards == Injection(1..5, 0..51)

\* Five ranks in some order.
FiveRanks == [1..5 -> 0..12]

-----------------------------------------------------------------------------
(***************************************************************************)
(* The sort of five ranks.                                                 *)
(***************************************************************************)

\* An order names every position once.
LEMMA OrderType ==
  ASSUME NEW o
  PROVE  o \in Orders <=>
           /\ o \in [1..5 -> 1..5]
           /\ \A i, j \in 1..5 : o[i] = o[j] => i = j
           /\ \A j \in 1..5 : \E i \in 1..5 : o[i] = j
BY DEF Orders, Bijection, Injection, Surjection, IsInjective

\* Two neighbours can be exchanged.
LEMMA OrderExchange ==
  ASSUME NEW o \in Orders, NEW k \in 1..4
  PROVE  [i \in 1..5 |-> IF i = k THEN o[k + 1] ELSE IF i = k + 1 THEN o[k] ELSE o[i]] \in Orders
<1> DEFINE x == [i \in 1..5 |-> IF i = k THEN o[k + 1] ELSE IF i = k + 1 THEN o[k] ELSE o[i]]
<1>1. /\ o \in [1..5 -> 1..5] /\ k \in 1..5 /\ k + 1 \in 1..5
      /\ \A i, j \in 1..5 : o[i] = o[j] => i = j
      /\ \A j \in 1..5 : \E i \in 1..5 : o[i] = j
  BY OrderType
<1>2. x \in [1..5 -> 1..5]
  BY <1>1
<1>3. ASSUME NEW i \in 1..5, NEW j \in 1..5, x[i] = x[j] PROVE i = j
  BY <1>1, <1>3
<1>4. ASSUME NEW j \in 1..5 PROVE \E i \in 1..5 : x[i] = j
  <2>1. PICK i \in 1..5 : o[i] = j
    BY <1>1
  <2>2. x[IF i = k THEN k + 1 ELSE IF i = k + 1 THEN k ELSE i] = j
    BY <1>1, <2>1
  <2> QED
    BY <1>1, <2>2
<1> HIDE DEF x
<1>5. x \in Orders
  BY <1>2, <1>3, <1>4, OrderType
<1> QED
  BY <1>5 DEF x

\* Of all orders, the one that puts the least weight on the late positions is sorted.
LEMMA OrderSorts ==
  ASSUME NEW keys, \A k \in 1..5 : keys[k] \in Nat
  PROVE  /\ SortOrder(keys) \in Orders
         /\ \A k \in 1..4 : keys[SortOrder(keys)[k]] >= keys[SortOrder(keys)[k + 1]]
<1> DEFINE w(o) == keys[o[1]] + 2 * keys[o[2]] + 3 * keys[o[3]] + 4 * keys[o[4]] + 5 * keys[o[5]]
           f == [o \in Orders |-> w(o)]
<1>1. ASSUME NEW o \in Orders
      PROVE  \A i \in 1..5 : o[i] \in 1..5 /\ keys[o[i]] \in Nat
  BY OrderType
<1>2. \A o \in Orders : f[o] \in Nat
  BY <1>1
<1>3. Orders # {}
  <2>1. [i \in 1..5 |-> i] \in Orders
    BY OrderType
  <2> QED
    BY <2>1
<1>4. PICK o \in Orders : \A x \in Orders : f[o] <= f[x]
  <2> HIDE DEF f
  <2> QED
    BY <1>2, <1>3, MinimumExists
<1>5. ASSUME NEW k \in 1..4 PROVE keys[o[k]] >= keys[o[k + 1]]
  <2> DEFINE x == [i \in 1..5 |-> IF i = k THEN o[k + 1] ELSE IF i = k + 1 THEN o[k] ELSE o[i]]
  <2>1. x \in Orders
    BY OrderExchange
  <2>2. w(o) <= w(x)
    BY <1>4, <2>1
  <2>3. /\ \A i \in 1..5 : o[i] \in 1..5 /\ keys[o[i]] \in Nat
        /\ x[k] = o[k + 1] /\ x[k + 1] = o[k]
        /\ \A i \in 1..5 : i # k /\ i # k + 1 => x[i] = o[i]
    BY <1>1
  <2> HIDE DEF x
  <2>4. CASE k = 1
    BY <2>2, <2>3, <2>4
  <2>5. CASE k = 2
    BY <2>2, <2>3, <2>5
  <2>6. CASE k = 3
    BY <2>2, <2>3, <2>6
  <2>7. CASE k = 4
    BY <2>2, <2>3, <2>7
  <2> QED
    BY <2>4, <2>5, <2>6, <2>7
<1> QED
  BY <1>4, <1>5 DEF SortOrder

-----------------------------------------------------------------------------
(***************************************************************************)
(* How often a rank occurs.                                                *)
(***************************************************************************)

\* How often x stands in t, as a sum.
Times(t, x) ==
  LET one(k) == IF t[k] = x THEN 1 ELSE 0
  IN one(1) + one(2) + one(3) + one(4) + one(5)

\* Freq counts: it is the sum.
LEMMA FreqSum ==
  ASSUME NEW t, NEW x
  PROVE  Freq(t, x) = Times(t, x) /\ IsFiniteSet({k \in 1..5 : t[k] = x})
<1> DEFINE S(n) == {k \in 1..n : t[k] = x}
           one(k) == IF t[k] = x THEN 1 ELSE 0
<1>1. ASSUME NEW n \in 1..5, IsFiniteSet(S(n - 1)), Cardinality(S(n - 1)) \in Nat
      PROVE  IsFiniteSet(S(n)) /\ Cardinality(S(n)) = Cardinality(S(n - 1)) + one(n)
  <2>1. CASE t[n] = x
    <3>1. S(n) = S(n - 1) \cup {n} /\ n \notin S(n - 1)
      BY <2>1
    <3> HIDE DEF S
    <3> QED
      BY <1>1, <2>1, <3>1, FS_AddElement
  <2>2. CASE t[n] # x
    <3>1. S(n) = S(n - 1)
      BY <2>2
    <3> HIDE DEF S
    <3> QED
      BY <1>1, <2>2, <3>1
  <2> QED
    BY <2>1, <2>2
<1>2. S(0) = {}
  OBVIOUS
<1>3. IsFiniteSet(S(0)) /\ Cardinality(S(0)) = 0
  <2> HIDE DEF S
  <2> QED
    BY <1>2, FS_EmptySet
<1> HIDE DEF S
<1>4. \A k \in 1..5 : one(k) \in Nat
  OBVIOUS
<1> HIDE DEF one
<1>5. IsFiniteSet(S(1)) /\ Cardinality(S(1)) = one(1)
  BY <1>1, <1>3, <1>4
<1>6. IsFiniteSet(S(2)) /\ Cardinality(S(2)) = one(1) + one(2)
  BY <1>1, <1>4, <1>5
<1>7. IsFiniteSet(S(3)) /\ Cardinality(S(3)) = one(1) + one(2) + one(3)
  BY <1>1, <1>4, <1>6
<1>8. IsFiniteSet(S(4)) /\ Cardinality(S(4)) = one(1) + one(2) + one(3) + one(4)
  BY <1>1, <1>4, <1>7
<1>9. IsFiniteSet(S(5)) /\ Cardinality(S(5)) = one(1) + one(2) + one(3) + one(4) + one(5)
  BY <1>1, <1>4, <1>8
<1> QED
  BY <1>9 DEF S, one, Freq, Times

\* A one-to-one correspondence keeps the number of elements.
LEMMA SameSize ==
  ASSUME NEW S, NEW T, IsFiniteSet(S), NEW F \in [S -> T],
         \A x, y \in S : F[x] = F[y] => x = y,
         \A z \in T : \E x \in S : F[x] = z
  PROVE  Cardinality(T) = Cardinality(S)
<1>1. F \in Bijection(S, T)
  BY Fun_IsBij
<1>2. ExistsBijection(S, T)
  BY <1>1 DEF ExistsBijection
<1> QED
  BY <1>2, FS_Bijection

\* Sorting moves the ranks and changes none.
LEMMA ArrangedFreq ==
  ASSUME NEW t \in FiveRanks, NEW o \in Orders, NEW x
  PROVE  /\ Arranged(t, o) \in FiveRanks
         /\ \A k \in 1..5 : Arranged(t, o)[k] = t[o[k]]
         /\ Freq(Arranged(t, o), x) = Freq(t, x)
<1> DEFINE u == Arranged(t, o)
<1>1. /\ o \in [1..5 -> 1..5]
      /\ \A i, j \in 1..5 : o[i] = o[j] => i = j
      /\ \A j \in 1..5 : \E i \in 1..5 : o[i] = j
  BY OrderType
<1>2. \A k \in 1..5 : u[k] = t[o[k]]
  BY DEF Arranged
<1>3. u \in FiveRanks
  BY <1>1 DEF Arranged, FiveRanks
<1> HIDE DEF u
<1> DEFINE S == {k \in 1..5 : u[k] = x}
           T == {k \in 1..5 : t[k] = x}
           F == [k \in S |-> o[k]]
<1>4. F \in [S -> T] /\ \A i, j \in S : F[i] = F[j] => i = j
  BY <1>1, <1>2
<1>5. \A z \in T : \E i \in S : F[i] = z
  BY <1>1, <1>2
<1>6. IsFiniteSet(S)
  BY FreqSum
<1>7. Cardinality(T) = Cardinality(S)
  <2> HIDE DEF S, T, F
  <2> QED
    BY <1>4, <1>5, <1>6, SameSize
<1> QED
  BY <1>2, <1>3, <1>7 DEF u, Freq

\* The sorted ranks fall, and are the ranks of the hand.
LEMMA DescendingSorts ==
  ASSUME NEW t \in FiveRanks
  PROVE  /\ Descending(t) \in FiveRanks
         /\ \A k \in 1..4 : Descending(t)[k] >= Descending(t)[k + 1]
         /\ \A x : Times(Descending(t), x) = Times(t, x)
<1>1. \A k \in 1..5 : t[k] \in Nat
  BY DEF FiveRanks
<1>2. /\ SortOrder(t) \in Orders
      /\ \A k \in 1..4 : t[SortOrder(t)[k]] >= t[SortOrder(t)[k + 1]]
  BY <1>1, OrderSorts
<1>3. /\ Descending(t) \in FiveRanks
      /\ \A k \in 1..5 : Descending(t)[k] = t[SortOrder(t)[k]]
      /\ \A x : Freq(Descending(t), x) = Freq(t, x)
  BY <1>2, ArrangedFreq DEF Descending
<1>4. ASSUME NEW k \in 1..4 PROVE Descending(t)[k] >= Descending(t)[k + 1]
  <2>1. k \in 1..5 /\ k + 1 \in 1..5
    OBVIOUS
  <2> QED
    BY <1>2, <1>3, <2>1
<1> QED
  BY <1>3, <1>4, FreqSum

\* The tiebreakers are the ranks of the hand too: those that occur more often come
\* first, and the higher one first of those that occur equally often.
LEMMA TiebreakersSort ==
  ASSUME NEW t \in FiveRanks
  PROVE  /\ Tiebreakers(t) \in FiveRanks
         /\ \A k \in 1..4 : 16 * Times(t, Tiebreakers(t)[k]) + Tiebreakers(t)[k]
                              >= 16 * Times(t, Tiebreakers(t)[k + 1]) + Tiebreakers(t)[k + 1]
         /\ \A x : Times(Tiebreakers(t), x) = Times(t, x)
<1> DEFINE key(k) == 16 * Freq(t, t[k]) + t[k]
           keys == <<key(1), key(2), key(3), key(4), key(5)>>
           o == SortOrder(keys)
           tb == Arranged(t, o)
<1>1. \A k \in 1..5 : t[k] \in 0..12
  BY DEF FiveRanks
<1>2. ASSUME NEW x PROVE Freq(t, x) = Times(t, x) /\ Freq(t, x) \in Nat
  <2>1. Times(t, x) \in Nat
    BY DEF Times
  <2> QED
    BY <2>1, FreqSum
<1>3. \A k \in 1..5 : key(k) \in Nat
  BY <1>1, <1>2
<1>4. \A k \in 1..5 : keys[k] = key(k)
  OBVIOUS
<1>5. Tiebreakers(t) = tb
  BY DEF Tiebreakers
<1>6. \A k \in 1..5 : keys[k] \in Nat
  BY <1>3, <1>4
<1> HIDE DEF keys
<1>7. o \in Orders /\ \A k \in 1..4 : keys[o[k]] >= keys[o[k + 1]]
  BY <1>6, OrderSorts
<1> HIDE DEF o
<1>8. \A k \in 1..5 : o[k] \in 1..5
  BY <1>7, OrderType
<1>9. /\ tb \in FiveRanks
      /\ \A k \in 1..5 : tb[k] = t[o[k]]
      /\ \A x : Freq(tb, x) = Freq(t, x)
  BY <1>7, ArrangedFreq
<1> HIDE DEF tb
<1>10. ASSUME NEW k \in 1..4
       PROVE  16 * Times(t, tb[k]) + tb[k] >= 16 * Times(t, tb[k + 1]) + tb[k + 1]
  <2>1. k \in 1..5 /\ k + 1 \in 1..5
    OBVIOUS
  <2>2. keys[o[k]] = 16 * Times(t, tb[k]) + tb[k]
    BY <1>2, <1>4, <1>8, <1>9, <2>1
  <2>3. keys[o[k + 1]] = 16 * Times(t, tb[k + 1]) + tb[k + 1]
    BY <1>2, <1>4, <1>8, <1>9, <2>1
  <2> QED
    BY <1>7, <2>2, <2>3
<1> QED
  BY <1>5, <1>9, <1>10, FreqSum

-----------------------------------------------------------------------------
(***************************************************************************)
(* Five cards, in the order the code has them and as a set.                *)
(***************************************************************************)

\* The ranks of the cards.
RanksOf(a) == [k \in 1..5 |-> cardRank(a[k])]

\* Five different cards and their ranks.
LEMMA CardFacts ==
  ASSUME NEW a \in FiveCards
  PROVE  /\ a \in [1..5 -> 0..51]
         /\ \A i, j \in 1..5 : a[i] = a[j] => i = j
         /\ \A c : c \in Range(a) <=> \E k \in 1..5 : a[k] = c
         /\ RanksOf(a) \in FiveRanks
         /\ \A k \in 1..5 : RanksOf(a)[k] = cardRank(a[k])
<1>1. a \in [1..5 -> 0..51] /\ \A i, j \in 1..5 : a[i] = a[j] => i = j
  BY Fun_InjectionProperties DEF FiveCards
<1>2. \A c : c \in Range(a) <=> \E k \in 1..5 : a[k] = c
  BY <1>1 DEF Range
<1>3. \A k \in 1..5 : cardRank(a[k]) \in 0..12
  BY <1>1 DEF cardRank
<1> QED
  BY <1>1, <1>2, <1>3 DEF RanksOf, FiveRanks

\* As many cards of a set have a rank as the rank occurs in the list.
LEMMA CardCounts ==
  ASSUME NEW a \in FiveCards, NEW r
  PROVE  Cardinality({c \in Range(a) : cardRank(c) = r}) = Times(RanksOf(a), r)
<1> DEFINE S == {k \in 1..5 : RanksOf(a)[k] = r}
           T == {c \in Range(a) : cardRank(c) = r}
           F == [k \in S |-> a[k]]
<1>1. IsFiniteSet(S) /\ Cardinality(S) = Times(RanksOf(a), r)
  BY FreqSum DEF Freq
<1>2. F \in [S -> T] /\ \A i, j \in S : F[i] = F[j] => i = j
  BY CardFacts
<1>3. \A z \in T : \E k \in S : F[k] = z
  BY CardFacts
<1>4. Cardinality(T) = Cardinality(S)
  <2> HIDE DEF S, T, F
  <2> QED
    BY <1>1, <1>2, <1>3, SameSize
<1> QED
  BY <1>1, <1>4

\* The ranks of exactly n cards are those that occur n times.
LEMMA RankedIs ==
  ASSUME NEW a \in FiveCards, NEW n \in 1..4
  PROVE  \A r : r \in Ranked(Range(a), n) <=> Times(RanksOf(a), r) = n
<1> SUFFICES ASSUME NEW r
             PROVE  r \in Ranked(Range(a), n) <=> Times(RanksOf(a), r) = n
  OBVIOUS
<1>1. r \in Ranked(Range(a), n)
        <=> (\E c \in Range(a) : cardRank(c) = r) /\ Times(RanksOf(a), r) = n
  BY CardCounts DEF Ranked
<1>2. ASSUME Times(RanksOf(a), r) = n PROVE \E c \in Range(a) : cardRank(c) = r
  <2>1. \E k \in 1..5 : RanksOf(a)[k] = r
    BY <1>2 DEF Times
  <2> QED
    BY <2>1, CardFacts
<1> QED
  BY <1>1, <1>2

\* A deck has four cards of a rank.
LEMMA FourAtMost ==
  ASSUME NEW a \in FiveCards, NEW r
  PROVE  Times(RanksOf(a), r) \in 0..4
<1>1. Times(RanksOf(a), r) \in 0..5
  BY DEF Times
<1>2. ASSUME Times(RanksOf(a), r) = 5 PROVE FALSE
  <2>1. \A k \in 1..5 : RanksOf(a)[k] = r
    BY <1>2 DEF Times
  <2>2. \A k \in 1..5 : a[k] \in 0..51 /\ a[k] % 13 = r
    BY <2>1, CardFacts DEF cardRank
  <2>3. \A k \in 1..5 : a[k] \in {r, r + 13, r + 26, r + 39}
    BY <2>2
  <2>4. \A i, j \in 1..5 : a[i] = a[j] => i = j
    BY CardFacts
  <2>5. /\ a[1] # a[2] /\ a[1] # a[3] /\ a[1] # a[4] /\ a[1] # a[5] /\ a[2] # a[3]
        /\ a[2] # a[4] /\ a[2] # a[5] /\ a[3] # a[4] /\ a[3] # a[5] /\ a[4] # a[5]
    BY <2>4
  <2> QED
    BY <2>3, <2>5
<1> QED
  BY <1>1, <1>2

\* isFlush: the suits of neighbours are compared.
LEMMA SuitedIsFlush ==
  ASSUME NEW a \in FiveCards
  PROVE  Suited(Range(a)) <=> \A k \in 1..4 : cardSuit(a[k]) = cardSuit(a[k + 1])
<1>1. Suited(Range(a)) <=> \A i, j \in 1..5 : cardSuit(a[i]) = cardSuit(a[j])
  BY CardFacts DEF Suited
<1>2. ASSUME \A k \in 1..4 : cardSuit(a[k]) = cardSuit(a[k + 1])
      PROVE  \A j \in 1..5 : cardSuit(a[j]) = cardSuit(a[1])
  <2>1. /\ cardSuit(a[1]) = cardSuit(a[2]) /\ cardSuit(a[2]) = cardSuit(a[3])
        /\ cardSuit(a[3]) = cardSuit(a[4]) /\ cardSuit(a[4]) = cardSuit(a[5])
    BY <1>2
  <2> QED
    BY <2>1
<1> QED
  BY <1>1, <1>2

\* Cards of one suit have different ranks.
LEMMA SuitedDistinct ==
  ASSUME NEW a \in FiveCards, Suited(Range(a)), NEW r
  PROVE  Times(RanksOf(a), r) <= 1
<1>1. ASSUME NEW i \in 1..5, NEW j \in 1..5, RanksOf(a)[i] = RanksOf(a)[j]
      PROVE  i = j
  <2>1. a[i] \in 0..51 /\ a[j] \in 0..51 /\ a[i] % 13 = a[j] % 13 /\ a[i] \div 13 = a[j] \div 13
    BY <1>1, CardFacts DEF Suited, cardRank, cardSuit
  <2>2. a[i] = a[j]
    BY <2>1
  <2> QED
    BY <2>2, CardFacts
<1> QED
  BY <1>1 DEF Times

-----------------------------------------------------------------------------
(***************************************************************************)
(* The number of a hand compares like its category and its tiebreakers.    *)
(***************************************************************************)

\* The first place where d and e differ is greater in d.
LexAbove(d, e) ==
  \/ d[1] > e[1]
  \/ d[1] = e[1] /\ d[2] > e[2]
  \/ d[1] = e[1] /\ d[2] = e[2] /\ d[3] > e[3]
  \/ d[1] = e[1] /\ d[2] = e[2] /\ d[3] = e[3] /\ d[4] > e[4]
  \/ d[1] = e[1] /\ d[2] = e[2] /\ d[3] = e[3] /\ d[4] = e[4] /\ d[5] > e[5]

\* Five numbers are above five others, below them, or the same.
LEMMA LexTotal ==
  ASSUME NEW d \in [1..5 -> Int], NEW e \in [1..5 -> Int]
  PROVE  LexAbove(d, e) \/ LexAbove(e, d) \/ d = e
<1>1. /\ d[1] \in Int /\ d[2] \in Int /\ d[3] \in Int /\ d[4] \in Int /\ d[5] \in Int
      /\ e[1] \in Int /\ e[2] \in Int /\ e[3] \in Int /\ e[4] \in Int /\ e[5] \in Int
  OBVIOUS
<1>2. \/ LexAbove(d, e) \/ LexAbove(e, d)
      \/ d[1] = e[1] /\ d[2] = e[2] /\ d[3] = e[3] /\ d[4] = e[4] /\ d[5] = e[5]
  BY <1>1 DEF LexAbove
<1>3. ASSUME d[1] = e[1] /\ d[2] = e[2] /\ d[3] = e[3] /\ d[4] = e[4] /\ d[5] = e[5]
      PROVE  d = e
  <2>1. \A k \in 1..5 : d[k] = e[k]
    BY <1>3
  <2> QED
    BY <2>1
<1> QED
  BY <1>2, <1>3

\* A rank below sixteen times a number: the number decides first.
LEMMA DigitOrder ==
  ASSUME NEW m \in Nat, NEW n \in Nat, NEW x \in 0..12, NEW y \in 0..12
  PROVE  /\ m * 16 + x \in Nat
         /\ (m * 16 + x > n * 16 + y) <=> (m > n \/ (m = n /\ x > y))
         /\ (m * 16 + x = n * 16 + y) <=> (m = n /\ x = y)
<1>1. m * 16 + x \in Nat
  OBVIOUS
<1>2. CASE m > n
  <2>1. m * 16 >= n * 16 + 16
    BY <1>2
  <2> QED
    BY <1>2, <2>1
<1>3. CASE m < n
  <2>1. n * 16 >= m * 16 + 16
    BY <1>3
  <2> QED
    BY <1>3, <2>1
<1>4. CASE m = n
  BY <1>4
<1> QED
  BY <1>2, <1>3, <1>4

\* Four bits hold a rank, so no tiebreaker reaches into the one before it.
LEMMA NumberOrder ==
  ASSUME NEW c \in 0..8, NEW d \in FiveRanks, NEW b \in 0..8, NEW e \in FiveRanks
  PROVE  /\ newHandRank(c, d) \in Nat
         /\ (newHandRank(c, d) > newHandRank(b, e)) <=> (c > b \/ (c = b /\ LexAbove(d, e)))
<1>1. /\ d[1] \in 0..12 /\ d[2] \in 0..12 /\ d[3] \in 0..12 /\ d[4] \in 0..12 /\ d[5] \in 0..12
      /\ e[1] \in 0..12 /\ e[2] \in 0..12 /\ e[3] \in 0..12 /\ e[4] \in 0..12 /\ e[5] \in 0..12
  BY DEF FiveRanks
<1> DEFINE d1 == c * 16 + d[1]   e1 == b * 16 + e[1]
           d2 == d1 * 16 + d[2]  e2 == e1 * 16 + e[2]
           d3 == d2 * 16 + d[3]  e3 == e2 * 16 + e[3]
           d4 == d3 * 16 + d[4]  e4 == e3 * 16 + e[4]
           d5 == d4 * 16 + d[5]  e5 == e4 * 16 + e[5]
<1>3. d1 \in Nat /\ e1 \in Nat /\ (d1 > e1 <=> c > b \/ (c = b /\ d[1] > e[1]))
      /\ (d1 = e1 <=> c = b /\ d[1] = e[1])
  BY <1>1, DigitOrder
<1> HIDE DEF d1, e1
<1>4. d2 \in Nat /\ e2 \in Nat /\ (d2 > e2 <=> d1 > e1 \/ (d1 = e1 /\ d[2] > e[2]))
      /\ (d2 = e2 <=> d1 = e1 /\ d[2] = e[2])
  BY <1>1, DigitOrder, <1>3
<1> HIDE DEF d2, e2
<1>5. d3 \in Nat /\ e3 \in Nat /\ (d3 > e3 <=> d2 > e2 \/ (d2 = e2 /\ d[3] > e[3]))
      /\ (d3 = e3 <=> d2 = e2 /\ d[3] = e[3])
  BY <1>1, DigitOrder, <1>4
<1> HIDE DEF d3, e3
<1>6. d4 \in Nat /\ e4 \in Nat /\ (d4 > e4 <=> d3 > e3 \/ (d3 = e3 /\ d[4] > e[4]))
      /\ (d4 = e4 <=> d3 = e3 /\ d[4] = e[4])
  BY <1>1, DigitOrder, <1>5
<1> HIDE DEF d4, e4
<1>7. d5 \in Nat /\ e5 \in Nat /\ (d5 > e5 <=> d4 > e4 \/ (d4 = e4 /\ d[5] > e[5]))
  BY <1>1, DigitOrder, <1>6
<1>8. newHandRank(c, d) = d5 /\ newHandRank(b, e) = e5
  BY DEF d1, d2, d3, d4, e1, e2, e3, e4, newHandRank
<1> HIDE DEF d5, e5
<1>9. d5 > e5 <=> c > b \/ (c = b /\ LexAbove(d, e))
  BY <1>3, <1>4, <1>5, <1>6, <1>7 DEF LexAbove
<1> QED
  BY <1>7, <1>8, <1>9

-----------------------------------------------------------------------------
(***************************************************************************)
(* The rules of the game compare hands in the same way.                    *)
(***************************************************************************)

\* The ranks of four cards, of three, of two and of one, in a hand of category c whose
\* tiebreakers are d.
RankedShape(five, c, d) ==
  /\ c = 7 => /\ d[1] = d[2] /\ d[2] = d[3] /\ d[3] = d[4]
              /\ Ranked(five, 4) = {d[1]} /\ Ranked(five, 3) = {}
              /\ Ranked(five, 2) = {} /\ Ranked(five, 1) = {d[5]}
  /\ c = 6 => /\ d[1] = d[2] /\ d[2] = d[3] /\ d[4] = d[5]
              /\ Ranked(five, 4) = {} /\ Ranked(five, 3) = {d[1]}
              /\ Ranked(five, 2) = {d[4]} /\ Ranked(five, 1) = {}
  /\ c \in {0, 5} => /\ d[1] > d[2] /\ d[2] > d[3] /\ d[3] > d[4] /\ d[4] > d[5]
                     /\ Ranked(five, 4) = {} /\ Ranked(five, 3) = {}
                     /\ Ranked(five, 2) = {} /\ Ranked(five, 1) = {d[1], d[2], d[3], d[4], d[5]}
  /\ c = 3 => /\ d[1] = d[2] /\ d[2] = d[3] /\ d[4] > d[5]
              /\ Ranked(five, 4) = {} /\ Ranked(five, 3) = {d[1]}
              /\ Ranked(five, 2) = {} /\ Ranked(five, 1) = {d[4], d[5]}
  /\ c = 2 => /\ d[1] = d[2] /\ d[3] = d[4] /\ d[1] > d[3]
              /\ Ranked(five, 4) = {} /\ Ranked(five, 3) = {}
              /\ Ranked(five, 2) = {d[1], d[3]} /\ Ranked(five, 1) = {d[5]}
  /\ c = 1 => /\ d[1] = d[2] /\ d[3] > d[4] /\ d[4] > d[5]
              /\ Ranked(five, 4) = {} /\ Ranked(five, 3) = {}
              /\ Ranked(five, 2) = {d[1]} /\ Ranked(five, 1) = {d[3], d[4], d[5]}

\* What the rules say of a hand of category c whose tiebreakers are d.
Shape(five, c, d) ==
  /\ c \in 0..8 /\ d \in FiveRanks /\ Kind(five) = 9 - c
  /\ IF c \in {4, 8} THEN Tops(five) = {d[1]} /\ d[2] = 0 /\ d[3] = 0 /\ d[4] = 0 /\ d[5] = 0
                     ELSE Tops(five) = {}
  /\ RankedShape(five, c, d)

\* Sets of ranks do not outrank each other both ways, nor themselves.
LEMMA OutranksStrict ==
  ASSUME NEW S \in SUBSET Int, NEW T \in SUBSET Int, Outranks(S, T)
  PROVE  S # T /\ ~Outranks(T, S)
<1>1. PICK r \in S \ T : \A q \in T \ S : q < r
  BY DEF Outranks
<1>2. ASSUME NEW r2 \in T \ S, \A q \in S \ T : q < r2 PROVE FALSE
  <2>1. r2 < r /\ r < r2
    BY <1>1, <1>2
  <2> QED
    BY <2>1
<1> QED
  BY <1>1, <1>2 DEF Outranks

\* Ranks in falling order outrank those that they are above at the first difference.
LEMMA OutranksLex ==
  ASSUME NEW d \in FiveRanks, NEW e \in FiveRanks, LexAbove(d, e),
         d[1] > d[2] /\ d[2] > d[3] /\ d[3] > d[4] /\ d[4] > d[5],
         e[1] > e[2] /\ e[2] > e[3] /\ e[3] > e[4] /\ e[4] > e[5]
  PROVE  Outranks({d[1], d[2], d[3], d[4], d[5]}, {e[1], e[2], e[3], e[4], e[5]})
<1> DEFINE S == {d[1], d[2], d[3], d[4], d[5]}
           T == {e[1], e[2], e[3], e[4], e[5]}
<1>1. /\ d[1] \in 0..12 /\ d[2] \in 0..12 /\ d[3] \in 0..12 /\ d[4] \in 0..12 /\ d[5] \in 0..12
      /\ e[1] \in 0..12 /\ e[2] \in 0..12 /\ e[3] \in 0..12 /\ e[4] \in 0..12 /\ e[5] \in 0..12
  BY DEF FiveRanks
<1>2. ASSUME NEW r \in S, r \notin T, \A q \in T : q \in S \/ q < r PROVE Outranks(S, T)
  BY <1>2 DEF Outranks
<1>3. CASE d[1] > e[1]
  <2>1. d[1] \in S /\ d[1] \notin T /\ \A q \in T : q \in S \/ q < d[1]
    BY <1>1, <1>3
  <2> QED
    BY <1>2, <2>1
<1>4. CASE d[1] = e[1] /\ d[2] > e[2]
  <2>1. d[2] \in S /\ d[2] \notin T /\ \A q \in T : q \in S \/ q < d[2]
    BY <1>1, <1>4
  <2> QED
    BY <1>2, <2>1
<1>5. CASE d[1] = e[1] /\ d[2] = e[2] /\ d[3] > e[3]
  <2>1. d[3] \in S /\ d[3] \notin T /\ \A q \in T : q \in S \/ q < d[3]
    BY <1>1, <1>5
  <2> QED
    BY <1>2, <2>1
<1>6. CASE d[1] = e[1] /\ d[2] = e[2] /\ d[3] = e[3] /\ d[4] > e[4]
  <2>1. d[4] \in S /\ d[4] \notin T /\ \A q \in T : q \in S \/ q < d[4]
    BY <1>1, <1>6
  <2> QED
    BY <1>2, <2>1
<1>7. CASE d[1] = e[1] /\ d[2] = e[2] /\ d[3] = e[3] /\ d[4] = e[4] /\ d[5] > e[5]
  <2>1. d[5] \in S /\ d[5] \notin T /\ \A q \in T : q \in S \/ q < d[5]
    BY <1>1, <1>7
  <2> QED
    BY <1>2, <2>1
<1> QED
  BY <1>3, <1>4, <1>5, <1>6, <1>7 DEF LexAbove

\* The same for two ranks.
LEMMA OutranksTwo ==
  ASSUME NEW p \in Int, NEW q \in Int, NEW x \in Int, NEW y \in Int,
         p > q, x > y, p > x \/ (p = x /\ q > y)
  PROVE  Outranks({p, q}, {x, y})
<1>1. CASE p > x
  <2>1. p \in {p, q} \ {x, y} /\ \A w \in {x, y} \ {p, q} : w < p
    BY <1>1
  <2> QED
    BY <2>1 DEF Outranks
<1>2. CASE p = x /\ q > y
  <2>1. q \in {p, q} \ {x, y} /\ \A w \in {x, y} \ {p, q} : w < q
    BY <1>2
  <2> QED
    BY <2>1 DEF Outranks
<1> QED
  BY <1>1, <1>2

\* The same for three ranks.
LEMMA OutranksThree ==
  ASSUME NEW p \in Int, NEW q \in Int, NEW r \in Int, NEW x \in Int, NEW y \in Int, NEW z \in Int,
         p > q, q > r, x > y, y > z,
         p > x \/ (p = x /\ q > y) \/ (p = x /\ q = y /\ r > z)
  PROVE  Outranks({p, q, r}, {x, y, z})
<1>1. CASE p > x
  <2>1. p \in {p, q, r} \ {x, y, z} /\ \A w \in {x, y, z} \ {p, q, r} : w < p
    BY <1>1
  <2> QED
    BY <2>1 DEF Outranks
<1>2. CASE p = x /\ q > y
  <2>1. q \in {p, q, r} \ {x, y, z} /\ \A w \in {x, y, z} \ {p, q, r} : w < q
    BY <1>2
  <2> QED
    BY <2>1 DEF Outranks
<1>3. CASE p = x /\ q = y /\ r > z
  <2>1. r \in {p, q, r} \ {x, y, z} /\ \A w \in {x, y, z} \ {p, q, r} : w < r
    BY <1>3
  <2> QED
    BY <2>1 DEF Outranks
<1> QED
  BY <1>1, <1>2, <1>3

\* Hands of one kind are not above each other both ways.
LEMMA AboveStrict ==
  ASSUME NEW five, NEW other, Above(five, other),
         five \subseteq 0..51, other \subseteq 0..51,
         \/ Tops(five) = {} /\ Tops(other) = {}
         \/ \E s, t \in Int : Tops(five) = {s} /\ Tops(other) = {t}
  PROVE  ~Above(other, five)
<1>1. \A n \in 1..4 : Ranked(five, n) \in SUBSET Int /\ Ranked(other, n) \in SUBSET Int
  BY DEF Ranked, cardRank
<1>2. CASE Tops(five) = {} /\ Tops(other) = {}
  <2>1. PICK n \in 1..4 : /\ Outranks(Ranked(five, n), Ranked(other, n))
                          /\ \A m \in (n + 1)..4 : Ranked(five, m) = Ranked(other, m)
    BY <1>2 DEF Above
  <2>2. ASSUME NEW k \in 1..4,
               Outranks(Ranked(other, k), Ranked(five, k)),
               \A m \in (k + 1)..4 : Ranked(other, m) = Ranked(five, m)
        PROVE  FALSE
    <3>1. Ranked(five, n) # Ranked(other, n) /\ Ranked(five, k) # Ranked(other, k)
      BY <1>1, <2>1, <2>2, OutranksStrict
    <3>2. n = k
      <4>1. n < k => k \in (n + 1)..4
        OBVIOUS
      <4>2. k < n => n \in (k + 1)..4
        OBVIOUS
      <4> QED
        BY <2>1, <2>2, <3>1, <4>1, <4>2
    <3> QED
      BY <1>1, <2>1, <2>2, <3>2, OutranksStrict
  <2> QED
    BY <1>2, <2>2 DEF Above
<1>3. CASE \E s, t \in Int : Tops(five) = {s} /\ Tops(other) = {t}
  BY <1>3 DEF Above
<1> QED
  BY <1>2, <1>3

\* Of two hands of one category the one with the greater tiebreakers is above, and
\* hands with the same tiebreakers are not.
LEMMA ShapeAbove ==
  ASSUME NEW five, NEW other, NEW c, NEW d, NEW e, Shape(five, c, d), Shape(other, c, e)
  PROVE  /\ LexAbove(d, e) => Above(five, other)
         /\ d = e => ~Above(five, other)
<1>1. /\ d[1] \in 0..12 /\ d[2] \in 0..12 /\ d[3] \in 0..12 /\ d[4] \in 0..12 /\ d[5] \in 0..12
      /\ e[1] \in 0..12 /\ e[2] \in 0..12 /\ e[3] \in 0..12 /\ e[4] \in 0..12 /\ e[5] \in 0..12
      /\ c \in 0..8 /\ d \in FiveRanks /\ e \in FiveRanks
  BY DEF Shape, FiveRanks
<1>2. CASE c \in {4, 8}
  <2>1. /\ Tops(five) = {d[1]} /\ d[2] = 0 /\ d[3] = 0 /\ d[4] = 0 /\ d[5] = 0
        /\ Tops(other) = {e[1]} /\ e[2] = 0 /\ e[3] = 0 /\ e[4] = 0 /\ e[5] = 0
    BY <1>2 DEF Shape
  <2>2. Above(five, other) <=> d[1] > e[1]
    BY <2>1 DEF Above
  <2>3. LexAbove(d, e) => d[1] > e[1]
    BY <1>1, <2>1 DEF LexAbove
  <2> QED
    BY <1>1, <2>2, <2>3
<1>3. CASE c \notin {4, 8}
  <2>1. Tops(five) = {} /\ Tops(other) = {}
    BY <1>3 DEF Shape
  <2>2. ASSUME NEW n \in 1..4, Outranks(Ranked(five, n), Ranked(other, n)),
               \A m \in (n + 1)..4 : Ranked(five, m) = Ranked(other, m)
        PROVE  Above(five, other)
    BY <2>1, <2>2 DEF Above
  <2>3. ASSUME \A n \in 1..4 : /\ Ranked(five, n) = Ranked(other, n)
                               /\ Ranked(five, n) \in SUBSET Int
        PROVE  ~Above(five, other)
    <3>1. \A n \in 1..4 : ~Outranks(Ranked(five, n), Ranked(other, n))
      BY <2>3, OutranksStrict
    <3> QED
      BY <2>1, <3>1 DEF Above
  <2> DEFINE R(n) == Ranked(five, n)
             Q(n) == Ranked(other, n)
  <2>4. CASE c = 7
    <3>1. /\ d[1] = d[2] /\ d[2] = d[3] /\ d[3] = d[4]
          /\ e[1] = e[2] /\ e[2] = e[3] /\ e[3] = e[4]
          /\ R(4) = {d[1]} /\ R(3) = {} /\ R(2) = {} /\ R(1) = {d[5]}
          /\ Q(4) = {e[1]} /\ Q(3) = {} /\ Q(2) = {} /\ Q(1) = {e[5]}
      BY <2>4 DEF Shape, RankedShape
    <3>2. d[1] > e[1] => Outranks(R(4), Q(4))
      BY <1>1, <3>1 DEF Outranks
    <3>3. d[5] > e[5] => Outranks(R(1), Q(1))
      BY <1>1, <3>1 DEF Outranks
    <3>4. LexAbove(d, e) => d[1] > e[1] \/ (d[1] = e[1] /\ d[5] > e[5])
      BY <1>1, <3>1 DEF LexAbove
    <3>5. d = e => \A n \in 1..4 : R(n) = Q(n) /\ R(n) \in SUBSET Int
      BY <1>1, <3>1
    <3>6. d[1] = e[1] => \A m \in (1 + 1)..4 : R(m) = Q(m)
      BY <3>1
    <3> QED
      BY <2>2, <2>3, <3>2, <3>3, <3>4, <3>5, <3>6
  <2>5. CASE c = 6
    <3>1. /\ d[1] = d[2] /\ d[2] = d[3] /\ d[4] = d[5]
          /\ e[1] = e[2] /\ e[2] = e[3] /\ e[4] = e[5]
          /\ R(4) = {} /\ R(3) = {d[1]} /\ R(2) = {d[4]} /\ R(1) = {}
          /\ Q(4) = {} /\ Q(3) = {e[1]} /\ Q(2) = {e[4]} /\ Q(1) = {}
      BY <2>5 DEF Shape, RankedShape
    <3>2. d[1] > e[1] => Outranks(R(3), Q(3))
      BY <1>1, <3>1 DEF Outranks
    <3>3. d[4] > e[4] => Outranks(R(2), Q(2))
      BY <1>1, <3>1 DEF Outranks
    <3>4. LexAbove(d, e) => d[1] > e[1] \/ (d[1] = e[1] /\ d[4] > e[4])
      BY <1>1, <3>1 DEF LexAbove
    <3>5. d = e => \A n \in 1..4 : R(n) = Q(n) /\ R(n) \in SUBSET Int
      BY <1>1, <3>1
    <3>6. /\ \A m \in (3 + 1)..4 : R(m) = Q(m)
          /\ d[1] = e[1] => \A m \in (2 + 1)..4 : R(m) = Q(m)
      BY <3>1
    <3> QED
      BY <2>2, <2>3, <3>2, <3>3, <3>4, <3>5, <3>6
  <2>6. CASE c \in {0, 5}
    <3>1. /\ d[1] > d[2] /\ d[2] > d[3] /\ d[3] > d[4] /\ d[4] > d[5]
          /\ e[1] > e[2] /\ e[2] > e[3] /\ e[3] > e[4] /\ e[4] > e[5]
          /\ R(4) = {} /\ R(3) = {} /\ R(2) = {} /\ R(1) = {d[1], d[2], d[3], d[4], d[5]}
          /\ Q(4) = {} /\ Q(3) = {} /\ Q(2) = {} /\ Q(1) = {e[1], e[2], e[3], e[4], e[5]}
      BY <2>6 DEF Shape, RankedShape
    <3>2. LexAbove(d, e) => Outranks(R(1), Q(1))
      BY <1>1, <3>1, OutranksLex
    <3>3. d = e => \A n \in 1..4 : R(n) = Q(n) /\ R(n) \in SUBSET Int
      BY <1>1, <3>1
    <3>4. \A m \in (1 + 1)..4 : R(m) = Q(m)
      BY <3>1
    <3> QED
      BY <2>2, <2>3, <3>2, <3>3, <3>4
  <2>7. CASE c = 3
    <3>1. /\ d[1] = d[2] /\ d[2] = d[3] /\ d[4] > d[5]
          /\ e[1] = e[2] /\ e[2] = e[3] /\ e[4] > e[5]
          /\ R(4) = {} /\ R(3) = {d[1]} /\ R(2) = {} /\ R(1) = {d[4], d[5]}
          /\ Q(4) = {} /\ Q(3) = {e[1]} /\ Q(2) = {} /\ Q(1) = {e[4], e[5]}
      BY <2>7 DEF Shape, RankedShape
    <3>2. d[1] > e[1] => Outranks(R(3), Q(3))
      BY <1>1, <3>1 DEF Outranks
    <3>3. d[4] > e[4] \/ (d[4] = e[4] /\ d[5] > e[5]) => Outranks(R(1), Q(1))
      <4>1. d[4] \in Int /\ d[5] \in Int /\ e[4] \in Int /\ e[5] \in Int
        BY <1>1
      <4>2. d[4] > e[4] \/ (d[4] = e[4] /\ d[5] > e[5])
              => Outranks({d[4], d[5]}, {e[4], e[5]})
        BY <3>1, <4>1, OutranksTwo
      <4> QED
        BY <3>1, <4>2
    <3>4. LexAbove(d, e) => \/ d[1] > e[1]
                            \/ d[1] = e[1] /\ (d[4] > e[4] \/ (d[4] = e[4] /\ d[5] > e[5]))
      BY <1>1, <3>1 DEF LexAbove
    <3>5. d = e => \A n \in 1..4 : R(n) = Q(n) /\ R(n) \in SUBSET Int
      BY <1>1, <3>1
    <3>6. /\ \A m \in (3 + 1)..4 : R(m) = Q(m)
          /\ d[1] = e[1] => \A m \in (1 + 1)..4 : R(m) = Q(m)
      BY <3>1
    <3> QED
      BY <2>2, <2>3, <3>2, <3>3, <3>4, <3>5, <3>6
  <2>8. CASE c = 2
    <3>1. /\ d[1] = d[2] /\ d[3] = d[4] /\ d[1] > d[3]
          /\ e[1] = e[2] /\ e[3] = e[4] /\ e[1] > e[3]
          /\ R(4) = {} /\ R(3) = {} /\ R(2) = {d[1], d[3]} /\ R(1) = {d[5]}
          /\ Q(4) = {} /\ Q(3) = {} /\ Q(2) = {e[1], e[3]} /\ Q(1) = {e[5]}
      BY <2>8 DEF Shape, RankedShape
    <3>2. d[1] > e[1] \/ (d[1] = e[1] /\ d[3] > e[3]) => Outranks(R(2), Q(2))
      <4>1. d[1] \in Int /\ d[3] \in Int /\ e[1] \in Int /\ e[3] \in Int
        BY <1>1
      <4>2. d[1] > e[1] \/ (d[1] = e[1] /\ d[3] > e[3])
              => Outranks({d[1], d[3]}, {e[1], e[3]})
        BY <3>1, <4>1, OutranksTwo
      <4> QED
        BY <3>1, <4>2
    <3>3. d[5] > e[5] => Outranks(R(1), Q(1))
      BY <1>1, <3>1 DEF Outranks
    <3>4. LexAbove(d, e) => \/ d[1] > e[1] \/ (d[1] = e[1] /\ d[3] > e[3])
                            \/ d[1] = e[1] /\ d[3] = e[3] /\ d[5] > e[5]
      BY <1>1, <3>1 DEF LexAbove
    <3>5. d = e => \A n \in 1..4 : R(n) = Q(n) /\ R(n) \in SUBSET Int
      BY <1>1, <3>1
    <3>6. /\ \A m \in (2 + 1)..4 : R(m) = Q(m)
          /\ d[1] = e[1] /\ d[3] = e[3] => \A m \in (1 + 1)..4 : R(m) = Q(m)
      BY <3>1
    <3> QED
      BY <2>2, <2>3, <3>2, <3>3, <3>4, <3>5, <3>6
  <2>9. CASE c = 1
    <3>1. /\ d[1] = d[2] /\ d[3] > d[4] /\ d[4] > d[5]
          /\ e[1] = e[2] /\ e[3] > e[4] /\ e[4] > e[5]
          /\ R(4) = {} /\ R(3) = {} /\ R(2) = {d[1]} /\ R(1) = {d[3], d[4], d[5]}
          /\ Q(4) = {} /\ Q(3) = {} /\ Q(2) = {e[1]} /\ Q(1) = {e[3], e[4], e[5]}
      BY <2>9 DEF Shape, RankedShape
    <3>2. d[1] > e[1] => Outranks(R(2), Q(2))
      BY <1>1, <3>1 DEF Outranks
    <3> DEFINE kickers == \/ d[3] > e[3]
                          \/ d[3] = e[3] /\ d[4] > e[4]
                          \/ d[3] = e[3] /\ d[4] = e[4] /\ d[5] > e[5]
    <3>3. kickers => Outranks(R(1), Q(1))
      <4>1. /\ d[3] \in Int /\ d[4] \in Int /\ d[5] \in Int
            /\ e[3] \in Int /\ e[4] \in Int /\ e[5] \in Int
        BY <1>1
      <4>2. kickers => Outranks({d[3], d[4], d[5]}, {e[3], e[4], e[5]})
        BY <3>1, <4>1, OutranksThree
      <4> QED
        BY <3>1, <4>2
    <3>4. LexAbove(d, e) => d[1] > e[1] \/ (d[1] = e[1] /\ kickers)
      BY <1>1, <3>1 DEF LexAbove
    <3>5. d = e => \A n \in 1..4 : R(n) = Q(n) /\ R(n) \in SUBSET Int
      BY <1>1, <3>1
    <3>6. /\ \A m \in (2 + 1)..4 : R(m) = Q(m)
          /\ d[1] = e[1] => \A m \in (1 + 1)..4 : R(m) = Q(m)
      BY <3>1
    <3> HIDE DEF kickers
    <3> QED
      BY <2>2, <2>3, <3>2, <3>3, <3>4, <3>5, <3>6
  <2> QED
    BY <1>1, <1>3, <2>4, <2>5, <2>6, <2>7, <2>8, <2>9
<1> QED
  BY <1>2, <1>3

-----------------------------------------------------------------------------
(***************************************************************************)
(* The shapes of the tiebreakers.                                          *)
(***************************************************************************)

\* The tiebreakers of a hand that is judged by its groups of equal ranks.
Groups(d, c) ==
  CASE c = 7 -> d[1] = d[2] /\ d[2] = d[3] /\ d[3] = d[4] /\ d[4] # d[5]
    [] c = 6 -> d[1] = d[2] /\ d[2] = d[3] /\ d[3] # d[4] /\ d[4] = d[5]
    [] c = 3 -> d[1] = d[2] /\ d[2] = d[3] /\ d[4] > d[5] /\ d[1] # d[4] /\ d[1] # d[5]
    [] c = 2 -> d[1] = d[2] /\ d[2] > d[3] /\ d[3] = d[4] /\ d[1] # d[5] /\ d[3] # d[5]
    [] c = 1 -> /\ d[1] = d[2] /\ d[3] > d[4] /\ d[4] > d[5]
                /\ d[1] # d[3] /\ d[1] # d[4] /\ d[1] # d[5]
    [] c = 0 -> d[1] > d[2] /\ d[2] > d[3] /\ d[3] > d[4] /\ d[4] > d[5]
    [] OTHER -> FALSE

\* The ranks that occur more often come first, and then the higher ones.
Grouped(d) ==
  \A k \in 1..4 : 16 * Times(d, d[k]) + d[k] >= 16 * Times(d, d[k + 1]) + d[k + 1]

\* The first group decides, and after it the second.
LEMMA GroupsExist ==
  ASSUME NEW d \in FiveRanks, Grouped(d), \A x : Times(d, x) \in 0..4
  PROVE  LET top == Times(d, d[1])
             second == IF top < 5 THEN Times(d, d[top + 1]) ELSE 0
         IN \/ top = 4 /\ Groups(d, 7)
            \/ top = 3 /\ second = 2 /\ Groups(d, 6)
            \/ top = 3 /\ second = 1 /\ Groups(d, 3)
            \/ top = 2 /\ second = 2 /\ Groups(d, 2)
            \/ top = 2 /\ second = 1 /\ Groups(d, 1)
            \/ top = 1 /\ second = 1 /\ Groups(d, 0)
<1> DEFINE T(k) == Times(d, d[k])
<1>1. d[1] \in 0..12 /\ d[2] \in 0..12 /\ d[3] \in 0..12 /\ d[4] \in 0..12 /\ d[5] \in 0..12
  BY DEF FiveRanks
<1>2. /\ 16 * T(1) + d[1] >= 16 * T(2) + d[2]
      /\ 16 * T(2) + d[2] >= 16 * T(3) + d[3]
      /\ 16 * T(3) + d[3] >= 16 * T(4) + d[4]
      /\ 16 * T(4) + d[4] >= 16 * T(5) + d[5]
  BY DEF Grouped
<1>3. T(1) \in 0..4 /\ T(2) \in 0..4 /\ T(3) \in 0..4 /\ T(4) \in 0..4 /\ T(5) \in 0..4
  OBVIOUS
<1> DEFINE q(i, j) == IF d[i] = d[j] THEN 1 ELSE 0
<1>4. /\ T(1) = 1 + q(1, 2) + q(1, 3) + q(1, 4) + q(1, 5)
      /\ T(2) = q(1, 2) + 1 + q(2, 3) + q(2, 4) + q(2, 5)
      /\ T(3) = q(1, 3) + q(2, 3) + 1 + q(3, 4) + q(3, 5)
      /\ T(4) = q(1, 4) + q(2, 4) + q(3, 4) + 1 + q(4, 5)
      /\ T(5) = q(1, 5) + q(2, 5) + q(3, 5) + q(4, 5) + 1
  BY <1>1 DEF Times
<1> HIDE DEF T
<1>5. T(1) >= T(2) /\ T(2) >= T(3) /\ T(3) >= T(4) /\ T(4) >= T(5) /\ T(1) >= 1 /\ T(5) >= 1
  BY <1>1, <1>2, <1>3, <1>4
<1>6. CASE T(1) = 4
  <2>1. Groups(d, 7)
    BY <1>1, <1>4, <1>5, <1>6 DEF Groups
  <2> QED
    BY <1>6, <2>1 DEF T
<1>7. CASE T(1) = 3
  <2>1. (T(4) = 2 /\ Groups(d, 6)) \/ (T(4) = 1 /\ Groups(d, 3))
    BY <1>1, <1>2, <1>4, <1>5, <1>7 DEF Groups
  <2> QED
    BY <1>7, <2>1 DEF T
<1>8. CASE T(1) = 2
  <2>1. (T(3) = 2 /\ Groups(d, 2)) \/ (T(3) = 1 /\ Groups(d, 1))
    BY <1>1, <1>2, <1>4, <1>5, <1>8 DEF Groups
  <2> QED
    BY <1>8, <2>1 DEF T
<1>9. CASE T(1) = 1
  <2>1. T(2) = 1 /\ Groups(d, 0)
    BY <1>1, <1>2, <1>4, <1>5, <1>9 DEF Groups
  <2> QED
    BY <1>9, <2>1 DEF T
<1> QED
  BY <1>3, <1>5, <1>6, <1>7, <1>8, <1>9

\* The rules count the same groups.
LEMMA GroupsRanked ==
  ASSUME NEW five, NEW d \in FiveRanks, NEW c \in {0, 1, 2, 3, 6, 7}, Groups(d, c),
         \A n \in 1..4 : \A r : r \in Ranked(five, n) <=> Times(d, r) = n
  PROVE  RankedShape(five, c, d)
<1> DEFINE R(n) == Ranked(five, n)
<1>1. d[1] \in 0..12 /\ d[2] \in 0..12 /\ d[3] \in 0..12 /\ d[4] \in 0..12 /\ d[5] \in 0..12
  BY DEF FiveRanks
<1>2. /\ \A r : r \in R(1) <=> Times(d, r) = 1
      /\ \A r : r \in R(2) <=> Times(d, r) = 2
      /\ \A r : r \in R(3) <=> Times(d, r) = 3
      /\ \A r : r \in R(4) <=> Times(d, r) = 4
  OBVIOUS
<1> HIDE DEF R
<1>3. CASE c = 7
  <2>1. d[1] = d[2] /\ d[2] = d[3] /\ d[3] = d[4] /\ d[4] # d[5]
    BY <1>3 DEF Groups
  <2>2. \A r : Times(d, r) = IF r = d[1] THEN 4 ELSE IF r = d[5] THEN 1 ELSE 0
    BY <2>1 DEF Times
  <2>3. R(4) = {d[1]} /\ R(3) = {} /\ R(2) = {} /\ R(1) = {d[5]}
    BY <1>2, <2>1, <2>2
  <2> QED
    BY <1>3, <2>1, <2>3 DEF R, RankedShape
<1>4. CASE c = 6
  <2>1. d[1] = d[2] /\ d[2] = d[3] /\ d[3] # d[4] /\ d[4] = d[5]
    BY <1>4 DEF Groups
  <2>2. \A r : Times(d, r) = IF r = d[1] THEN 3 ELSE IF r = d[4] THEN 2 ELSE 0
    BY <2>1 DEF Times
  <2>3. R(4) = {} /\ R(3) = {d[1]} /\ R(2) = {d[4]} /\ R(1) = {}
    BY <1>2, <2>1, <2>2
  <2> QED
    BY <1>4, <2>1, <2>3 DEF R, RankedShape
<1>5. CASE c = 3
  <2>1. d[1] = d[2] /\ d[2] = d[3] /\ d[4] > d[5] /\ d[1] # d[4] /\ d[1] # d[5]
    BY <1>5 DEF Groups
  <2>2. \A r : Times(d, r) = IF r = d[1] THEN 3 ELSE IF r \in {d[4], d[5]} THEN 1 ELSE 0
    BY <1>1, <2>1 DEF Times
  <2>3. R(4) = {} /\ R(3) = {d[1]} /\ R(2) = {} /\ R(1) = {d[4], d[5]}
    BY <1>2, <2>1, <2>2
  <2> QED
    BY <1>5, <2>1, <2>3 DEF R, RankedShape
<1>6. CASE c = 2
  <2>1. d[1] = d[2] /\ d[2] > d[3] /\ d[3] = d[4] /\ d[1] # d[5] /\ d[3] # d[5]
    BY <1>6 DEF Groups
  <2>2. \A r : Times(d, r) = IF r \in {d[1], d[3]} THEN 2 ELSE IF r = d[5] THEN 1 ELSE 0
    BY <1>1, <2>1 DEF Times
  <2>3. R(4) = {} /\ R(3) = {} /\ R(2) = {d[1], d[3]} /\ R(1) = {d[5]}
    BY <1>2, <2>1, <2>2
  <2> QED
    BY <1>6, <2>1, <2>3 DEF R, RankedShape
<1>7. CASE c = 1
  <2>1. /\ d[1] = d[2] /\ d[3] > d[4] /\ d[4] > d[5]
        /\ d[1] # d[3] /\ d[1] # d[4] /\ d[1] # d[5]
    BY <1>7 DEF Groups
  <2>2. \A r : Times(d, r) = IF r = d[1] THEN 2 ELSE IF r \in {d[3], d[4], d[5]} THEN 1 ELSE 0
    BY <1>1, <2>1 DEF Times
  <2>3. R(4) = {} /\ R(3) = {} /\ R(2) = {d[1]} /\ R(1) = {d[3], d[4], d[5]}
    BY <1>2, <2>1, <2>2
  <2> QED
    BY <1>7, <2>1, <2>3 DEF R, RankedShape
<1>8. CASE c = 0
  <2>1. d[1] > d[2] /\ d[2] > d[3] /\ d[3] > d[4] /\ d[4] > d[5]
    BY <1>8 DEF Groups
  <2>2. \A r : Times(d, r) = IF r \in {d[1], d[2], d[3], d[4], d[5]} THEN 1 ELSE 0
    BY <1>1, <2>1 DEF Times
  <2>3. R(4) = {} /\ R(3) = {} /\ R(2) = {} /\ R(1) = {d[1], d[2], d[3], d[4], d[5]}
    BY <1>2, <2>1, <2>2
  <2> QED
    BY <1>8, <2>1, <2>3 DEF R, RankedShape
<1> QED
  BY <1>3, <1>4, <1>5, <1>6, <1>7, <1>8

\* The ranks of the cards as a set.
LEMMA RankSet ==
  ASSUME NEW a \in FiveCards, NEW d \in FiveRanks, \A x : Times(d, x) = Times(RanksOf(a), x)
  PROVE  {cardRank(c) : c \in Range(a)} = {d[1], d[2], d[3], d[4], d[5]}
<1>1. ASSUME NEW x
      PROVE  x \in {cardRank(c) : c \in Range(a)} <=> Times(RanksOf(a), x) # 0
  <2>1. x \in {cardRank(c) : c \in Range(a)} <=> \E k \in 1..5 : RanksOf(a)[k] = x
    BY CardFacts
  <2> QED
    BY <2>1 DEF Times
<1>2. ASSUME NEW x
      PROVE  x \in {d[1], d[2], d[3], d[4], d[5]} <=> Times(d, x) # 0
  BY DEF Times
<1> QED
  BY <1>1, <1>2

\* A hand with two cards of one rank is no straight.
LEMMA NoStraight ==
  ASSUME NEW five, NEW d \in FiveRanks, NEW c \in {1, 2, 3, 6, 7}, Groups(d, c),
         {cardRank(x) : x \in five} = {d[1], d[2], d[3], d[4], d[5]}
  PROVE  Tops(five) = {}
<1>1. d[1] = d[2] /\ (d[2] = d[3] \/ d[3] \in 0..12)
      /\ d[1] \in 0..12 /\ d[3] \in 0..12 /\ d[4] \in 0..12 /\ d[5] \in 0..12
  BY DEF Groups, FiveRanks
<1>2. ASSUME NEW top \in 3..12, {d[1], d[2], d[3], d[4], d[5]} = Run(top) PROVE FALSE
  <2>1. CASE top = 3
    <3>1. \A x \in {12, 0, 1, 2, 3} : x \in {d[1], d[3], d[4], d[5]}
      BY <1>1, <1>2, <2>1 DEF Run
    <3>2. /\ 12 \in {d[1], d[3], d[4], d[5]} /\ 0 \in {d[1], d[3], d[4], d[5]}
          /\ 1 \in {d[1], d[3], d[4], d[5]} /\ 2 \in {d[1], d[3], d[4], d[5]}
          /\ 3 \in {d[1], d[3], d[4], d[5]}
      BY <3>1
    <3> QED
      BY <3>2
  <2>2. CASE top # 3
    <3>1. \A x \in (top - 4)..top : x \in {d[1], d[3], d[4], d[5]}
      BY <1>1, <1>2, <2>2 DEF Run
    <3>2. /\ top \in {d[1], d[3], d[4], d[5]} /\ top - 1 \in {d[1], d[3], d[4], d[5]}
          /\ top - 2 \in {d[1], d[3], d[4], d[5]} /\ top - 3 \in {d[1], d[3], d[4], d[5]}
          /\ top - 4 \in {d[1], d[3], d[4], d[5]}
      BY <3>1
    <3> QED
      BY <1>1, <3>2
  <2> QED
    BY <2>1, <2>2
<1> QED
  BY <1>2 DEF Tops

\* Five different ranks: detectStraight finds the top of the run, if there is one.
LEMMA StraightTop ==
  ASSUME NEW five, NEW d \in FiveRanks,
         d[1] > d[2] /\ d[2] > d[3] /\ d[3] > d[4] /\ d[4] > d[5],
         {cardRank(x) : x \in five} = {d[1], d[2], d[3], d[4], d[5]}
  PROVE  \/ detectStraight(d) \in 0..12 /\ Tops(five) = {detectStraight(d)}
         \/ detectStraight(d) = -1 /\ Tops(five) = {}
<1> DEFINE S == {d[1], d[2], d[3], d[4], d[5]}
<1>1. d[1] \in 0..12 /\ d[2] \in 0..12 /\ d[3] \in 0..12 /\ d[4] \in 0..12 /\ d[5] \in 0..12
  BY DEF FiveRanks
<1>2. \A top : top \in Tops(five) <=> top \in 3..12 /\ S = Run(top)
  BY DEF Tops
<1>3. ASSUME NEW top \in 4..12
      PROVE  S = Run(top) <=> top = d[1] /\ d[1] - d[5] = 4
  <2>1. Run(top) = (top - 4)..top
    BY DEF Run
  <2>2. ASSUME S = (top - 4)..top PROVE top = d[1] /\ d[1] - d[5] = 4
    <3>1. top \in S /\ top - 4 \in S /\ d[1] \in (top - 4)..top /\ d[5] \in (top - 4)..top
      BY <2>2
    <3> QED
      BY <1>1, <3>1
  <2>3. ASSUME top = d[1], d[1] - d[5] = 4 PROVE S = (top - 4)..top
    <3>1. d[2] = top - 1 /\ d[3] = top - 2 /\ d[4] = top - 3 /\ d[5] = top - 4
      BY <1>1, <2>3
    <3> QED
      BY <2>3, <3>1
  <2> QED
    BY <2>1, <2>2, <2>3
<1>4. S = Run(3) <=> d[1] = 12 /\ d[2] = 3 /\ d[3] = 2 /\ d[4] = 1 /\ d[5] = 0
  <2>1. Run(3) = {12, 0, 1, 2, 3}
    BY DEF Run
  <2>2. ASSUME S = {12, 0, 1, 2, 3}
        PROVE  d[1] = 12 /\ d[2] = 3 /\ d[3] = 2 /\ d[4] = 1 /\ d[5] = 0
    <3>1. /\ d[1] \in {12, 0, 1, 2, 3} /\ d[2] \in {12, 0, 1, 2, 3} /\ d[3] \in {12, 0, 1, 2, 3}
          /\ d[4] \in {12, 0, 1, 2, 3} /\ d[5] \in {12, 0, 1, 2, 3}
      BY <2>2
    <3> QED
      BY <1>1, <3>1
  <2> QED
    BY <2>1, <2>2
<1>5. d = <<12, 3, 2, 1, 0>> <=> d[1] = 12 /\ d[2] = 3 /\ d[3] = 2 /\ d[4] = 1 /\ d[5] = 0
  <2>1. ASSUME d[1] = 12 /\ d[2] = 3 /\ d[3] = 2 /\ d[4] = 1 /\ d[5] = 0
        PROVE  d = <<12, 3, 2, 1, 0>>
    <3>1. \A k \in 1..5 : d[k] = <<12, 3, 2, 1, 0>>[k]
      BY <2>1
    <3> QED
      BY <3>1 DEF FiveRanks
  <2> QED
    BY <2>1
<1>6. \A k \in 1..4 : d[k] # d[k + 1]
  BY <1>1
<1> HIDE DEF S
<1>7. CASE d[1] - d[5] = 4
  <2>1. detectStraight(d) = d[1] /\ d[1] \in 4..12
    BY <1>1, <1>6, <1>7 DEF detectStraight
  <2>2. \A top : top \in Tops(five) <=> top = d[1]
    <3>1. ~(S = Run(3))
      BY <1>4, <1>7
    <3>2. \A top \in 3..12 : top = 3 \/ top \in 4..12
      OBVIOUS
    <3> QED
      BY <1>2, <1>3, <1>7, <2>1, <3>1, <3>2
  <2> QED
    BY <2>1, <2>2
<1>8. CASE d[1] - d[5] # 4 /\ d = <<12, 3, 2, 1, 0>>
  <2>1. detectStraight(d) = 3
    BY <1>8 DEF detectStraight
  <2>2. \A top : top \in Tops(five) <=> top = 3
    <3>1. \A top \in 3..12 : top = 3 \/ top \in 4..12
      OBVIOUS
    <3> QED
      BY <1>2, <1>3, <1>4, <1>5, <1>8, <3>1
  <2> QED
    BY <2>1, <2>2
<1>9. CASE d[1] - d[5] # 4 /\ d # <<12, 3, 2, 1, 0>>
  <2>1. detectStraight(d) = -1
    BY <1>9 DEF detectStraight
  <2>2. \A top : top \notin Tops(five)
    <3>1. \A top \in 3..12 : top = 3 \/ top \in 4..12
      OBVIOUS
    <3> QED
      BY <1>2, <1>3, <1>4, <1>5, <1>9, <3>1
  <2> QED
    BY <2>1, <2>2
<1> QED
  BY <1>7, <1>8, <1>9

-----------------------------------------------------------------------------
(***************************************************************************)
(* eval5 gives a hand the category and the tiebreakers of its kind.        *)
(***************************************************************************)

\* The kind is the first that applies.
LEMMA KindIs ==
  ASSUME NEW five, NEW k \in 1..9, OfKind(five, k), \A j \in 1..(k - 1) : ~OfKind(five, j)
  PROVE  Kind(five) = k
<1>1. ASSUME NEW i \in 1..9, OfKind(five, i), \A j \in 1..(i - 1) : ~OfKind(five, j)
      PROVE  i = k
  <2>1. i < k => i \in 1..(k - 1)
    OBVIOUS
  <2>2. k < i => k \in 1..(i - 1)
    OBVIOUS
  <2> QED
    BY <1>1, <2>1, <2>2
<1> QED
  BY <1>1 DEF Kind

\* The kind of a hand with two or more cards of a rank.
LEMMA KindOfGroups ==
  ASSUME NEW five, NEW d \in FiveRanks, NEW c \in {1, 2, 3, 6, 7}, RankedShape(five, c, d),
         ~Suited(five), Tops(five) = {}
  PROVE  Kind(five) = 9 - c
<1> DEFINE R(n) == Ranked(five, n)
<1>1. CASE c = 7
  <2>1. R(4) # {}
    BY <1>1 DEF RankedShape
  <2>2. OfKind(five, 2) /\ \A j \in 1..(2 - 1) : ~OfKind(five, j)
    BY <2>1 DEF OfKind
  <2> QED
    BY <1>1, <2>2, KindIs
<1>2. CASE c = 6
  <2>1. R(4) = {} /\ R(3) # {} /\ R(2) # {}
    BY <1>2 DEF RankedShape
  <2>2. OfKind(five, 3) /\ \A j \in 1..(3 - 1) : ~OfKind(five, j)
    BY <2>1 DEF OfKind
  <2> QED
    BY <1>2, <2>2, KindIs
<1>3. CASE c = 3
  <2>1. R(4) = {} /\ R(3) # {} /\ R(2) = {}
    BY <1>3 DEF RankedShape
  <2>2. OfKind(five, 6) /\ \A j \in 1..(6 - 1) : ~OfKind(five, j)
    BY <2>1 DEF OfKind
  <2> QED
    BY <1>3, <2>2, KindIs
<1>4. CASE c = 2
  <2>1. R(4) = {} /\ R(3) = {} /\ R(2) = {d[1], d[3]} /\ d[1] > d[3]
    BY <1>4 DEF RankedShape
  <2>2. d[1] \in Int /\ d[3] \in Int
    BY DEF FiveRanks
  <2>3. {d[1], d[3]} = {d[1]} \cup {d[3]} /\ d[3] \notin {d[1]}
    BY <2>1, <2>2
  <2>4. IsFiniteSet({d[1]}) /\ Cardinality({d[1]}) = 1
    BY FS_Singleton
  <2>5. Cardinality({d[1]} \cup {d[3]}) = 2
    BY <2>3, <2>4, FS_AddElement
  <2>6. Cardinality(R(2)) = 2
    BY <2>1, <2>3, <2>5
  <2>7. OfKind(five, 7) /\ \A j \in 1..(7 - 1) : ~OfKind(five, j)
    BY <2>1, <2>6 DEF OfKind
  <2> QED
    BY <1>4, <2>7, KindIs
<1>5. CASE c = 1
  <2>1. R(4) = {} /\ R(3) = {} /\ R(2) = {d[1]}
    BY <1>5 DEF RankedShape
  <2>2. Cardinality(R(2)) = 1
    BY <2>1, FS_Singleton
  <2>3. OfKind(five, 8) /\ \A j \in 1..(8 - 1) : ~OfKind(five, j)
    BY <2>1, <2>2 DEF OfKind
  <2> QED
    BY <1>5, <2>3, KindIs
<1> QED
  BY <1>1, <1>2, <1>3, <1>4, <1>5

\* The kind of a hand of five different ranks.
LEMMA KindOfDistinct ==
  ASSUME NEW five, Ranked(five, 4) = {}, Ranked(five, 3) = {}, Ranked(five, 2) = {}
  PROVE  /\ Suited(five) /\ Tops(five) # {} => Kind(five) = 1
         /\ Suited(five) /\ Tops(five) = {} => Kind(five) = 4
         /\ ~Suited(five) /\ Tops(five) # {} => Kind(five) = 5
         /\ ~Suited(five) /\ Tops(five) = {} => Kind(five) = 9
<1>1. ASSUME Suited(five), Tops(five) # {} PROVE Kind(five) = 1
  <2>1. OfKind(five, 1) /\ \A j \in 1..(1 - 1) : ~OfKind(five, j)
    BY <1>1 DEF OfKind
  <2> QED
    BY <2>1, KindIs
<1>2. ASSUME Suited(five), Tops(five) = {} PROVE Kind(five) = 4
  <2>1. OfKind(five, 4) /\ \A j \in 1..(4 - 1) : ~OfKind(five, j)
    BY <1>2 DEF OfKind
  <2> QED
    BY <2>1, KindIs
<1>3. ASSUME ~Suited(five), Tops(five) # {} PROVE Kind(five) = 5
  <2>1. OfKind(five, 5) /\ \A j \in 1..(5 - 1) : ~OfKind(five, j)
    BY <1>3 DEF OfKind
  <2> QED
    BY <2>1, KindIs
<1>4. ASSUME ~Suited(five), Tops(five) = {} PROVE Kind(five) = 9
  <2>1. Cardinality(Ranked(five, 2)) = 0
    BY FS_EmptySet
  <2>2. OfKind(five, 9) /\ \A j \in 1..(9 - 1) : ~OfKind(five, j)
    BY <1>4, <2>1 DEF OfKind
  <2> QED
    BY <2>2, KindIs
<1> QED
  BY <1>1, <1>2, <1>3, <1>4

\* Different ranks have one falling order, so the tiebreakers are the sorted ranks.
LEMMA OneOrder ==
  ASSUME NEW t \in FiveRanks, NEW d \in FiveRanks, Groups(d, 0),
         \A k \in 1..4 : t[k] >= t[k + 1], \A x : Times(d, x) = Times(t, x)
  PROVE  t = d
<1>1. /\ d[1] \in 0..12 /\ d[2] \in 0..12 /\ d[3] \in 0..12 /\ d[4] \in 0..12 /\ d[5] \in 0..12
      /\ t[1] \in 0..12 /\ t[2] \in 0..12 /\ t[3] \in 0..12 /\ t[4] \in 0..12 /\ t[5] \in 0..12
  BY DEF FiveRanks
<1>2. d[1] > d[2] /\ d[2] > d[3] /\ d[3] > d[4] /\ d[4] > d[5]
  BY DEF Groups
<1>3. t[1] >= t[2] /\ t[2] >= t[3] /\ t[3] >= t[4] /\ t[4] >= t[5]
  OBVIOUS
<1>4. ASSUME NEW x PROVE x \in {t[1], t[2], t[3], t[4], t[5]} <=> x \in {d[1], d[2], d[3], d[4], d[5]}
  <2>1. x \in {t[1], t[2], t[3], t[4], t[5]} <=> Times(t, x) # 0
    BY DEF Times
  <2>2. x \in {d[1], d[2], d[3], d[4], d[5]} <=> Times(d, x) # 0
    BY DEF Times
  <2> QED
    BY <2>1, <2>2
<1>5. /\ t[1] \in {d[1], d[2], d[3], d[4], d[5]} /\ t[2] \in {d[1], d[2], d[3], d[4], d[5]}
      /\ t[3] \in {d[1], d[2], d[3], d[4], d[5]} /\ t[4] \in {d[1], d[2], d[3], d[4], d[5]}
      /\ t[5] \in {d[1], d[2], d[3], d[4], d[5]}
      /\ d[1] \in {t[1], t[2], t[3], t[4], t[5]} /\ d[2] \in {t[1], t[2], t[3], t[4], t[5]}
      /\ d[3] \in {t[1], t[2], t[3], t[4], t[5]} /\ d[4] \in {t[1], t[2], t[3], t[4], t[5]}
      /\ d[5] \in {t[1], t[2], t[3], t[4], t[5]}
  BY <1>4
<1>6. t[1] > t[2] /\ t[2] > t[3] /\ t[3] > t[4] /\ t[4] > t[5]
  <2>1. \A x : Times(d, x) <= 1
    BY <1>1, <1>2 DEF Times
  <2>2. Times(t, t[1]) <= 1 /\ Times(t, t[2]) <= 1 /\ Times(t, t[3]) <= 1 /\ Times(t, t[4]) <= 1
    BY <2>1
  <2>3. t[1] # t[2] /\ t[2] # t[3] /\ t[3] # t[4] /\ t[4] # t[5]
    BY <2>2 DEF Times
  <2> QED
    BY <1>1, <1>3, <2>3
<1>7. t[1] = d[1] /\ t[2] = d[2] /\ t[3] = d[3] /\ t[4] = d[4] /\ t[5] = d[5]
  <2>1. t[1] = d[1]
    BY <1>1, <1>2, <1>5, <1>6
  <2>2. t[2] = d[2]
    BY <1>1, <1>2, <1>5, <1>6, <2>1
  <2>3. t[3] = d[3]
    BY <1>1, <1>2, <1>5, <1>6, <2>1, <2>2
  <2>4. t[4] = d[4]
    BY <1>1, <1>2, <1>5, <1>6, <2>1, <2>2, <2>3
  <2>5. t[5] = d[5]
    BY <1>1, <1>2, <1>5, <1>6, <2>1, <2>2, <2>3, <2>4
  <2> QED
    BY <2>1, <2>2, <2>3, <2>4, <2>5
<1>8. \A k \in 1..5 : t[k] = d[k]
  BY <1>7
<1> QED
  BY <1>8 DEF FiveRanks

\* Two cards of one rank: detectStraight says no.
LEMMA NoStraightFound ==
  ASSUME NEW t \in FiveRanks, \A k \in 1..4 : t[k] >= t[k + 1], NEW x, Times(t, x) >= 2
  PROVE  detectStraight(t) = -1
<1>1. /\ t[1] \in 0..12 /\ t[2] \in 0..12 /\ t[3] \in 0..12 /\ t[4] \in 0..12 /\ t[5] \in 0..12
      /\ t[1] >= t[2] /\ t[2] >= t[3] /\ t[3] >= t[4] /\ t[4] >= t[5]
  BY DEF FiveRanks
<1>2. t[1] = t[2] \/ t[2] = t[3] \/ t[3] = t[4] \/ t[4] = t[5]
  BY <1>1 DEF Times
<1>3. ~(\A k \in 1..4 : t[k] # t[k + 1])
  <2> SUFFICES ASSUME \A k \in 1..4 : t[k] # t[k + 1] PROVE FALSE
    OBVIOUS
  <2>1. t[1] # t[2] /\ t[2] # t[3] /\ t[3] # t[4] /\ t[4] # t[5]
    OBVIOUS
  <2> QED
    BY <1>2, <2>1
<1>4. t # <<12, 3, 2, 1, 0>>
  BY <1>2
<1> QED
  BY <1>3, <1>4 DEF detectStraight

\* The number of a hand consists of the category and the tiebreakers that the rules
\* of the game give it.
LEMMA EvalShape ==
  ASSUME NEW a \in FiveCards
  PROVE  \E c \in 0..8, d \in FiveRanks :
           eval5(a) = newHandRank(c, d) /\ Shape(Range(a), c, d)
<1> DEFINE t == Descending(RanksOf(a))
           tb == Tiebreakers(t)
           hi == detectStraight(t)
           five == Range(a)
           isFlush == \A k \in 1..4 : cardSuit(a[k]) = cardSuit(a[k + 1])
           top == Freq(t, tb[1])
           second == IF top < 5 THEN Freq(t, tb[top + 1]) ELSE 0
           straight == <<hi, 0, 0, 0, 0>>
<1>1. eval5(a) =
        IF isFlush /\ hi >= 0 THEN newHandRank(8, straight)
        ELSE IF top = 4 THEN newHandRank(7, tb)
        ELSE IF top = 3 /\ second = 2 THEN newHandRank(6, tb)
        ELSE IF isFlush THEN newHandRank(5, t)
        ELSE IF hi >= 0 THEN newHandRank(4, straight)
        ELSE IF top = 3 THEN newHandRank(3, tb)
        ELSE IF top = 2 /\ second = 2 THEN newHandRank(2, tb)
        ELSE IF top = 2 THEN newHandRank(1, tb)
        ELSE newHandRank(0, tb)
  BY DEF eval5, RanksOf
<1>2. RanksOf(a) \in FiveRanks
  BY CardFacts
<1>3. /\ t \in FiveRanks
      /\ \A k \in 1..4 : t[k] >= t[k + 1]
      /\ \A x : Times(t, x) = Times(RanksOf(a), x)
  BY <1>2, DescendingSorts
<1> HIDE DEF t
<1>4. /\ tb \in FiveRanks
      /\ \A k \in 1..4 : 16 * Times(t, tb[k]) + tb[k] >= 16 * Times(t, tb[k + 1]) + tb[k + 1]
      /\ \A x : Times(tb, x) = Times(t, x)
  BY <1>3, TiebreakersSort
<1> HIDE DEF tb
<1>5. /\ \A x : Times(tb, x) = Times(RanksOf(a), x)
      /\ \A x : Times(tb, x) \in 0..4
      /\ Grouped(tb)
      /\ \A x : Freq(t, x) = Times(tb, x)
  BY <1>3, <1>4, FourAtMost, FreqSum DEF Grouped
<1>6. /\ top = Times(tb, tb[1])
      /\ second = IF top < 5 THEN Times(tb, tb[top + 1]) ELSE 0
  BY <1>5
<1>7. \/ top = 4 /\ Groups(tb, 7)
      \/ top = 3 /\ second = 2 /\ Groups(tb, 6)
      \/ top = 3 /\ second = 1 /\ Groups(tb, 3)
      \/ top = 2 /\ second = 2 /\ Groups(tb, 2)
      \/ top = 2 /\ second = 1 /\ Groups(tb, 1)
      \/ top = 1 /\ second = 1 /\ Groups(tb, 0)
  BY <1>4, <1>5, <1>6, GroupsExist
<1>8. isFlush <=> Suited(five)
  BY SuitedIsFlush
<1>9. {cardRank(c) : c \in five} = {tb[1], tb[2], tb[3], tb[4], tb[5]}
  BY <1>4, <1>5, RankSet
<1>10. \A n \in 1..4 : \A r : r \in Ranked(five, n) <=> Times(tb, r) = n
  BY <1>5, RankedIs
<1>11. Times(t, tb[1]) = top
  BY <1>4, <1>6
<1>12. top >= 2 => ~Suited(five)
  <2> SUFFICES ASSUME Suited(five) PROVE Times(RanksOf(a), tb[1]) <= 1
    BY <1>5, <1>6
  <2> QED
    BY SuitedDistinct
<1> HIDE DEF isFlush, top, second, hi, five
<1>13. ASSUME NEW c \in {1, 2, 3, 6, 7}, Groups(tb, c), top >= 2
       PROVE  Shape(five, c, tb) /\ ~isFlush /\ ~(hi >= 0)
  <2>1. RankedShape(five, c, tb)
    BY <1>4, <1>10, <1>13, GroupsRanked
  <2>2. Tops(five) = {}
    BY <1>4, <1>9, <1>13, NoStraight
  <2>3. ~Suited(five) /\ ~isFlush
    BY <1>8, <1>12, <1>13
  <2>4. Kind(five) = 9 - c
    BY <1>4, <1>13, <2>1, <2>2, <2>3, KindOfGroups
  <2>5. hi = -1
    BY <1>3, <1>11, <1>13, NoStraightFound DEF hi
  <2> QED
    BY <1>4, <1>13, <2>1, <2>2, <2>3, <2>4, <2>5 DEF Shape
<1>14. CASE top = 4 /\ Groups(tb, 7)
  BY <1>1, <1>4, <1>13, <1>14 DEF five
<1>15. CASE top = 3 /\ second = 2 /\ Groups(tb, 6)
  BY <1>1, <1>4, <1>13, <1>15 DEF five
<1>16. CASE top = 3 /\ second = 1 /\ Groups(tb, 3)
  BY <1>1, <1>4, <1>13, <1>16 DEF five
<1>17. CASE top = 2 /\ second = 2 /\ Groups(tb, 2)
  BY <1>1, <1>4, <1>13, <1>17 DEF five
<1>18. CASE top = 2 /\ second = 1 /\ Groups(tb, 1)
  BY <1>1, <1>4, <1>13, <1>18 DEF five
<1>19. CASE top = 1 /\ second = 1 /\ Groups(tb, 0)
  <2>1. t = tb
    BY <1>3, <1>4, <1>19, OneOrder
  <2>2. RankedShape(five, 0, tb) /\ RankedShape(five, 5, tb)
    <3>1. RankedShape(five, 0, tb)
      BY <1>4, <1>10, <1>19, GroupsRanked
    <3> QED
      BY <3>1 DEF RankedShape
  <2>3. Ranked(five, 4) = {} /\ Ranked(five, 3) = {} /\ Ranked(five, 2) = {}
    BY <2>2 DEF RankedShape
  <2>4. \/ hi \in 0..12 /\ Tops(five) = {hi}
        \/ hi = -1 /\ Tops(five) = {}
    <3>1. tb[1] > tb[2] /\ tb[2] > tb[3] /\ tb[3] > tb[4] /\ tb[4] > tb[5]
      BY <1>19 DEF Groups
    <3> QED
      BY <1>4, <1>9, <2>1, <3>1, StraightTop DEF hi
  <2>5. ASSUME hi \in 0..12, Tops(five) = {hi}
        PROVE  /\ straight \in FiveRanks
               /\ isFlush => Shape(five, 8, straight)
               /\ ~isFlush => Shape(five, 4, straight)
    <3>1. straight \in FiveRanks /\ straight[1] = hi
      BY <2>5 DEF FiveRanks
    <3>2. RankedShape(five, 8, straight) /\ RankedShape(five, 4, straight)
      BY DEF RankedShape
    <3>3. isFlush => Kind(five) = 1
      BY <1>8, <2>3, <2>5, KindOfDistinct
    <3>4. ~isFlush => Kind(five) = 5
      BY <1>8, <2>3, <2>5, KindOfDistinct
    <3> QED
      BY <2>5, <3>1, <3>2, <3>3, <3>4 DEF Shape
  <2>6. ASSUME Tops(five) = {}
        PROVE  /\ isFlush => Shape(five, 5, tb)
               /\ ~isFlush => Shape(five, 0, tb)
    <3>1. isFlush => Kind(five) = 4
      BY <1>8, <2>3, <2>6, KindOfDistinct
    <3>2. ~isFlush => Kind(five) = 9
      BY <1>8, <2>3, <2>6, KindOfDistinct
    <3> QED
      BY <1>4, <2>2, <2>6, <3>1, <3>2 DEF Shape
  <2>7. CASE hi \in 0..12 /\ Tops(five) = {hi}
    <3> HIDE DEF straight
    <3>1. hi >= 0
      BY <2>7
    <3> QED
      BY <1>1, <1>19, <2>5, <2>7, <3>1 DEF five
  <2>8. CASE hi = -1 /\ Tops(five) = {}
    <3>1. ~(hi >= 0)
      BY <2>8
    <3> QED
      BY <1>1, <1>4, <1>19, <2>1, <2>6, <2>8, <3>1 DEF five
  <2> QED
    BY <2>4, <2>7, <2>8
<1> QED
  BY <1>7, <1>14, <1>15, <1>16, <1>17, <1>18, <1>19

\* The numbers of hands compare as the rules of the game compare the hands.
THEOREM EvalOrdersHands ==
  ASSUME NEW a \in FiveCards, NEW b \in FiveCards
  PROVE  /\ eval5(a) \in Nat
         /\ eval5(a) > eval5(b) <=> Beats(Range(a), Range(b))
<1>1. PICK c \in 0..8, d \in FiveRanks : eval5(a) = newHandRank(c, d) /\ Shape(Range(a), c, d)
  BY EvalShape
<1>2. PICK g \in 0..8, e \in FiveRanks : eval5(b) = newHandRank(g, e) /\ Shape(Range(b), g, e)
  BY EvalShape
<1>3. /\ eval5(a) \in Nat
      /\ (eval5(a) > eval5(b)) <=> (c > g \/ (c = g /\ LexAbove(d, e)))
  BY <1>1, <1>2, NumberOrder
<1>4. Kind(Range(a)) = 9 - c /\ Kind(Range(b)) = 9 - g
  BY <1>1, <1>2 DEF Shape
<1>5. Beats(Range(a), Range(b)) <=> c > g \/ (c = g /\ Above(Range(a), Range(b)))
  BY <1>4 DEF Beats
<1>6. ASSUME c = g PROVE LexAbove(d, e) <=> Above(Range(a), Range(b))
  <2>1. /\ LexAbove(d, e) => Above(Range(a), Range(b))
        /\ LexAbove(e, d) => Above(Range(b), Range(a))
        /\ d = e => ~Above(Range(a), Range(b))
    BY <1>1, <1>2, <1>6, ShapeAbove
  <2>2. LexAbove(d, e) \/ LexAbove(e, d) \/ d = e
    <3>1. d \in [1..5 -> Int] /\ e \in [1..5 -> Int]
      BY DEF FiveRanks
    <3> QED
      BY <3>1, LexTotal
  <2>3. Above(Range(b), Range(a)) => ~Above(Range(a), Range(b))
    <3>1. Range(a) \subseteq 0..51 /\ Range(b) \subseteq 0..51
      BY CardFacts
    <3>2. d[1] \in Int /\ e[1] \in Int
      BY DEF FiveRanks
    <3>3. \/ Tops(Range(b)) = {} /\ Tops(Range(a)) = {}
          \/ \E s, t \in Int : Tops(Range(b)) = {s} /\ Tops(Range(a)) = {t}
      BY <1>1, <1>2, <1>6, <3>2 DEF Shape
    <3> QED
      BY <3>1, <3>3, AboveStrict
  <2> QED
    BY <2>1, <2>2, <2>3
<1> QED
  BY <1>3, <1>5, <1>6

-----------------------------------------------------------------------------
(***************************************************************************)
(* The combinations of bestHand.                                           *)
(***************************************************************************)

\* Five of the positions 1 to 7, in rising order.
Combinations == {x \in [1..5 -> 1..7] : \A k \in 1..4 : x[k] < x[k + 1]}

\* The cards of p at the positions x, and their number.
HandAt(p, x) == [k \in 1..5 |-> Pool(p)[x[k]]]
RankAt(p, x) == eval5(HandAt(p, x))

\* p has seven different cards.
SevenCards(p) == Len(Pool(p)) = 7 /\ Pool(p) \in Injection(1..7, 0..51)

\* Rising positions, each with its room on both sides.
LEMMA CombinationType ==
  ASSUME NEW x
  PROVE  x \in Combinations <=>
           /\ x \in [1..5 -> 1..7]
           /\ 1 <= x[1] /\ x[1] < x[2] /\ x[2] < x[3] /\ x[3] < x[4] /\ x[4] < x[5] /\ x[5] <= 7
<1>1. ASSUME x \in [1..5 -> 1..7]
      PROVE  1 <= x[1] /\ x[5] <= 7 /\ x[1] \in Int /\ x[2] \in Int /\ x[3] \in Int
             /\ x[4] \in Int /\ x[5] \in Int
  BY <1>1
<1>2. ASSUME x \in Combinations
      PROVE  x[1] < x[2] /\ x[2] < x[3] /\ x[3] < x[4] /\ x[4] < x[5]
  BY <1>2 DEF Combinations
<1>3. ASSUME x \in [1..5 -> 1..7], x[1] < x[2] /\ x[2] < x[3] /\ x[3] < x[4] /\ x[4] < x[5]
      PROVE  x \in Combinations
  <2>1. \A k \in 1..4 : x[k] < x[k + 1]
    BY <1>3
  <2> QED
    BY <1>3, <2>1 DEF Combinations
<1> QED
  BY <1>1, <1>2, <1>3 DEF Combinations

\* The five cards of a combination are different.
LEMMA HandAtType ==
  ASSUME NEW p, SevenCards(p), NEW x \in Combinations
  PROVE  HandAt(p, x) \in FiveCards
<1>1. Pool(p) \in [1..7 -> 0..51] /\ \A i, j \in 1..7 : Pool(p)[i] = Pool(p)[j] => i = j
  BY Fun_InjectionProperties DEF SevenCards
<1>2. /\ x \in [1..5 -> 1..7]
      /\ x[1] < x[2] /\ x[2] < x[3] /\ x[3] < x[4] /\ x[4] < x[5]
  BY CombinationType
<1>3. \A i, j \in 1..5 : x[i] = x[j] => i = j
  BY <1>2
<1>4. HandAt(p, x) \in [1..5 -> 0..51]
  BY <1>1, <1>2 DEF HandAt
<1>5. \A i, j \in 1..5 : HandAt(p, x)[i] = HandAt(p, x)[j] => i = j
  BY <1>1, <1>2, <1>3 DEF HandAt
<1> QED
  BY <1>4, <1>5, Fun_IsInj DEF FiveCards

\* The loop starts with the first combination.
LEMMA FirstCombination ==
  /\ <<1, 2, 3, 4, 5>> \in Combinations
  /\ \A x \in Combinations : ~LexAbove(<<1, 2, 3, 4, 5>>, x)
<1>1. <<1, 2, 3, 4, 5>> \in Combinations
  BY CombinationType
<1>2. ASSUME NEW x \in Combinations PROVE ~LexAbove(<<1, 2, 3, 4, 5>>, x)
  <2>1. /\ x[1] \in 1..7 /\ x[2] \in 1..7 /\ x[3] \in 1..7 /\ x[4] \in 1..7 /\ x[5] \in 1..7
        /\ 1 <= x[1] /\ x[1] < x[2] /\ x[2] < x[3] /\ x[3] < x[4] /\ x[4] < x[5]
    BY CombinationType
  <2> QED
    BY <2>1 DEF LexAbove
<1> QED
  BY <1>1, <1>2

\* When no position can move, no combination is left.
LEMMA LastCombination ==
  ASSUME idx \in Combinations, MovablePositions(7) = {}
  PROVE  \A x \in Combinations : x = idx \/ LexAbove(idx, x)
<1>1. /\ idx[1] \in 1..7 /\ idx[2] \in 1..7 /\ idx[3] \in 1..7 /\ idx[4] \in 1..7 /\ idx[5] \in 1..7
      /\ idx[1] < idx[2] /\ idx[2] < idx[3] /\ idx[3] < idx[4] /\ idx[4] < idx[5]
  BY CombinationType
<1>2. idx[1] = 3
  BY <1>1 DEF MovablePositions
<1>3. idx[2] = 4 /\ idx[3] = 5 /\ idx[4] = 6 /\ idx[5] = 7
  BY <1>1, <1>2
<1>4. ASSUME NEW x \in Combinations PROVE ~LexAbove(x, idx)
  <2>1. /\ x[1] \in 1..7 /\ x[2] \in 1..7 /\ x[3] \in 1..7 /\ x[4] \in 1..7 /\ x[5] \in 1..7
        /\ x[1] < x[2] /\ x[2] < x[3] /\ x[3] < x[4] /\ x[4] < x[5] /\ x[5] <= 7
    BY CombinationType
  <2> QED
    BY <1>2, <1>3, <2>1 DEF LexAbove
<1>5. \A x \in Combinations : x \in [1..5 -> Int]
  BY DEF Combinations
<1> QED
  BY <1>4, <1>5, LexTotal

\* A turn steps over no combination: the last position that can move does, and the ones
\* after it close up.
LEMMA NextCombinationFollows ==
  ASSUME idx \in Combinations, MovablePositions(7) # {}
  PROVE  /\ NextCombination(7) \in Combinations
         /\ \A x \in Combinations : LexAbove(NextCombination(7), x) => x = idx \/ LexAbove(idx, x)
<1> DEFINE M == MovablePositions(7)
           i == CHOOSE i \in M : \A j \in M : j <= i
           y == [j \in 1..5 |-> IF j < i THEN idx[j] ELSE idx[i] + 1 + (j - i)]
<1>1. /\ idx[1] \in 1..7 /\ idx[2] \in 1..7 /\ idx[3] \in 1..7 /\ idx[4] \in 1..7 /\ idx[5] \in 1..7
      /\ idx[1] < idx[2] /\ idx[2] < idx[3] /\ idx[3] < idx[4] /\ idx[4] < idx[5]
      /\ idx \in [1..5 -> 1..7]
  BY CombinationType
<1>2. \A j : j \in M <=> j \in 1..5 /\ idx[j] < j + 2
  BY <1>1 DEF MovablePositions
<1>3. NextCombination(7) = y
  BY DEF NextCombination
<1>4. \E k \in M : \A j \in M : j <= k
  <2>1. M # {} /\ M \subseteq 1..5
    BY <1>2
  <2> HIDE DEF M
  <2>2. 1 \in M \/ 2 \in M \/ 3 \in M \/ 4 \in M \/ 5 \in M
    <3>1. PICK k \in M : TRUE
      BY <2>1
    <3>2. k = 1 \/ k = 2 \/ k = 3 \/ k = 4 \/ k = 5
      BY <2>1, <3>1
    <3> QED
      BY <3>1, <3>2
  <2> QED
    BY <2>1, <2>2
<1>5. i \in M /\ \A j \in M : j <= i
  BY <1>4
<1> HIDE DEF M, i
<1>6. i \in 1..5 /\ idx[i] < i + 2 /\ \A j \in 1..5 : j > i => idx[j] >= j + 2
  BY <1>1, <1>2, <1>5
<1>7. /\ y[1] = (IF 1 < i THEN idx[1] ELSE idx[i] + 1 + (1 - i))
      /\ y[2] = (IF 2 < i THEN idx[2] ELSE idx[i] + 1 + (2 - i))
      /\ y[3] = (IF 3 < i THEN idx[3] ELSE idx[i] + 1 + (3 - i))
      /\ y[4] = (IF 4 < i THEN idx[4] ELSE idx[i] + 1 + (4 - i))
      /\ y[5] = (IF 5 < i THEN idx[5] ELSE idx[i] + 1 + (5 - i))
  OBVIOUS
<1>8. /\ y \in [1..5 -> 1..7]
      /\ y[1] < y[2] /\ y[2] < y[3] /\ y[3] < y[4] /\ y[4] < y[5]
  <2>1. \A j \in 1..5 : (IF j < i THEN idx[j] ELSE idx[i] + 1 + (j - i)) \in 1..7
    BY <1>1, <1>6
  <2>2. y \in [1..5 -> 1..7]
    BY <2>1
  <2> HIDE DEF y
  <2>3. y[1] < y[2] /\ y[2] < y[3] /\ y[3] < y[4] /\ y[4] < y[5]
    BY <1>1, <1>6, <1>7
  <2> QED
    BY <2>2, <2>3
<1> HIDE DEF y
<1>9. y \in Combinations
  <2>1. 1 <= y[1] /\ y[5] <= 7
    BY <1>8
  <2> QED
    BY <1>8, <2>1, CombinationType
<1>10. ASSUME NEW x \in Combinations, LexAbove(y, x)
       PROVE  ~LexAbove(x, idx)
  <2>1. /\ x[1] \in 1..7 /\ x[2] \in 1..7 /\ x[3] \in 1..7 /\ x[4] \in 1..7 /\ x[5] \in 1..7
        /\ x[1] < x[2] /\ x[2] < x[3] /\ x[3] < x[4] /\ x[4] < x[5] /\ x[5] <= 7
    BY CombinationType
  <2>2. CASE i = 1
    <3>1. /\ y[1] = idx[1] + 1 /\ y[2] = idx[1] + 2 /\ y[3] = idx[1] + 3 /\ y[4] = idx[1] + 4
          /\ y[5] = idx[1] + 5
          /\ idx[2] = 4 /\ idx[3] = 5 /\ idx[4] = 6 /\ idx[5] = 7
      BY <1>1, <1>6, <1>7, <2>2
    <3> QED
      BY <1>1, <1>10, <2>1, <3>1 DEF LexAbove
  <2>3. CASE i = 2
    <3>1. /\ y[1] = idx[1] /\ y[2] = idx[2] + 1 /\ y[3] = idx[2] + 2 /\ y[4] = idx[2] + 3
          /\ y[5] = idx[2] + 4
          /\ idx[3] = 5 /\ idx[4] = 6 /\ idx[5] = 7
      BY <1>1, <1>6, <1>7, <2>3
    <3> QED
      BY <1>1, <1>10, <2>1, <3>1 DEF LexAbove
  <2>4. CASE i = 3
    <3>1. /\ y[1] = idx[1] /\ y[2] = idx[2] /\ y[3] = idx[3] + 1 /\ y[4] = idx[3] + 2
          /\ y[5] = idx[3] + 3
          /\ idx[4] = 6 /\ idx[5] = 7
      BY <1>1, <1>6, <1>7, <2>4
    <3> QED
      BY <1>1, <1>10, <2>1, <3>1 DEF LexAbove
  <2>5. CASE i = 4
    <3>1. /\ y[1] = idx[1] /\ y[2] = idx[2] /\ y[3] = idx[3] /\ y[4] = idx[4] + 1
          /\ y[5] = idx[4] + 2
          /\ idx[5] = 7
      BY <1>1, <1>6, <1>7, <2>5
    <3> QED
      BY <1>1, <1>10, <2>1, <3>1 DEF LexAbove
  <2>6. CASE i = 5
    <3>1. /\ y[1] = idx[1] /\ y[2] = idx[2] /\ y[3] = idx[3] /\ y[4] = idx[4]
          /\ y[5] = idx[5] + 1
      BY <1>1, <1>6, <1>7, <2>6
    <3> QED
      BY <1>1, <1>10, <2>1, <3>1 DEF LexAbove
  <2> QED
    BY <1>6, <2>2, <2>3, <2>4, <2>5, <2>6
<1>11. \A x \in Combinations : x \in [1..5 -> Int]
  BY DEF Combinations
<1> QED
  BY <1>3, <1>9, <1>10, <1>11, LexTotal

\* A combination leaves out two positions.
LEMMA TwoLeftOut ==
  ASSUME NEW x \in Combinations
  PROVE  \E i, j \in 1..7 : i < j /\ \A m \in 1..7 : (\E k \in 1..5 : x[k] = m) <=> m # i /\ m # j
<1> DEFINE i == IF x[1] > 1 THEN 1 ELSE IF x[2] > 2 THEN 2 ELSE IF x[3] > 3 THEN 3
                ELSE IF x[4] > 4 THEN 4 ELSE IF x[5] > 5 THEN 5 ELSE 6
           j == IF x[1] > 2 THEN 2 ELSE IF x[2] > 3 THEN 3 ELSE IF x[3] > 4 THEN 4
                ELSE IF x[4] > 5 THEN 5 ELSE IF x[5] > 6 THEN 6 ELSE 7
<1>1. /\ x[1] \in 1..7 /\ x[2] \in 1..7 /\ x[3] \in 1..7 /\ x[4] \in 1..7 /\ x[5] \in 1..7
      /\ x[1] < x[2] /\ x[2] < x[3] /\ x[3] < x[4] /\ x[4] < x[5]
  BY CombinationType
<1>2. i \in 1..7 /\ j \in 1..7 /\ i < j
  BY <1>1
<1>3. \A m \in 1..7 : (\E k \in 1..5 : x[k] = m)
                        <=> x[1] = m \/ x[2] = m \/ x[3] = m \/ x[4] = m \/ x[5] = m
  OBVIOUS
<1>4. \A m \in 1..7 : x[1] = m \/ x[2] = m \/ x[3] = m \/ x[4] = m \/ x[5] = m <=> m # i /\ m # j
  BY <1>1
<1> HIDE DEF i, j
<1> QED
  BY <1>2, <1>3, <1>4

\* Any two positions are left out by some combination.
LEMMA FiveKept ==
  ASSUME NEW i \in 1..7, NEW j \in 1..7, i < j
  PROVE  \E x \in Combinations : \A m \in 1..7 : (\E k \in 1..5 : x[k] = m) <=> m # i /\ m # j
<1> DEFINE f(k) == IF k < i THEN k ELSE IF k + 1 < j THEN k + 1 ELSE k + 2
           x == [k \in 1..5 |-> f(k)]
<1>1. x \in [1..5 -> 1..7]
  OBVIOUS
<1>2. x[1] = f(1) /\ x[2] = f(2) /\ x[3] = f(3) /\ x[4] = f(4) /\ x[5] = f(5)
  OBVIOUS
<1> HIDE DEF x
<1>3. x \in Combinations
  <2>1. 1 <= x[1] /\ x[1] < x[2] /\ x[2] < x[3] /\ x[3] < x[4] /\ x[4] < x[5] /\ x[5] <= 7
    BY <1>2
  <2> QED
    BY <1>1, <2>1, CombinationType
<1>4. \A m \in 1..7 : (\E k \in 1..5 : x[k] = m)
                        <=> x[1] = m \/ x[2] = m \/ x[3] = m \/ x[4] = m \/ x[5] = m
  OBVIOUS
<1>5. \A m \in 1..7 : x[1] = m \/ x[2] = m \/ x[3] = m \/ x[4] = m \/ x[5] = m <=> m # i /\ m # j
  BY <1>2
<1> QED
  BY <1>3, <1>4, <1>5

\* The combinations are all the ways to leave out two of the seven cards.
LEMMA FivesAreCombinations ==
  ASSUME NEW p, SevenCards(p)
  PROVE  \A five : five \in Fives(p) <=> \E x \in Combinations : five = Range(HandAt(p, x))
<1> DEFINE pool == Pool(p)
           cards == Range(pool)
<1>1. pool \in [1..7 -> 0..51] /\ \A i, j \in 1..7 : pool[i] = pool[j] => i = j
  BY Fun_InjectionProperties DEF SevenCards
<1>2. \A c : c \in cards <=> \E m \in 1..7 : pool[m] = c
  BY <1>1 DEF Range
<1>3. ASSUME NEW x \in Combinations
      PROVE  \A c : c \in Range(HandAt(p, x)) <=> \E k \in 1..5 : pool[x[k]] = c
  <2>1. HandAt(p, x) = [k \in 1..5 |-> pool[x[k]]]
    BY DEF HandAt
  <2> QED
    BY <2>1 DEF Range
<1>4. ASSUME NEW five
      PROVE  five \in Fives(p)
               <=> \E c, d \in cards : c < d /\ five = cards \ {c, d}
  <2>1. ASSUME five \in Fives(p) PROVE \E c, d \in cards : c < d /\ five = cards \ {c, d}
    <3>1. PICK e \in cards \X cards : e[1] < e[2] /\ five = cards \ {e[1], e[2]}
      BY <2>1 DEF Fives
    <3> QED
      BY <3>1
  <2>2. ASSUME NEW c \in cards, NEW d \in cards, c < d, five = cards \ {c, d}
        PROVE  five \in Fives(p)
    <3>1. <<c, d>> \in {e \in cards \X cards : e[1] < e[2]}
      BY <2>2
    <3>2. five = cards \ {<<c, d>>[1], <<c, d>>[2]}
      BY <2>2
    <3> QED
      BY <3>1, <3>2 DEF Fives
  <2> QED
    BY <2>1, <2>2
<1> HIDE DEF pool, cards
<1>5. ASSUME NEW x \in Combinations, NEW i \in 1..7, NEW j \in 1..7,
             \A m \in 1..7 : (\E k \in 1..5 : x[k] = m) <=> m # i /\ m # j
      PROVE  Range(HandAt(p, x)) = cards \ {pool[i], pool[j]}
  <2>1. \A k \in 1..5 : x[k] \in 1..7
    BY DEF Combinations
  <2>2. ASSUME NEW c PROVE c \in Range(HandAt(p, x)) <=> \E m \in 1..7 : pool[m] = c /\ m # i /\ m # j
    BY <1>3, <1>5, <2>1
  <2>3. ASSUME NEW c PROVE c \in cards \ {pool[i], pool[j]} <=> \E m \in 1..7 : pool[m] = c /\ m # i /\ m # j
    BY <1>1, <1>2
  <2> QED
    BY <2>2, <2>3
<1>6. ASSUME NEW x \in Combinations PROVE Range(HandAt(p, x)) \in Fives(p)
  <2>1. PICK i \in 1..7, j \in 1..7 :
          i < j /\ \A m \in 1..7 : (\E k \in 1..5 : x[k] = m) <=> m # i /\ m # j
    BY TwoLeftOut
  <2>2. Range(HandAt(p, x)) = cards \ {pool[i], pool[j]}
    BY <1>5, <2>1
  <2>3. /\ pool[i] \in cards /\ pool[j] \in cards
        /\ pool[i] < pool[j] \/ pool[j] < pool[i]
    BY <1>1, <1>2, <2>1
  <2>4. cards \ {pool[i], pool[j]} = cards \ {pool[j], pool[i]}
    OBVIOUS
  <2> QED
    BY <1>4, <2>2, <2>3, <2>4
<1>7. ASSUME NEW five, five \in Fives(p) PROVE \E x \in Combinations : five = Range(HandAt(p, x))
  <2>1. PICK c \in cards, d \in cards : c < d /\ five = cards \ {c, d}
    BY <1>4, <1>7
  <2>2. PICK i \in 1..7, j \in 1..7 : pool[i] = c /\ pool[j] = d
    BY <1>2, <2>1
  <2>3. i < j \/ j < i
    BY <1>1, <2>1, <2>2
  <2>4. PICK x \in Combinations : \A m \in 1..7 : (\E k \in 1..5 : x[k] = m) <=> m # i /\ m # j
    <3>1. CASE i < j
      BY <3>1, FiveKept
    <3>2. CASE j < i
      <4>1. PICK x \in Combinations : \A m \in 1..7 : (\E k \in 1..5 : x[k] = m) <=> m # j /\ m # i
        BY <3>2, FiveKept
      <4> QED
        BY <4>1
    <3> QED
      BY <2>3, <3>1, <3>2
  <2>5. Range(HandAt(p, x)) = cards \ {pool[i], pool[j]}
    BY <1>5, <2>4
  <2> QED
    BY <2>1, <2>2, <2>5
<1> QED
  BY <1>6, <1>7

-----------------------------------------------------------------------------
(***************************************************************************)
(* The loops: bestHand over the combinations, potWinners over the players. *)
(***************************************************************************)

\* The result of bestHand for the combination x of p.
ResultAt(p, x) == [rank |-> RankAt(p, x), five |-> HandAt(p, x)]

\* e is the best of p's combinations.
Evaluated(p, e) ==
  \E x \in Combinations : e = ResultAt(p, x) /\ \A y \in Combinations : RankAt(p, y) <= e.rank

\* The cards of the hand, and what the variables of the loops may be.
LoopTypes ==
  /\ \A p \in Holders : hole[p] # <<>> => SevenCards(p)
  /\ current \in 1..(Len(Players) + 1)
  /\ idx \in Combinations
  /\ evals \in [Holders -> [rank : Int, five : FiveCards \cup {<<>>}]]
  /\ eligible \in Seq(Holders)
  /\ judged \in 0..(Len(eligible) + 1)
  /\ winners \in Seq(Holders)
  /\ current <= Len(Players) => judged = 0 /\ eligible = <<>> /\ winners = <<>>

\* No combination of the current player has been evaluated.
Fresh == best = NoHand /\ idx = <<1, 2, 3, 4, 5>>

\* best is the best of the combinations before idx.
Searching ==
  current <= Len(Players) =>
    /\ hole[Players[current]] = <<>> => Fresh
    /\ best # NoHand => \E x \in Combinations : best = ResultAt(Players[current], x)
    /\ \A x \in Combinations :
         LexAbove(idx, x) => best # NoHand /\ RankAt(Players[current], x) <= best.rank

\* p has had a turn in the evaluation.
Seen(p) == \E k \in 1..Len(Players) : k < current /\ Players[k] = p

\* Exactly the players who have had a turn and hold cards have their best hand.
Found ==
  \A p \in Holders :
    /\ Seen(p) /\ hole[p] # <<>> => Evaluated(p, evals[p])
    /\ ~(Seen(p) /\ hole[p] # <<>>) => evals[p] = NoHand

\* The evaluated players whom potWinners has compared.
Compared == {q \in Holders : evals[q] # NoHand /\ \E j \in 1..(judged - 1) : eligible[j] = q}

\* q is one of them, and none of them has a higher number.
Leads(q) == q \in Compared /\ \A r \in Compared : evals[r].rank <= evals[q].rank

\* The winners so far are the best of the players compared.
Leading ==
  judged > 0 =>
    /\ Compared # {} => winners # <<>>
    /\ \A q : q \in Range(winners) <=> Leads(q)

\* The evaluated players on the list.
Rated == {q \in Range(eligible) : evals[q] # NoHand}

\* The first listed player in ActionOrder, if there is one.
FirstListed ==
  {Players[k] : k \in {m \in ListedPlayers : \A j \in ListedPlayers : m <= j}}

\* When a pot has been awarded, its winners are the best of the players on its list.
Decided ==
  judged = 0 =>
    /\ Rated # {} =>
         \A q : q \in Range(winners)
                  <=> q \in Rated /\ \A r \in Rated : evals[r].rank <= evals[q].rank
    /\ Rated = {} => Range(winners) = FirstListed

\* The inductive invariant.
LoopInv == LoopTypes /\ Searching /\ Found /\ Leading /\ Decided

\* nonFolded as a sequence.
LEMMA PlayerFacts ==
  /\ Len(Players) \in Nat /\ Len(Players) >= 1
  /\ \A k \in 1..Len(Players) : Players[k] \in Range(Players) /\ Players[k] \in Holders
  /\ \A p \in Range(Players) : p \in Holders /\ \E k \in 1..Len(Players) : Players[k] = p
<1>1. Players \in Seq(Holders) /\ Players # <<>>
  BY ShowdownAssumption
<1>2. Len(Players) \in Nat /\ Players \in [1..Len(Players) -> Holders]
  BY <1>1, LenProperties
<1>3. Len(Players) # 0
  BY <1>1, EmptySeq
<1> QED
  BY <1>2, <1>3 DEF Range

\* A function of the first numbers is a sequence.
LEMMA FunctionIsSeq ==
  ASSUME NEW S, NEW n \in Nat, NEW f \in [1..n -> S]
  PROVE  f \in Seq(S)
BY SeqDef

\* append(pool, c1, c2) and append(pool, board...): what stands where.
LEMMA PoolParts ==
  ASSUME NEW p, NEW S, hole[p] \in Seq(S), Len(hole[p]) = 2, board \in Seq(S), Len(board) = 5
  PROVE  /\ Pool(p) \in Seq(S) /\ Len(Pool(p)) = 7
         /\ \A m \in 1..7 : Pool(p)[m] = IF m <= 2 THEN hole[p][m] ELSE board[m - 2]
<1>1. /\ hole[p] \o board \in Seq(S)
      /\ Len(hole[p] \o board) = Len(hole[p]) + Len(board)
      /\ \A m \in 1..(Len(hole[p]) + Len(board)) :
           (hole[p] \o board)[m] = IF m <= Len(hole[p]) THEN hole[p][m] ELSE board[m - Len(hole[p])]
  BY ConcatProperties
<1>2. Len(hole[p]) + Len(board) = 7
  OBVIOUS
<1> QED
  BY <1>1, <1>2 DEF Pool

\* Two cards of a player and five on the board, all different, make seven.
LEMMA PoolOfSeven ==
  ASSUME NEW p, NEW c \in 0..51, NEW d \in 0..51, c # d, hole[p] = <<c, d>>,
         board \in Injection(1..5, 0..51), c \notin Range(board), d \notin Range(board)
  PROVE  SevenCards(p)
<1>1. board \in [1..5 -> 0..51] /\ \A i, j \in 1..5 : board[i] = board[j] => i = j
  BY Fun_InjectionProperties
<1>2. board \in Seq(0..51) /\ Len(board) = 5
  <2>1. board \in Seq(0..51)
    BY <1>1, FunctionIsSeq
  <2>2. Len(board) \in Nat /\ DOMAIN board = 1..Len(board) /\ DOMAIN board = 1..5
    BY <1>1, <2>1, LenProperties
  <2>3. ASSUME NEW n \in Nat, 1..n = 1..5 PROVE n = 5
    <3>1. 5 \in 1..n /\ 6 \notin 1..n
      BY <2>3
    <3> QED
      BY <3>1
  <2> QED
    BY <2>1, <2>2, <2>3
<1>3. hole[p] \in Seq(0..51) /\ Len(hole[p]) = 2 /\ hole[p][1] = c /\ hole[p][2] = d
  OBVIOUS
<1>4. \A i \in 1..5 : board[i] # c /\ board[i] # d
  BY <1>1 DEF Range
<1> DEFINE pool == Pool(p)
<1>5. /\ pool \in Seq(0..51) /\ Len(pool) = 7
      /\ \A m \in 1..7 : pool[m] = IF m <= 2 THEN hole[p][m] ELSE board[m - 2]
  <2> DEFINE S == 0..51
  <2>1. hole[p] \in Seq(S) /\ Len(hole[p]) = 2 /\ board \in Seq(S) /\ Len(board) = 5
    BY <1>2, <1>3
  <2> HIDE DEF S
  <2>2. /\ pool \in Seq(S) /\ Len(pool) = 7
        /\ \A m \in 1..7 : pool[m] = IF m <= 2 THEN hole[p][m] ELSE board[m - 2]
    BY <2>1, PoolParts
  <2> QED
    BY <2>2 DEF S
<1> HIDE DEF pool
<1>6. pool \in [1..7 -> 0..51]
  BY <1>5, LenProperties
<1>7. ASSUME NEW i \in 1..7, NEW j \in 1..7, pool[i] = pool[j] PROVE i = j
  <2>1. CASE i <= 2 /\ j <= 2
    BY <1>3, <1>5, <1>7, <2>1
  <2>2. CASE i <= 2 /\ j > 2
    <3>1. pool[i] \in {c, d} /\ pool[j] = board[j - 2] /\ j - 2 \in 1..5
      BY <1>3, <1>5, <2>2
    <3> QED
      BY <1>4, <1>7, <3>1
  <2>3. CASE i > 2 /\ j <= 2
    <3>1. pool[j] \in {c, d} /\ pool[i] = board[i - 2] /\ i - 2 \in 1..5
      BY <1>3, <1>5, <2>3
    <3> QED
      BY <1>4, <1>7, <3>1
  <2>4. CASE i > 2 /\ j > 2
    <3>1. pool[j] = board[j - 2] /\ j - 2 \in 1..5 /\ pool[i] = board[i - 2] /\ i - 2 \in 1..5
      BY <1>5, <2>4
    <3>2. i - 2 = j - 2
      BY <1>1, <1>7, <3>1
    <3> QED
      BY <3>2
  <2> QED
    BY <2>1, <2>2, <2>3, <2>4
<1>8. pool \in Injection(1..7, 0..51)
  BY <1>6, <1>7, Fun_IsInj
<1> QED
  BY <1>5, <1>8 DEF SevenCards, pool

\* The number of a combination is a natural number, so its result is no NoHand.
LEMMA ResultFacts ==
  ASSUME NEW p, SevenCards(p), NEW x \in Combinations
  PROVE  /\ RankAt(p, x) \in Nat
         /\ ResultAt(p, x).rank = RankAt(p, x) /\ ResultAt(p, x).five = HandAt(p, x)
         /\ ResultAt(p, x) # NoHand
         /\ ResultAt(p, x) \in [rank : Int, five : FiveCards \cup {<<>>}]
<1>1. HandAt(p, x) \in FiveCards
  BY HandAtType
<1>2. RankAt(p, x) \in Nat
  BY <1>1, EvalOrdersHands DEF RankAt
<1> QED
  BY <1>1, <1>2 DEF ResultAt, NoHand

\* Without a list nobody wins.
LEMMA NobodyListed ==
  ASSUME eligible = <<>>, winners = <<>>
  PROVE  Decided
<1>1. Range(eligible) = {} /\ Range(winners) = {}
  BY DEF Range
<1>2. ListedPlayers = {}
  BY <1>1 DEF ListedPlayers
<1>3. Rated = {}
  BY <1>1 DEF Rated
<1>4. FirstListed = {}
  BY <1>2 DEF FirstListed
<1> QED
  BY <1>1, <1>3, <1>4 DEF Decided

\* A step that leaves no list leaves no winners.
LEMMA NobodyListedNext ==
  ASSUME eligible' = <<>>, winners' = <<>>
  PROVE  Decided'
<1>1. Range(eligible') = {} /\ Range(winners') = {}
  BY DEF Range
<1>2. ListedPlayers' = {}
  BY <1>1 DEF ListedPlayers
<1>3. Rated' = {}
  BY <1>1 DEF Rated
<1>4. FirstListed' = {}
  BY <1>2 DEF FirstListed
<1> QED
  BY <1>1, <1>3, <1>4 DEF Decided

\* Before a player's first combination nothing has to be known of it.
LEMMA FreshSearch ==
  ASSUME Fresh
  PROVE  Searching
<1>1. idx = <<1, 2, 3, 4, 5>> /\ best = NoHand
  BY DEF Fresh
<1> QED
  BY <1>1, FirstCombination DEF Searching, Fresh

\* A step to a player's first combination.
LEMMA FreshSearchNext ==
  ASSUME idx' = <<1, 2, 3, 4, 5>>, best' = NoHand
  PROVE  Searching'
BY FirstCombination DEF Searching, Fresh

\* The hand begins with nothing evaluated.
LEMMA LoopInit == Init => LoopInv
<1> SUFFICES ASSUME Init PROVE LoopInv
  OBVIOUS
<1>1. PICK l \in Layouts :
        /\ board = l.board
        /\ hole \in [Holders -> {<<>>} \cup {<<c, d>> : c, d \in l.spare}]
        /\ \A p \in Holders : hole[p] # <<>> => hole[p][1] < hole[p][2]
  BY DEF Init
<1>2. /\ current = 1 /\ idx = <<1, 2, 3, 4, 5>> /\ best = NoHand
      /\ judged = 0 /\ winners = <<>> /\ eligible = <<>>
      /\ evals = [p \in Holders |-> NoHand]
  BY DEF Init
<1>3. /\ l.board \in Injection(1..5, 0..51)
      /\ l.spare \subseteq (0..51) \ Range(l.board)
  BY ShowdownAssumption
<1>4. ASSUME NEW p \in Holders, hole[p] # <<>> PROVE SevenCards(p)
  <2>1. PICK c \in l.spare, d \in l.spare : hole[p] = <<c, d>>
    <3>1. hole[p] \in {<<>>} \cup {<<c, d>> : c, d \in l.spare}
      BY <1>1
    <3>2. hole[p] \in {<<c, d>> : c, d \in l.spare}
      BY <1>4, <3>1
    <3> QED
      BY <3>2
  <2>2. hole[p][1] < hole[p][2]
    BY <1>1, <1>4
  <2>3. c < d
    BY <2>1, <2>2
  <2>4. /\ c \in 0..51 /\ d \in 0..51 /\ c # d
        /\ board \in Injection(1..5, 0..51) /\ c \notin Range(board) /\ d \notin Range(board)
    <3>1. board = l.board
      BY <1>1
    <3>2. c \in (0..51) \ Range(l.board) /\ d \in (0..51) \ Range(l.board)
      BY <1>3
    <3> QED
      BY <1>3, <2>3, <3>1, <3>2
  <2> QED
    BY <2>1, <2>4, PoolOfSeven
<1>5. LoopTypes
  <2>1. evals \in [Holders -> [rank : Int, five : FiveCards \cup {<<>>}]]
    BY <1>2 DEF NoHand
  <2>2. current \in 1..(Len(Players) + 1)
    BY <1>2, PlayerFacts
  <2>3. eligible \in Seq(Holders) /\ Len(eligible) = 0 /\ winners \in Seq(Holders)
    BY <1>2, EmptySeq
  <2>4. judged \in 0..(Len(eligible) + 1)
    BY <1>2, <2>3
  <2> QED
    BY <1>2, <1>4, <2>1, <2>2, <2>3, <2>4, FirstCombination DEF LoopTypes
<1>6. Searching
  BY <1>2, FreshSearch DEF Fresh
<1>7. Found
  BY <1>2, PlayerFacts DEF Found, Seen
<1>8. Leading /\ Decided
  BY <1>2, NobodyListed DEF Leading
<1> QED
  BY <1>5, <1>6, <1>7, <1>8 DEF LoopInv

\* While the cards stay, every combination keeps its hand and its number.
LEMMA CardsStay ==
  ASSUME UNCHANGED <<board, hole>>
  PROVE  /\ \A p : SevenCards(p) <=> SevenCards(p)'
         /\ \A p, x : HandAt(p, x)' = HandAt(p, x)
         /\ \A p, x : RankAt(p, x)' = RankAt(p, x)
         /\ \A p, x : ResultAt(p, x)' = ResultAt(p, x)
         /\ \A p, e : Evaluated(p, e) <=> Evaluated(p, e)'
<1>1. \A p : Pool(p)' = Pool(p)
  BY DEF Pool
<1>2. \A p : SevenCards(p) <=> SevenCards(p)'
  BY <1>1 DEF SevenCards
<1>3. \A p, x : HandAt(p, x)' = HandAt(p, x)
  BY <1>1 DEF HandAt
<1>4. \A p, x : RankAt(p, x)' = RankAt(p, x)
  BY <1>3 DEF RankAt
<1>5. \A p, x : ResultAt(p, x)' = ResultAt(p, x)
  BY <1>3, <1>4 DEF ResultAt
<1>6. \A p, e : Evaluated(p, e) <=> Evaluated(p, e)'
  BY <1>4, <1>5 DEF Evaluated
<1> QED
  BY <1>2, <1>3, <1>4, <1>5, <1>6

\* A turn of bestHand: the better of best and the combination at idx is the best of the
\* combinations up to idx.
LEMMA BetterOf ==
  ASSUME LoopInv, current <= Len(Players), hole[Players[current]] # <<>>, NEW better,
         better = IF best = NoHand \/ RankAt(Players[current], idx) > best.rank
                  THEN ResultAt(Players[current], idx) ELSE best
  PROVE  /\ \E x \in Combinations : better = ResultAt(Players[current], x)
         /\ better # NoHand
         /\ \A x \in Combinations :
              x = idx \/ LexAbove(idx, x) => RankAt(Players[current], x) <= better.rank
<1> DEFINE p == Players[current]
<1>1. SevenCards(p) /\ idx \in Combinations
  <2>1. current \in 1..Len(Players) /\ p \in Holders
    BY PlayerFacts DEF LoopInv, LoopTypes
  <2> QED
    BY <2>1 DEF LoopInv, LoopTypes
<1>2. \A x \in Combinations : /\ RankAt(p, x) \in Nat
                              /\ ResultAt(p, x).rank = RankAt(p, x)
                              /\ ResultAt(p, x) # NoHand
  BY <1>1, ResultFacts
<1>3. /\ best # NoHand => \E x \in Combinations : best = ResultAt(p, x)
      /\ \A x \in Combinations : LexAbove(idx, x) => best # NoHand /\ RankAt(p, x) <= best.rank
  BY DEF LoopInv, Searching
<1> HIDE DEF p
<1>4. better = IF best = NoHand \/ RankAt(p, idx) > best.rank THEN ResultAt(p, idx) ELSE best
  BY DEF p
<1>5. CASE best = NoHand \/ RankAt(p, idx) > best.rank
  <2>1. better = ResultAt(p, idx)
    BY <1>4, <1>5
  <2>2. ASSUME NEW x \in Combinations, LexAbove(idx, x) PROVE RankAt(p, x) <= better.rank
    <3>1. best # NoHand /\ RankAt(p, x) <= best.rank
      BY <1>3, <2>2
    <3>2. best.rank \in Nat /\ RankAt(p, idx) > best.rank
      BY <1>2, <1>3, <1>5, <3>1
    <3> QED
      BY <1>1, <1>2, <2>1, <3>1, <3>2
  <2> QED
    BY <1>1, <1>2, <2>1, <2>2 DEF p
<1>6. CASE ~(best = NoHand \/ RankAt(p, idx) > best.rank)
  <2>1. better = best /\ best # NoHand /\ ~(RankAt(p, idx) > best.rank)
    BY <1>4, <1>6
  <2>2. best.rank \in Nat
    BY <1>2, <1>3, <2>1
  <2>3. RankAt(p, idx) <= best.rank
    BY <1>1, <1>2, <2>1, <2>2
  <2> QED
    BY <1>3, <2>1, <2>3 DEF p
<1> QED
  BY <1>5, <1>6

\* A turn of bestHand keeps the invariant.
LEMMA BestHandKeeps == LoopInv /\ BestHand => LoopInv'
<1> SUFFICES ASSUME LoopInv, BestHand PROVE LoopInv'
  OBVIOUS
<1> DEFINE p == Players[current]
           better == IF best = NoHand \/ RankAt(p, idx) > best.rank THEN ResultAt(p, idx) ELSE best
<1>1. /\ current \in 1..Len(Players) /\ p \in Holders /\ hole[p] # <<>>
      /\ judged = 0 /\ eligible = <<>> /\ winners = <<>>
  BY PlayerFacts DEF LoopInv, LoopTypes, BestHand
<1>2. SevenCards(p) /\ Len(Pool(p)) = 7 /\ idx \in Combinations
  BY <1>1 DEF LoopInv, LoopTypes, SevenCards
<1>3. /\ \E x \in Combinations : better = ResultAt(p, x)
      /\ better # NoHand
      /\ \A x \in Combinations : x = idx \/ LexAbove(idx, x) => RankAt(p, x) <= better.rank
  BY <1>1, BetterOf
<1>4. /\ \/ /\ MovablePositions(7) # {}
            /\ idx' = NextCombination(7)
            /\ best' = better
            /\ UNCHANGED <<current, evals>>
         \/ /\ MovablePositions(7) = {}
            /\ evals' = [evals EXCEPT ![p] = better]
            /\ current' = current + 1
            /\ idx' = <<1, 2, 3, 4, 5>>
            /\ best' = NoHand
      /\ UNCHANGED <<board, hole, eligible, judged, winners>>
  BY <1>2 DEF BestHand, RankAt, ResultAt, HandAt, cardVars
<1> HIDE DEF better
<1>5. /\ \A q : SevenCards(q) <=> SevenCards(q)'
      /\ \A q, x : RankAt(q, x)' = RankAt(q, x)
      /\ \A q, x : ResultAt(q, x)' = ResultAt(q, x)
  BY <1>4, CardsStay
<1>6. \A q \in Holders : hole'[q] # <<>> => SevenCards(q)'
  BY <1>4, <1>5 DEF LoopInv, LoopTypes
<1>7. Leading' /\ Decided'
  <2>1. eligible' = <<>> /\ winners' = <<>> /\ judged' = 0
    BY <1>1, <1>4
  <2>2. Decided'
    BY <2>1, NobodyListedNext
  <2> QED
    BY <2>1, <2>2 DEF Leading
<1>8. CASE MovablePositions(7) # {} /\ idx' = NextCombination(7) /\ best' = better
           /\ UNCHANGED <<current, evals>>
  <2>1. /\ idx' \in Combinations
        /\ \A x \in Combinations : LexAbove(idx', x) => x = idx \/ LexAbove(idx, x)
    BY <1>2, <1>8, NextCombinationFollows
  <2>2. LoopTypes'
    BY <1>4, <1>6, <1>8, <2>1 DEF LoopInv, LoopTypes
  <2>3. Searching'
    BY <1>1, <1>3, <1>4, <1>5, <1>8, <2>1 DEF Searching
  <2>4. Found'
    BY <1>4, <1>5, <1>8 DEF LoopInv, Found, Seen, Evaluated
  <2> QED
    BY <1>7, <2>2, <2>3, <2>4 DEF LoopInv
<1>9. CASE /\ MovablePositions(7) = {} /\ evals' = [evals EXCEPT ![p] = better]
           /\ current' = current + 1 /\ idx' = <<1, 2, 3, 4, 5>> /\ best' = NoHand
  <2>1. \A x \in Combinations : RankAt(p, x) <= better.rank
    BY <1>2, <1>3, <1>9, LastCombination
  <2>2. better \in [rank : Int, five : FiveCards \cup {<<>>}]
    BY <1>2, <1>3, ResultFacts
  <2>3. /\ evals' \in [Holders -> [rank : Int, five : FiveCards \cup {<<>>}]]
        /\ evals'[p] = better
        /\ \A q \in Holders : q # p => evals'[q] = evals[q]
    <3>1. evals \in [Holders -> [rank : Int, five : FiveCards \cup {<<>>}]]
      BY DEF LoopInv, LoopTypes
    <3> HIDE DEF p
    <3> QED
      BY <1>1, <1>9, <2>2, <3>1
  <2>4. LoopTypes'
    <3>1. current' \in 1..(Len(Players) + 1)
      BY <1>1, <1>9, PlayerFacts
    <3>2. judged' \in 0..(Len(eligible') + 1) /\ judged' = 0 /\ eligible' = <<>> /\ winners' = <<>>
      BY <1>1, <1>4, EmptySeq
    <3> QED
      BY <1>4, <1>6, <1>9, <2>3, <3>1, <3>2, FirstCombination DEF LoopInv, LoopTypes
  <2>5. Searching'
    BY <1>9, FreshSearchNext
  <2>6. Found'
    <3>1. \A q : Seen(q)' <=> Seen(q) \/ q = p
      BY <1>1, <1>9, PlayerFacts DEF Seen
    <3> SUFFICES ASSUME NEW q \in Holders
                 PROVE  /\ Seen(q)' /\ hole'[q] # <<>> =>
                             \E x \in Combinations :
                               /\ evals'[q] = ResultAt(q, x)
                               /\ \A y \in Combinations : RankAt(q, y) <= evals'[q].rank
                        /\ ~(Seen(q)' /\ hole'[q] # <<>>) => evals'[q] = NoHand
      BY <1>5 DEF Found, Evaluated
    <3>2. CASE q = p
      BY <1>1, <1>3, <1>4, <2>1, <2>3, <3>1, <3>2
    <3>3. CASE q # p
      <4>1. /\ evals'[q] = evals[q] /\ hole'[q] = hole[q] /\ (Seen(q)' <=> Seen(q))
        BY <1>4, <2>3, <3>1, <3>3
      <4>2. /\ Seen(q) /\ hole[q] # <<>> => Evaluated(q, evals[q])
            /\ ~(Seen(q) /\ hole[q] # <<>>) => evals[q] = NoHand
        BY DEF LoopInv, Found
      <4> QED
        BY <4>1, <4>2 DEF Evaluated
    <3> QED
      BY <3>2, <3>3
  <2> QED
    BY <1>7, <2>4, <2>5, <2>6 DEF LoopInv
<1> QED
  BY <1>4, <1>8, <1>9

\* Passing over a player without cards keeps the invariant.
LEMMA SkipPlayerKeeps == LoopInv /\ SkipPlayer => LoopInv'
<1> SUFFICES ASSUME LoopInv, SkipPlayer PROVE LoopInv'
  OBVIOUS
<1>1. /\ current \in 1..Len(Players) /\ hole[Players[current]] = <<>> /\ current' = current + 1
      /\ UNCHANGED <<board, hole, idx, best, evals, eligible, judged, winners>>
      /\ judged = 0 /\ eligible = <<>> /\ winners = <<>>
  BY PlayerFacts DEF LoopInv, LoopTypes, SkipPlayer, cardVars
<1>2. /\ \A q : SevenCards(q) <=> SevenCards(q)'
      /\ \A q, e : Evaluated(q, e) <=> Evaluated(q, e)'
      /\ \A q, x : RankAt(q, x)' = RankAt(q, x)
      /\ \A q, x : ResultAt(q, x)' = ResultAt(q, x)
  BY <1>1, CardsStay
<1>3. LoopTypes'
  <2>1. current' \in 1..(Len(Players) + 1)
    BY <1>1, PlayerFacts
  <2>2. \A q \in Holders : hole'[q] # <<>> => SevenCards(q)'
    BY <1>1, <1>2 DEF LoopInv, LoopTypes
  <2> QED
    BY <1>1, <2>1, <2>2 DEF LoopInv, LoopTypes
<1>4. Searching'
  <2>1. idx' = <<1, 2, 3, 4, 5>> /\ best' = NoHand
    BY <1>1 DEF LoopInv, Searching, Fresh
  <2> QED
    BY <2>1, FreshSearchNext
<1>5. Found'
  <2>1. \A q : Seen(q)' <=> Seen(q) \/ q = Players[current]
    BY <1>1, PlayerFacts DEF Seen
  <2>2. \A q : Seen(q)' /\ hole'[q] # <<>> <=> Seen(q) /\ hole[q] # <<>>
    BY <1>1, <2>1
  <2> QED
    BY <1>1, <1>2, <2>2 DEF LoopInv, Found, Evaluated
<1>6. Leading' /\ Decided'
  <2>1. eligible' = <<>> /\ winners' = <<>> /\ judged' = 0
    BY <1>1
  <2>2. Decided'
    BY <2>1, NobodyListedNext
  <2> QED
    BY <2>1, <2>2 DEF Leading
<1> QED
  BY <1>3, <1>4, <1>5, <1>6 DEF LoopInv

\* The elements of the list of winners when it starts over and when it grows.
LEMMA WinnersRange ==
  ASSUME NEW S, NEW p \in S, NEW ws \in Seq(S)
  PROVE  /\ <<p>> \in Seq(S) /\ <<p>> # <<>> /\ Range(<<p>>) = {p}
         /\ Append(ws, p) \in Seq(S) /\ Append(ws, p) # <<>>
         /\ Range(Append(ws, p)) = Range(ws) \cup {p}
         /\ ws # <<>> => ws[1] \in Range(ws)
<1>1. <<p>> \in Seq(S) /\ <<p>> # <<>> /\ Range(<<p>>) = {p}
  BY DEF Range
<1>2. /\ Append(ws, p) \in Seq(S) /\ Append(ws, p) # <<>>
      /\ Len(Append(ws, p)) = Len(ws) + 1
      /\ \A i \in 1..Len(ws) : Append(ws, p)[i] = ws[i]
      /\ Append(ws, p)[Len(ws) + 1] = p
  BY AppendProperties
<1>3. Len(ws) \in Nat /\ DOMAIN ws = 1..Len(ws) /\ DOMAIN Append(ws, p) = 1..(Len(ws) + 1)
  BY <1>2, LenProperties
<1>4. ASSUME NEW c PROVE c \in Range(Append(ws, p)) <=> c \in Range(ws) \cup {p}
  <2>1. c \in Range(Append(ws, p)) <=> \E i \in 1..(Len(ws) + 1) : Append(ws, p)[i] = c
    BY <1>3 DEF Range
  <2>2. c \in Range(ws) <=> \E i \in 1..Len(ws) : ws[i] = c
    BY <1>3 DEF Range
  <2>3. \A i \in 1..(Len(ws) + 1) : i \in 1..Len(ws) \/ i = Len(ws) + 1
    BY <1>3
  <2>4. (1..Len(ws)) \subseteq 1..(Len(ws) + 1) /\ Len(ws) + 1 \in 1..(Len(ws) + 1)
    BY <1>3
  <2> QED
    BY <1>2, <2>1, <2>2, <2>3, <2>4
<1>5. ws # <<>> => ws[1] \in Range(ws)
  <2>1. ws # <<>> => Len(ws) \in Nat \ {0}
    BY EmptySeq
  <2>2. ws # <<>> => 1 \in DOMAIN ws
    BY <1>3, <2>1
  <2> QED
    BY <2>2 DEF Range
<1> QED
  BY <1>1, <1>2, <1>4, <1>5

\* The first of a list is on it.
LEMMA NonEmptyRange ==
  ASSUME NEW S, NEW ws \in Seq(S), ws # <<>>
  PROVE  ws[1] \in Range(ws)
<1>1. Len(ws) \in Nat \ {0} /\ DOMAIN ws = 1..Len(ws)
  BY EmptySeq, LenProperties
<1>2. 1 \in DOMAIN ws
  BY <1>1
<1> QED
  BY <1>2 DEF Range

\* A player's hand has been evaluated exactly if there is a number for it.
LEMMA RatedFacts ==
  ASSUME LoopTypes, Found, NEW p \in Holders, evals[p] # NoHand
  PROVE  SevenCards(p) /\ Evaluated(p, evals[p]) /\ evals[p].rank \in Nat
<1>1. Seen(p) /\ hole[p] # <<>>
  BY DEF Found
<1>2. Evaluated(p, evals[p])
  BY <1>1 DEF Found
<1>3. PICK x \in Combinations : evals[p] = ResultAt(p, x)
  BY <1>2 DEF Evaluated
<1>4. SevenCards(p)
  BY <1>1 DEF LoopTypes
<1> QED
  BY <1>2, <1>3, <1>4, ResultFacts

\* The award of a pot changes nothing of the evaluation.
LEMMA EvaluationStays ==
  ASSUME LoopInv, UNCHANGED <<cardVars, evalVars>>, current > Len(Players),
         eligible' \in Seq(Holders), judged' \in 0..(Len(eligible') + 1),
         winners' \in Seq(Holders)
  PROVE  LoopTypes' /\ Searching' /\ Found'
<1>1. UNCHANGED <<board, hole, current, idx, best, evals>> /\ ~(current' <= Len(Players))
  BY PlayerFacts DEF cardVars, evalVars, LoopInv, LoopTypes
<1>2. /\ \A q : SevenCards(q) <=> SevenCards(q)'
      /\ \A q, e : Evaluated(q, e) <=> Evaluated(q, e)'
      /\ \A q, x : RankAt(q, x)' = RankAt(q, x)
      /\ \A q, x : ResultAt(q, x)' = ResultAt(q, x)
  BY <1>1, CardsStay
<1>3. LoopTypes'
  BY <1>1, <1>2 DEF LoopInv, LoopTypes
<1>4. Searching'
  BY <1>1 DEF Searching
<1>5. Found'
  BY <1>1, <1>2 DEF LoopInv, Found, Seen, Evaluated
<1> QED
  BY <1>3, <1>4, <1>5

\* The award of the next pot keeps the invariant.
LEMMA AwardPotKeeps ==
  ASSUME LoopInv, NEW eligibleIDs \in Seq(Holders), AwardPot(eligibleIDs)
  PROVE  LoopInv'
<1>1. /\ UNCHANGED <<cardVars, evalVars>> /\ current > Len(Players)
      /\ eligible' = eligibleIDs /\ judged' = 1 /\ winners' = <<>>
  BY DEF AwardPot
<1>2. LoopTypes' /\ Searching' /\ Found'
  <2>1. Len(eligible') \in Nat /\ winners' \in Seq(Holders)
    BY <1>1, LenProperties, EmptySeq
  <2>2. judged' \in 0..(Len(eligible') + 1)
    BY <1>1, <2>1
  <2> QED
    BY <1>1, <2>1, <2>2, EvaluationStays
<1>3. Leading'
  <2>1. Compared' = {}
    BY <1>1 DEF Compared
  <2>2. Range(winners') = {}
    BY <1>1 DEF Range
  <2>3. \A q : ~Leads(q)'
    BY <2>1 DEF Leads
  <2> QED
    BY <2>1, <2>2, <2>3 DEF Leading
<1>4. Decided'
  BY <1>1 DEF Decided
<1> QED
  BY <1>2, <1>3, <1>4 DEF LoopInv

\* A turn of potWinners keeps the invariant.
LEMMA PotWinnersKeeps == LoopInv /\ PotWinners => LoopInv'
<1> SUFFICES ASSUME LoopInv, PotWinners PROVE LoopInv'
  OBVIOUS
<1> DEFINE p == eligible[judged]
           n(q) == evals[q].rank
           C == Compared
<1>1. /\ judged \in 1..Len(eligible) /\ p \in Holders /\ current > Len(Players)
      /\ judged' = judged + 1 /\ UNCHANGED <<cardVars, evalVars, eligible>>
      /\ evals' = evals /\ Len(eligible) \in Nat
  <2>1. judged \in 1..Len(eligible) /\ Len(eligible) \in Nat /\ eligible \in [1..Len(eligible) -> Holders]
    BY LenProperties DEF LoopInv, LoopTypes, PotWinners
  <2>2. current > Len(Players)
    BY <2>1, PlayerFacts DEF LoopInv, LoopTypes
  <2> QED
    BY <2>1, <2>2 DEF PotWinners, evalVars
<1>2. \A q \in C : q \in Holders /\ n(q) \in Nat
  BY RatedFacts DEF LoopInv, Compared
<1>3. /\ \A q : q \in Range(winners) <=> Leads(q)
      /\ C # {} => winners # <<>>
  BY <1>1 DEF LoopInv, Leading
<1>4. winners \in Seq(Holders)
  BY DEF LoopInv, LoopTypes
<1>5. /\ <<p>> \in Seq(Holders) /\ <<p>> # <<>> /\ Range(<<p>>) = {p}
      /\ Append(winners, p) \in Seq(Holders) /\ Append(winners, p) # <<>>
      /\ Range(Append(winners, p)) = Range(winners) \cup {p}
      /\ winners # <<>> => winners[1] \in Range(winners)
  BY <1>1, <1>4, WinnersRange
<1>6. \A q : Leads(q) <=> q \in C /\ \A r \in C : n(r) <= n(q)
  BY DEF Leads
<1>7. Compared' = IF evals[p] = NoHand THEN C ELSE C \cup {p}
  <2>1. \A j : j \in 1..(judged' - 1) <=> j \in 1..(judged - 1) \/ j = judged
    BY <1>1
  <2>2. Compared' = {q \in Holders : evals[q] # NoHand /\ \E j \in 1..(judged' - 1) : eligible[j] = q}
    BY <1>1 DEF Compared
  <2>3. \A q : (\E j \in 1..(judged' - 1) : eligible[j] = q)
                 <=> (\E j \in 1..(judged - 1) : eligible[j] = q) \/ q = p
    BY <2>1
  <2> QED
    BY <1>1, <2>2, <2>3 DEF Compared
<1>8. \A q : Leads(q)' <=> q \in Compared' /\ \A r \in Compared' : n(r) <= n(q)
  BY <1>1 DEF Leads
<1> HIDE DEF p, n, C
<1>9. ASSUME Compared' # {} => winners' # <<>>, winners' \in Seq(Holders),
             \A q : q \in Range(winners') <=> Leads(q)'
      PROVE  LoopInv'
  <2>1. judged' \in 0..(Len(eligible') + 1) /\ judged' # 0 /\ eligible' \in Seq(Holders)
    BY <1>1 DEF LoopInv, LoopTypes
  <2>2. LoopTypes' /\ Searching' /\ Found'
    BY <1>1, <1>9, <2>1, EvaluationStays
  <2>3. Leading' /\ Decided'
    BY <1>9, <2>1 DEF Leading, Decided
  <2> QED
    BY <2>2, <2>3 DEF LoopInv
<1>10. CASE evals[p] = NoHand
  <2>1. winners' = winners
    BY <1>10 DEF PotWinners, p
  <2>2. Compared' = C
    BY <1>7, <1>10
  <2>3. \A q : Leads(q)' <=> Leads(q)
    BY <1>6, <1>8, <2>2
  <2> QED
    BY <1>3, <1>4, <1>9, <2>1, <2>2, <2>3
<1>11. CASE evals[p] # NoHand /\ winners = <<>>
  <2>1. C = {}
    BY <1>3, <1>11
  <2>2. winners' = <<p>>
    BY <1>11 DEF PotWinners, p
  <2>3. Compared' = {p}
    BY <1>7, <1>11, <2>1
  <2>4. n(p) \in Nat
    BY <1>1, <1>11, RatedFacts DEF LoopInv, n
  <2>5. \A q : Leads(q)' <=> q = p
    BY <1>8, <2>3, <2>4
  <2> QED
    BY <1>5, <1>9, <2>2, <2>3, <2>5
<1>12. CASE evals[p] # NoHand /\ winners # <<>>
  <2> DEFINE w == winners[1]
  <2>1. w \in C /\ \A r \in C : n(r) <= n(w)
    BY <1>3, <1>5, <1>6, <1>12
  <2>2. \/ n(p) > n(w) /\ winners' = <<p>>
        \/ n(p) = n(w) /\ winners' = Append(winners, p)
        \/ n(p) < n(w) /\ winners' = winners
    BY <1>12 DEF PotWinners, Joins, p, n
  <2>3. n(p) \in Nat
    BY <1>1, <1>12, RatedFacts DEF LoopInv, n
  <2>4. n(w) \in Nat
    BY <1>2, <2>1
  <2>5. Compared' = C \cup {p}
    BY <1>7, <1>12
  <2>6. \A q : Leads(q)' <=> /\ q \in C \/ q = p
                             /\ n(p) <= n(q) /\ \A r \in C : n(r) <= n(q)
    BY <1>8, <2>5
  <2> HIDE DEF w
  <2>7. CASE n(p) > n(w) /\ winners' = <<p>>
    <3>1. \A r \in C : n(r) <= n(p) /\ ~(n(p) <= n(r))
      BY <1>2, <2>1, <2>3, <2>4, <2>7
    <3>2. \A q : Leads(q)' <=> q = p
      BY <2>3, <2>6, <3>1
    <3> QED
      BY <1>5, <1>9, <2>7, <3>2
  <2>8. CASE n(p) = n(w) /\ winners' = Append(winners, p)
    <3>1. \A r \in C : n(r) <= n(p)
      BY <2>1, <2>8
    <3>2. \A q : Leads(q) => n(p) <= n(q)
      BY <1>6, <2>1, <2>8
    <3>3. n(p) <= n(p)
      BY <2>3
    <3>4. \A q : Leads(q)' <=> q = p \/ Leads(q)
      BY <1>6, <2>6, <3>1, <3>2, <3>3
    <3> QED
      BY <1>3, <1>5, <1>9, <2>8, <3>4
  <2>9. CASE n(p) < n(w) /\ winners' = winners
    <3>1. \A q \in C : n(w) <= n(q) => n(p) <= n(q)
      BY <1>2, <2>3, <2>4, <2>9
    <3>2. ~(n(w) <= n(p))
      BY <2>3, <2>4, <2>9
    <3>3. \A q : Leads(q)' <=> Leads(q)
      BY <1>6, <2>1, <2>6, <3>1, <3>2
    <3> QED
      BY <1>3, <1>4, <1>9, <1>12, <2>9, <3>3
  <2> QED
    BY <2>2, <2>7, <2>8, <2>9
<1> QED
  BY <1>10, <1>11, <1>12

\* The end of potWinners keeps the invariant.
LEMMA FirstEligibleKeeps == LoopInv /\ firstEligibleInOrder => LoopInv'
<1> SUFFICES ASSUME LoopInv, firstEligibleInOrder PROVE LoopInv'
  OBVIOUS
<1>1. /\ judged = Len(eligible) + 1 /\ judged' = 0
      /\ UNCHANGED <<cardVars, evalVars, eligible>> /\ evals' = evals
      /\ eligible \in Seq(Holders) /\ Len(eligible) \in Nat /\ DOMAIN eligible = 1..Len(eligible)
      /\ winners \in Seq(Holders)
  BY LenProperties DEF LoopInv, LoopTypes, firstEligibleInOrder, evalVars
<1>2. current > Len(Players)
  BY <1>1, PlayerFacts DEF LoopInv, LoopTypes
<1>3. Rated = Compared
  <2>1. 1..(judged - 1) = DOMAIN eligible
    BY <1>1
  <2>2. \A q \in Range(eligible) : q \in Holders
    BY <1>1 DEF Range
  <2>3. \A q : q \in Range(eligible) <=> \E j \in 1..(judged - 1) : eligible[j] = q
    BY <2>1 DEF Range
  <2> QED
    BY <2>2, <2>3 DEF Rated, Compared
<1>4. /\ Compared # {} => winners # <<>>
      /\ \A q : q \in Range(winners) <=> Leads(q)
  BY <1>1 DEF LoopInv, Leading
<1>5. /\ Rated' = Rated /\ ListedPlayers' = ListedPlayers
  BY <1>1 DEF Rated, ListedPlayers
<1>6. FirstListed' = FirstListed
  BY <1>5 DEF FirstListed
<1>7. ASSUME winners' \in Seq(Holders),
             Rated # {} => \A q : q \in Range(winners') <=> Leads(q),
             Rated = {} => Range(winners') = FirstListed
      PROVE  LoopInv'
  <2>1. judged' \in 0..(Len(eligible') + 1)
    BY <1>1
  <2>2. LoopTypes' /\ Searching' /\ Found'
    BY <1>1, <1>2, <1>7, <2>1, EvaluationStays
  <2>3. Leading'
    BY <1>1 DEF Leading
  <2>4. Decided'
    BY <1>1, <1>3, <1>5, <1>6, <1>7 DEF Decided, Leads
  <2> QED
    BY <2>2, <2>3, <2>4 DEF LoopInv
<1>8. Rated = {} => winners = <<>>
  <2>1. ASSUME winners # <<>> PROVE Rated # {}
    <3>1. winners[1] \in Range(winners)
      BY <1>1, <2>1, NonEmptyRange
    <3> QED
      BY <1>3, <1>4, <3>1 DEF Leads
  <2> QED
    BY <2>1
<1>9. CASE (winners # <<>> \/ ListedPlayers = {}) /\ winners' = winners
  <2>1. Rated = {} => Range(winners') = FirstListed
    <3>1. Rated = {} => winners = <<>> /\ ListedPlayers = {}
      BY <1>8, <1>9
    <3>2. ListedPlayers = {} => FirstListed = {}
      BY DEF FirstListed
    <3>3. winners = <<>> => Range(winners) = {}
      BY DEF Range
    <3> QED
      BY <1>9, <3>1, <3>2, <3>3
  <2> QED
    BY <1>1, <1>4, <1>7, <1>9, <2>1
<1>10. CASE /\ winners = <<>>
            /\ \E k \in ListedPlayers :
                 (\A j \in ListedPlayers : k <= j) /\ winners' = <<Players[k]>>
  <2>1. PICK k \in ListedPlayers : (\A j \in ListedPlayers : k <= j) /\ winners' = <<Players[k]>>
    BY <1>10
  <2>2. k \in 1..Len(Players) /\ Players[k] \in Holders
    BY PlayerFacts DEF ListedPlayers
  <2>3. \A m \in ListedPlayers : (\A j \in ListedPlayers : m <= j) <=> m = k
    <3>1. \A m \in ListedPlayers : m \in Int
      BY PlayerFacts DEF ListedPlayers
    <3> QED
      BY <2>1, <3>1
  <2>4. FirstListed = {Players[k]}
    BY <2>3 DEF FirstListed
  <2>5. winners' \in Seq(Holders) /\ Range(winners') = {Players[k]}
    BY <2>1, <2>2, WinnersRange, EmptySeq
  <2>6. Rated = {}
    BY <1>3, <1>4, <1>10
  <2> QED
    BY <1>7, <2>4, <2>5, <2>6
<1> QED
  BY <1>9, <1>10 DEF firstEligibleInOrder

\* Every step keeps the invariant.
LEMMA LoopStep == LoopInv /\ [Next]_vars => LoopInv'
<1>1. ASSUME LoopInv, UNCHANGED vars PROVE LoopInv'
  <2>1. UNCHANGED <<board, hole, current, idx, best, evals, eligible, judged, winners>>
    BY <1>1 DEF vars, cardVars, evalVars
  <2>2. /\ \A q : SevenCards(q) <=> SevenCards(q)'
        /\ \A q, e : Evaluated(q, e) <=> Evaluated(q, e)'
        /\ \A q, x : RankAt(q, x)' = RankAt(q, x)
        /\ \A q, x : ResultAt(q, x)' = ResultAt(q, x)
    BY <2>1, CardsStay
  <2>3. LoopTypes'
    BY <1>1, <2>1, <2>2 DEF LoopInv, LoopTypes
  <2>4. Searching'
    BY <1>1, <2>1, <2>2 DEF LoopInv, Searching, Fresh
  <2>5. Found'
    BY <1>1, <2>1, <2>2 DEF LoopInv, Found, Seen, Evaluated
  <2>6. Leading'
    BY <1>1, <2>1 DEF LoopInv, Leading, Leads, Compared
  <2>7. Decided'
    <3>1. Rated' = Rated /\ ListedPlayers' = ListedPlayers
      BY <2>1 DEF Rated, ListedPlayers
    <3>2. FirstListed' = FirstListed
      BY <3>1 DEF FirstListed
    <3> QED
      BY <1>1, <2>1, <3>1, <3>2 DEF LoopInv, Decided
  <2> QED
    BY <2>3, <2>4, <2>5, <2>6, <2>7 DEF LoopInv
<1> QED
  BY <1>1, BestHandKeeps, SkipPlayerKeeps, AwardPotKeeps, PotWinnersKeeps, FirstEligibleKeeps
  DEF Next

\* The loops keep their invariant for any number of players, cards and
\* lists of players.
THEOREM LoopsKeepInv == Spec => []LoopInv
<1> QED
  BY LoopInit, LoopStep, PTL DEF Spec

\* What the invariant says of a player whose hand has been evaluated.
LEMMA EvaluatedFacts ==
  ASSUME LoopInv, NEW p \in Holders, evals[p] # NoHand
  PROVE  /\ SevenCards(p) /\ Evaluated(p, evals[p])
         /\ evals[p].five \in FiveCards /\ evals[p].rank = eval5(evals[p].five)
         /\ HandOf(p) \in Fives(p)
<1>1. SevenCards(p) /\ Evaluated(p, evals[p])
  BY RatedFacts DEF LoopInv
<1>2. PICK x \in Combinations : evals[p] = ResultAt(p, x)
  BY <1>1 DEF Evaluated
<1>3. evals[p].rank = RankAt(p, x) /\ evals[p].five = HandAt(p, x)
  BY <1>1, <1>2, ResultFacts
<1>4. HandAt(p, x) \in FiveCards
  BY <1>1, HandAtType
<1>5. Range(HandAt(p, x)) \in Fives(p)
  BY <1>1, FivesAreCombinations
<1> QED
  BY <1>1, <1>3, <1>4, <1>5 DEF RankAt, HandOf

\* After the evaluation these are the players in ActionOrder who hold cards.
LEMMA WhoIsEvaluated ==
  ASSUME LoopInv, current > Len(Players), NEW p
  PROVE  p \in Holders /\ evals[p] # NoHand <=> p \in Range(Players) /\ hole[p] # <<>>
<1>1. p \in Holders => (Seen(p) <=> p \in Range(Players))
  BY PlayerFacts DEF Seen, LoopInv, LoopTypes
<1>2. p \in Range(Players) => p \in Holders
  BY PlayerFacts
<1>3. ASSUME p \in Holders, Seen(p), hole[p] # <<>> PROVE evals[p] # NoHand
  <2>1. PICK x \in Combinations : evals[p] = ResultAt(p, x)
    BY <1>3 DEF LoopInv, Found, Evaluated
  <2>2. SevenCards(p)
    BY <1>3 DEF LoopInv, LoopTypes
  <2> QED
    BY <2>1, <2>2, ResultFacts
<1>4. p \in Holders /\ ~(Seen(p) /\ hole[p] # <<>>) => evals[p] = NoHand
  BY DEF LoopInv, Found
<1> QED
  BY <1>1, <1>2, <1>3, <1>4

\* bestHand returns five of the player's seven cards that no other five of them beat by
\* the rules of the game: for all hands of the 52 cards and any number of players.
THEOREM BestHandCorrect == Spec => []BestHandIsBest
<1>1. LoopInv => BestHandIsBest
  <2> SUFFICES ASSUME LoopInv, judged = 1, NEW p \in Range(Players), hole[p] # <<>>
               PROVE  /\ HandOf(p) \in Fives(p)
                      /\ \A five \in Fives(p) : ~Beats(five, HandOf(p))
    BY DEF BestHandIsBest
  <2>1. current > Len(Players)
    BY PlayerFacts DEF LoopInv, LoopTypes
  <2>2. p \in Holders /\ evals[p] # NoHand
    BY <2>1, WhoIsEvaluated
  <2>3. /\ SevenCards(p) /\ Evaluated(p, evals[p])
        /\ evals[p].five \in FiveCards /\ evals[p].rank = eval5(evals[p].five)
        /\ HandOf(p) \in Fives(p)
    BY <2>2, EvaluatedFacts
  <2>4. ASSUME NEW five \in Fives(p) PROVE ~Beats(five, HandOf(p))
    <3>1. PICK x \in Combinations : five = Range(HandAt(p, x))
      BY <2>3, FivesAreCombinations
    <3>2. RankAt(p, x) <= evals[p].rank
      BY <2>3 DEF Evaluated
    <3>3. HandAt(p, x) \in FiveCards
      BY <2>3, HandAtType
    <3>4. /\ eval5(HandAt(p, x)) \in Nat /\ eval5(evals[p].five) \in Nat
          /\ eval5(HandAt(p, x)) > eval5(evals[p].five) <=> Beats(five, HandOf(p))
      BY <2>3, <3>1, <3>3, EvalOrdersHands DEF HandOf
    <3>5. ~(eval5(HandAt(p, x)) > eval5(evals[p].five))
      BY <2>3, <3>2, <3>4 DEF RankAt
    <3> QED
      BY <3>4, <3>5
  <2> QED
    BY <2>3, <2>4
<1> QED
  BY <1>1, LoopsKeepInv, PTL

\* potWinners gives a pot to exactly those of the evaluated players on its list whose hand
\* none of the others beats by the rules of the game, so equal hands share it, and to the
\* first on the list in ActionOrder if none of them has been evaluated.
THEOREM WinnersCorrect == Spec => []WinnersHoldBestHand
<1>1. LoopInv => WinnersHoldBestHand
  <2> SUFFICES ASSUME LoopInv, judged = 0
               PROVE  Range(winners) =
                        IF Shown # {}
                        THEN {p \in Shown : \A q \in Shown : ~Beats(HandOf(q), HandOf(p))}
                        ELSE FirstListed
    BY DEF WinnersHoldBestHand, FirstListed
  <2>1. Rated = Shown
    <3>1. CASE current <= Len(Players)
      <4>1. Range(eligible) = {}
        BY <3>1 DEF LoopInv, LoopTypes, Range
      <4> QED
        BY <4>1 DEF Rated, Shown
    <3>2. CASE current > Len(Players)
      <4>1. \A p \in Range(eligible) : p \in Holders
        BY LenProperties DEF LoopInv, LoopTypes, Range
      <4>2. \A p : p \in Holders /\ evals[p] # NoHand <=> p \in Range(Players) /\ hole[p] # <<>>
        BY <3>2, WhoIsEvaluated
      <4> QED
        BY <4>1, <4>2 DEF Rated, Shown
    <3> QED
      BY <3>1, <3>2, PlayerFacts DEF LoopInv, LoopTypes
  <2>2. \A p \in Shown : p \in Holders /\ evals[p] # NoHand
    <3>1. \A p \in Range(eligible) : p \in Holders
      BY LenProperties DEF LoopInv, LoopTypes, Range
    <3> QED
      BY <2>1, <3>1 DEF Rated
  <2>3. \A p \in Shown : /\ evals[p].five \in FiveCards
                         /\ evals[p].rank = eval5(evals[p].five)
    BY <2>2, EvaluatedFacts
  <2>4. \A p \in Shown : evals[p].rank \in Nat
    BY <2>3, EvalOrdersHands
  <2>5. \A p, q \in Shown : Beats(HandOf(q), HandOf(p)) <=> evals[q].rank > evals[p].rank
    BY <2>3, EvalOrdersHands DEF HandOf
  <2>6. \A p, q \in Shown : evals[q].rank <= evals[p].rank <=> ~Beats(HandOf(q), HandOf(p))
    BY <2>4, <2>5
  <2>7. /\ Shown # {} =>
             \A q : q \in Range(winners)
                      <=> q \in Shown /\ \A r \in Shown : evals[r].rank <= evals[q].rank
        /\ Shown = {} => Range(winners) = FirstListed
    BY <2>1 DEF LoopInv, Decided
  <2> QED
    BY <2>6, <2>7
<1> QED
  BY <1>1, LoopsKeepInv, PTL

-----------------------------------------------------------------------------
(***************************************************************************)
(* The side pots.                                                          *)
(***************************************************************************)

\* A pot of some of the players.
PotRecords == [amount : Int, eligible : {Listing(E) : E \in SUBSET Seated}]

\* The contributors who have put in at least level chips.
AtLeast(level) == {p \in Contributors : committed[p] >= level}

\* The chips of the levels up to c that the players in E play for.
ChipsTo(c, E) ==
  {x \in Contributors \X (1..c) : x[2] <= committed[x[1]] /\ EligibleAt(x[2]) = E}

\* What the players have put in and how the loops go over it.
PotTypes ==
  /\ committed \in [Seated -> Nat]
  /\ entries \in Seq(Contributors)
  /\ Len(entries) = Cardinality(Contributors)
  /\ entries \in Bijection(1..Len(entries), Contributors)
  /\ \A j, k \in 1..Len(entries) : j < k => committed[entries[j]] <= committed[entries[k]]
  /\ scanned \in 0..Len(entries)
  /\ prev = (IF scanned = 0 THEN 0 ELSE committed[entries[scanned]])
  /\ raw \in Seq(PotRecords)
  /\ merged \in Seq(PotRecords)
  /\ taken \in 0..Len(raw)
  /\ taken > 0 => scanned = Len(entries)

\* raw[j] holds the chips of the levels from lv[j - 1] to lv[j]; nobody has stopped
\* between them.
Bands(lv) ==
  /\ lv \in [0..Len(raw) -> Nat]
  /\ lv[0] = 0
  /\ lv[Len(raw)] = prev
  /\ \A j \in 1..Len(raw) :
       /\ lv[j - 1] < lv[j]
       /\ \A p \in Contributors : committed[p] <= lv[j - 1] \/ lv[j] <= committed[p]
       /\ raw[j] = [amount |-> (lv[j] - lv[j - 1]) * Cardinality(AtLeast(lv[j])),
                    eligible |-> Listing(EligibleAt(lv[j]))]

\* The pots m are those of the levels up to c.
MergedTo(m, c) ==
  /\ m = <<>> <=> c = 0
  /\ {DOMAIN m[k].eligible : k \in 1..Len(m)} = {EligibleAt(level) : level \in 1..c}
  /\ c > 0 => DOMAIN m[Len(m)].eligible = EligibleAt(c)
  /\ \A k \in 1..Len(m) :
       /\ m[k].amount = Cardinality(ChipsTo(c, DOMAIN m[k].eligible))
       /\ k = 1 => DOMAIN m[k].eligible = EligibleAt(1)
       /\ \A j \in 1..(k - 1) : /\ DOMAIN m[k].eligible \subseteq DOMAIN m[j].eligible
                                /\ DOMAIN m[k].eligible # DOMAIN m[j].eligible

\* The inductive invariant.
PotsInv ==
  /\ PotTypes
  /\ \E lv, m, c : Bands(lv) /\ m = merged /\ c = lv[taken] /\ MergedTo(m, c)

\* A list has the players it lists.
LEMMA ListingPlayers ==
  ASSUME NEW E
  PROVE  DOMAIN Listing(E) = E
BY DEF Listing

\* A pot's list is the list of its players.
LEMMA PotListed ==
  ASSUME NEW r \in PotRecords
  PROVE  /\ r = [amount |-> r.amount, eligible |-> r.eligible]
         /\ r.amount \in Int
         /\ DOMAIN r.eligible \in SUBSET Seated
         /\ r.eligible = Listing(DOMAIN r.eligible)
<1>1. PICK E \in SUBSET Seated : r.eligible = Listing(E)
  BY DEF PotRecords
<1>2. DOMAIN r.eligible = E
  BY <1>1, ListingPlayers
<1> QED
  BY <1>1, <1>2 DEF PotRecords

\* Fewer players have matched a higher level.
LEMMA EligibleShrinks ==
  ASSUME committed \in [Seated -> Nat], NEW c \in Nat, NEW d \in Nat, c <= d
  PROVE  EligibleAt(d) \subseteq EligibleAt(c)
BY DEF EligibleAt

\* A level, as a number of chips, is the same for all who have matched it.
LEMMA BandOfLevel ==
  ASSUME committed \in [Seated -> Nat], NEW c \in Nat, NEW d \in Nat, c < d,
         \A p \in Contributors : committed[p] <= c \/ d <= committed[p],
         NEW level \in (c + 1)..d
  PROVE  EligibleAt(level) = EligibleAt(d)
BY DEF EligibleAt, Contributors

\* The contributors are finite in number.
LEMMA ContributorsFinite ==
  /\ IsFiniteSet(Contributors)
  /\ \A level : IsFiniteSet(AtLeast(level)) /\ Cardinality(AtLeast(level)) \in Nat
<1>1. IsFiniteSet(Contributors)
  BY SidePotsAssumption, FS_Subset DEF Contributors
<1>2. ASSUME NEW level
      PROVE  IsFiniteSet(AtLeast(level)) /\ Cardinality(AtLeast(level)) \in Nat
  <2>1. AtLeast(level) \in SUBSET Contributors
    BY DEF AtLeast
  <2>2. IsFiniteSet(AtLeast(level))
    BY <1>1, <2>1, FS_Subset
  <2> QED
    BY <2>2, FS_CardinalityType
<1> QED
  BY <1>1, <1>2

\* And so are the chips up to a level.
LEMMA ChipsFinite ==
  ASSUME NEW c \in Nat, NEW E
  PROVE  IsFiniteSet(ChipsTo(c, E)) /\ Cardinality(ChipsTo(c, E)) \in Nat
<1>1. IsFiniteSet(1..c)
  BY FS_Interval
<1>2. IsFiniteSet(Contributors \X (1..c))
  BY <1>1, ContributorsFinite, FS_Product
<1>3. ChipsTo(c, E) \in SUBSET (Contributors \X (1..c))
  BY DEF ChipsTo
<1>4. IsFiniteSet(ChipsTo(c, E))
  BY <1>2, <1>3, FS_Subset
<1> QED
  BY <1>4, FS_CardinalityType

\* The chips of a new level go to those who have matched it, and to nobody else.
LEMMA ChipsOfBand ==
  ASSUME committed \in [Seated -> Nat], NEW c \in Nat, NEW d \in Nat, c < d,
         \A p \in Contributors : committed[p] <= c \/ d <= committed[p],
         NEW E
  PROVE  Cardinality(ChipsTo(d, E)) =
           Cardinality(ChipsTo(c, E)) +
             (IF E = EligibleAt(d) THEN (d - c) * Cardinality(AtLeast(d)) ELSE 0)
<1> DEFINE band == AtLeast(d) \X ((c + 1)..d)
<1>1. \A level \in (c + 1)..d : EligibleAt(level) = EligibleAt(d)
  BY BandOfLevel
<1>2. CASE E # EligibleAt(d)
  <2>1. ASSUME NEW x \in Contributors \X (1..d), EligibleAt(x[2]) = E
        PROVE  x \in Contributors \X (1..c)
    <3>1. ~(x[2] \in (c + 1)..d)
      BY <1>1, <1>2, <2>1
    <3> QED
      BY <3>1
  <2>2. ChipsTo(d, E) = ChipsTo(c, E)
    BY <2>1 DEF ChipsTo
  <2> QED
    BY <1>2, <2>2, ChipsFinite
<1>3. CASE E = EligibleAt(d)
  <2>1. ASSUME NEW x
        PROVE  x \in ChipsTo(d, E) <=> x \in ChipsTo(c, E) \/ x \in band
    <3>1. ASSUME x \in ChipsTo(d, E), x \notin Contributors \X (1..c)
          PROVE  x \in band
      BY <3>1 DEF ChipsTo, AtLeast, Contributors
    <3>2. ASSUME x \in ChipsTo(d, E), x \in Contributors \X (1..c)
          PROVE  x \in ChipsTo(c, E)
      BY <3>2 DEF ChipsTo
    <3>3. ASSUME x \in ChipsTo(c, E)
          PROVE  x \in ChipsTo(d, E)
      BY <3>3 DEF ChipsTo
    <3>4. ASSUME x \in band
          PROVE  x \in ChipsTo(d, E)
      <4>1. x \in Contributors \X (1..d) /\ x[2] \in (c + 1)..d /\ committed[x[1]] >= d
        BY <3>4 DEF AtLeast
      <4>2. EligibleAt(x[2]) = E
        BY <1>1, <1>3, <4>1
      <4>3. x[2] <= committed[x[1]]
        BY <4>1 DEF Contributors
      <4> QED
        BY <4>1, <4>2, <4>3 DEF ChipsTo
    <3> QED
      BY <3>1, <3>2, <3>3, <3>4
  <2>2. ChipsTo(d, E) = ChipsTo(c, E) \cup band
    BY <2>1
  <2>3. ChipsTo(c, E) \cap band = {}
    BY DEF ChipsTo
  <2>4. IsFiniteSet((c + 1)..d) /\ Cardinality((c + 1)..d) = d - c
    BY FS_Interval
  <2>5. IsFiniteSet(band) /\ Cardinality(band) = Cardinality(AtLeast(d)) * (d - c)
    BY <2>4, ContributorsFinite, FS_Product
  <2>6. Cardinality(ChipsTo(c, E) \cup band) =
          Cardinality(ChipsTo(c, E)) + Cardinality(band) - 0
    BY <2>3, <2>5, ChipsFinite, FS_Union, FS_EmptySet
  <2>7. Cardinality(AtLeast(d)) * (d - c) = (d - c) * Cardinality(AtLeast(d))
    BY ContributorsFinite
  <2>8. Cardinality(ChipsTo(c, E)) \in Nat /\ Cardinality(band) \in Nat
    BY <2>5, ChipsFinite, FS_CardinalityType
  <2> HIDE DEF band
  <2> QED
    BY <1>3, <2>2, <2>5, <2>6, <2>7, <2>8
<1> QED
  BY <1>2, <1>3

\* A pot of more of the same players.
LEMMA MergeIntoLast ==
  ASSUME committed \in [Seated -> Nat], NEW c \in Nat, NEW d \in Nat, c < d,
         \A p \in Contributors : committed[p] <= c \/ d <= committed[p],
         NEW m \in Seq(PotRecords), m # <<>>, MergedTo(m, c),
         DOMAIN m[Len(m)].eligible = EligibleAt(d),
         NEW n \in Seq(PotRecords),
         n = [m EXCEPT ![Len(m)] =
                [amount |-> m[Len(m)].amount + (d - c) * Cardinality(AtLeast(d)),
                 eligible |-> m[Len(m)].eligible]]
  PROVE  MergedTo(n, d)
<1>1. Len(m) \in Nat \ {0} /\ Len(m) \in 1..Len(m) /\ c > 0
  BY EmptySeq DEF MergedTo
<1>2. /\ Len(n) = Len(m)
      /\ \A k \in 1..Len(m) : n[k].eligible = m[k].eligible
      /\ \A k \in 1..Len(m) : k # Len(m) => n[k].amount = m[k].amount
      /\ n[Len(m)].amount = m[Len(m)].amount + (d - c) * Cardinality(AtLeast(d))
  <2>1. m \in [1..Len(m) -> PotRecords] /\ n \in [1..Len(n) -> PotRecords]
    BY LenProperties
  <2>2. DOMAIN n = DOMAIN m
    OBVIOUS
  <2>3. Len(n) = Len(m)
    BY <2>1, <2>2, LenProperties
  <2> QED
    BY <1>1, <2>1, <2>3
<1>3. n # <<>>
  BY <1>1, <1>2, EmptySeq
<1>4. EligibleAt(c) = EligibleAt(d)
  BY <1>1 DEF MergedTo
<1>5. {EligibleAt(level) : level \in 1..d} = {EligibleAt(level) : level \in 1..c}
  <2>1. \A level \in (c + 1)..d : EligibleAt(level) = EligibleAt(c)
    BY <1>4, BandOfLevel
  <2>2. \A level \in 1..d : \E l \in 1..c : EligibleAt(level) = EligibleAt(l)
    <3> TAKE level \in 1..d
    <3>1. CASE level <= c
      BY <3>1
    <3>2. CASE level > c
      BY <1>1, <2>1, <3>2
    <3> QED
      BY <3>1, <3>2
  <2>3. 1..c \subseteq 1..d
    OBVIOUS
  <2> QED
    BY <2>2, <2>3
<1>6. {DOMAIN n[k].eligible : k \in 1..Len(n)} = {DOMAIN m[k].eligible : k \in 1..Len(m)}
  BY <1>2
<1>7. ASSUME NEW k \in 1..Len(m)
      PROVE  n[k].amount = Cardinality(ChipsTo(d, DOMAIN n[k].eligible))
  <2> DEFINE E == DOMAIN m[k].eligible
  <2>1. m[k].amount = Cardinality(ChipsTo(c, E))
    BY DEF MergedTo
  <2>2. Cardinality(ChipsTo(d, E)) = Cardinality(ChipsTo(c, E)) +
             (IF E = EligibleAt(d) THEN (d - c) * Cardinality(AtLeast(d)) ELSE 0)
    BY ChipsOfBand
  <2>3. k # Len(m) => E # EligibleAt(d)
    <3> HAVE k # Len(m)
    <3>1. k \in 1..(Len(m) - 1)
      BY <1>1
    <3> QED
      BY <1>1, <3>1 DEF MergedTo
  <2>4. Cardinality(ChipsTo(c, E)) \in Nat
    BY ChipsFinite
  <2> QED
    BY <1>2, <2>1, <2>2, <2>3, <2>4
<1>8. d > 0 => DOMAIN n[Len(n)].eligible = EligibleAt(d)
  BY <1>1, <1>2
<1>9. ASSUME NEW k \in 1..Len(n)
      PROVE  /\ k = 1 => DOMAIN n[k].eligible = EligibleAt(1)
             /\ \A j \in 1..(k - 1) : /\ DOMAIN n[k].eligible \subseteq DOMAIN n[j].eligible
                                      /\ DOMAIN n[k].eligible # DOMAIN n[j].eligible
  BY <1>1, <1>2 DEF MergedTo
<1>10. {DOMAIN m[k].eligible : k \in 1..Len(m)} = {EligibleAt(level) : level \in 1..c}
  BY DEF MergedTo
<1>11. n = <<>> <=> d = 0
  BY <1>3
<1>12. \A k \in 1..Len(n) : n[k].amount = Cardinality(ChipsTo(d, DOMAIN n[k].eligible))
  BY <1>2, <1>7
<1> QED
  BY <1>5, <1>6, <1>8, <1>9, <1>10, <1>11, <1>12 DEF MergedTo

\* A pot of fewer players.
LEMMA MergeAsNew ==
  ASSUME committed \in [Seated -> Nat], NEW c \in Nat, NEW d \in Nat, c < d,
         \A p \in Contributors : committed[p] <= c \/ d <= committed[p],
         NEW m \in Seq(PotRecords), MergedTo(m, c),
         m # <<>> => DOMAIN m[Len(m)].eligible # EligibleAt(d),
         NEW r \in PotRecords,
         DOMAIN r.eligible = EligibleAt(d),
         r.amount = (d - c) * Cardinality(AtLeast(d))
  PROVE  MergedTo(Append(m, r), d)
<1> DEFINE n == Append(m, r)
<1>1. /\ Len(m) \in Nat
      /\ n # <<>>
      /\ Len(n) = Len(m) + 1
      /\ \A k \in 1..Len(m) : n[k] = m[k]
      /\ n[Len(m) + 1] = r
  BY LenProperties, AppendProperties
<1> HIDE DEF n
<1>2. c > 0 => /\ Len(m) \in 1..Len(m)
               /\ DOMAIN m[Len(m)].eligible = EligibleAt(c)
               /\ EligibleAt(d) # EligibleAt(c)
  <2> HAVE c > 0
  <2>1. m # <<>>
    BY DEF MergedTo
  <2>2. Len(m) \in Nat \ {0}
    BY <2>1, EmptySeq
  <2> QED
    BY <2>1, <2>2 DEF MergedTo
<1>3. \A level \in 1..c : /\ EligibleAt(d) \subseteq EligibleAt(level)
                          /\ EligibleAt(d) # EligibleAt(level)
  <2> TAKE level \in 1..c
  <2>1. EligibleAt(d) \subseteq EligibleAt(c) /\ EligibleAt(c) \subseteq EligibleAt(level)
    BY EligibleShrinks
  <2>2. EligibleAt(d) # EligibleAt(c)
    BY <1>2
  <2> QED
    BY <2>1, <2>2
<1> DEFINE places == {DOMAIN m[k].eligible : k \in 1..Len(m)}
<1> DEFINE groups == {EligibleAt(level) : level \in 1..c}
<1>13. places = groups
  BY DEF MergedTo
<1>4. \A k \in 1..Len(m) : \E level \in 1..c : DOMAIN m[k].eligible = EligibleAt(level)
  <2> TAKE k \in 1..Len(m)
  <2>1. DOMAIN m[k].eligible \in places
    OBVIOUS
  <2>2. DOMAIN m[k].eligible \in groups
    BY <1>13, <2>1
  <2> QED
    BY <2>2
<1>5. \A k \in 1..Len(m) : /\ EligibleAt(d) \subseteq DOMAIN m[k].eligible
                           /\ EligibleAt(d) # DOMAIN m[k].eligible
  BY <1>3, <1>4
<1>6. ASSUME NEW k \in 1..Len(n)
      PROVE  n[k].amount = Cardinality(ChipsTo(d, DOMAIN n[k].eligible))
  <2>1. CASE k \in 1..Len(m)
    <3> DEFINE E == DOMAIN m[k].eligible
    <3>1. m[k].amount = Cardinality(ChipsTo(c, E))
      BY <2>1 DEF MergedTo
    <3>2. Cardinality(ChipsTo(d, E)) = Cardinality(ChipsTo(c, E)) +
               (IF E = EligibleAt(d) THEN (d - c) * Cardinality(AtLeast(d)) ELSE 0)
      BY ChipsOfBand
    <3>3. Cardinality(ChipsTo(c, E)) \in Nat
      BY ChipsFinite
    <3> QED
      BY <1>1, <1>5, <2>1, <3>1, <3>2, <3>3
  <2>2. CASE k = Len(m) + 1
    <3> DEFINE E == EligibleAt(d)
    <3>1. Cardinality(ChipsTo(d, E)) = Cardinality(ChipsTo(c, E)) +
               (IF E = EligibleAt(d) THEN (d - c) * Cardinality(AtLeast(d)) ELSE 0)
      BY ChipsOfBand
    <3>2. ChipsTo(c, E) = {}
      BY <1>3 DEF ChipsTo
    <3>3. Cardinality(ChipsTo(c, E)) = 0
      BY <3>2, FS_EmptySet
    <3>4. (d - c) * Cardinality(AtLeast(d)) \in Int
      BY ContributorsFinite
    <3> QED
      BY <1>1, <2>2, <3>1, <3>3, <3>4
  <2> QED
    BY <1>1, <2>1, <2>2
<1>7. {DOMAIN n[k].eligible : k \in 1..Len(n)} = {EligibleAt(level) : level \in 1..d}
  <2>1. \A k \in 1..Len(n) : \E level \in 1..d : DOMAIN n[k].eligible = EligibleAt(level)
    <3> TAKE k \in 1..Len(n)
    <3>1. CASE k \in 1..Len(m)
      <4>1. 1..c \subseteq 1..d
        OBVIOUS
      <4> QED
        BY <1>1, <1>4, <3>1, <4>1
    <3>2. CASE k = Len(m) + 1
      BY <1>1, <3>2
    <3> QED
      BY <1>1, <3>1, <3>2
  <2>2. \A level \in 1..d : \E k \in 1..Len(n) : DOMAIN n[k].eligible = EligibleAt(level)
    <3> TAKE level \in 1..d
    <3>1. CASE level <= c
      <4>1. \E k \in 1..Len(m) : DOMAIN m[k].eligible = EligibleAt(level)
        <5>1. EligibleAt(level) \in groups
          BY <3>1
        <5>2. EligibleAt(level) \in places
          BY <1>13, <5>1
        <5> QED
          BY <5>2
      <4> QED
        BY <1>1, <4>1
    <3>2. CASE level > c
      <4>1. EligibleAt(level) = EligibleAt(d)
        BY <3>2, BandOfLevel
      <4>2. Len(m) + 1 \in 1..Len(n)
        BY <1>1
      <4> QED
        BY <1>1, <4>1, <4>2
    <3> QED
      BY <3>1, <3>2
  <2> QED
    BY <2>1, <2>2
<1>8. d > 0 => DOMAIN n[Len(n)].eligible = EligibleAt(d)
  BY <1>1
<1>9. ASSUME NEW k \in 1..Len(n)
      PROVE  k = 1 => DOMAIN n[k].eligible = EligibleAt(1)
  <2> HAVE k = 1
  <2>1. CASE c > 0
    BY <1>1, <1>2, <2>1 DEF MergedTo
  <2>2. CASE c = 0
    <3>1. m = <<>>
      BY <2>2 DEF MergedTo
    <3>2. Len(m) = 0
      BY <3>1, EmptySeq
    <3>3. EligibleAt(1) = EligibleAt(d)
      BY <2>2, BandOfLevel
    <3> QED
      BY <1>1, <3>2, <3>3
  <2> QED
    BY <2>1, <2>2
<1>10. ASSUME NEW k \in 1..Len(n), NEW j \in 1..(k - 1)
       PROVE  /\ DOMAIN n[k].eligible \subseteq DOMAIN n[j].eligible
              /\ DOMAIN n[k].eligible # DOMAIN n[j].eligible
  <2>1. CASE k \in 1..Len(m)
    BY <1>1, <2>1 DEF MergedTo
  <2>2. CASE k = Len(m) + 1
    <3>1. j \in 1..Len(m)
      BY <1>1, <2>2
    <3> QED
      BY <1>1, <1>5, <2>2, <3>1
  <2> QED
    BY <1>1, <2>1, <2>2
<1>11. n = <<>> <=> d = 0
  BY <1>1
<1>12. MergedTo(n, d)
  BY <1>6, <1>7, <1>8, <1>9, <1>10, <1>11 DEF MergedTo
<1> QED
  BY <1>12 DEF n
\* The next entry starts a level exactly if it is above prev, and then everybody from
\* it on has put in at least that much, and nobody else has.
LEMMA LevelOfEntry ==
  ASSUME PotTypes, scanned < Len(entries)
  PROVE  LET level == committed[entries[scanned + 1]]
         IN /\ level \in Nat \ {0}
            /\ prev \in Nat /\ prev <= level
            /\ \A p \in Contributors : committed[p] <= prev \/ level <= committed[p]
            /\ level > prev =>
                 /\ Cardinality(AtLeast(level)) = Len(entries) - scanned
                 /\ {entries[k] : k \in (scanned + 1)..Len(entries)} = AtLeast(level)
                 /\ AtLeast(level) \ folded = EligibleAt(level)
<1> DEFINE L == Len(entries)
           level == committed[entries[scanned + 1]]
           tail == (scanned + 1)..L
<1>1. /\ L \in Nat /\ scanned \in 0..L /\ scanned + 1 \in 1..L
      /\ entries \in [1..L -> Contributors]
      /\ \A j, k \in 1..L : entries[j] = entries[k] => j = k
      /\ \A p \in Contributors : \E k \in 1..L : entries[k] = p
  BY LenProperties DEF PotTypes, Bijection, Injection, Surjection, IsInjective
<1>2. \A p \in Contributors : p \in Seated /\ committed[p] \in Nat \ {0}
  BY DEF PotTypes, Contributors
<1>3. \A j, k \in 1..L : j <= k => committed[entries[j]] <= committed[entries[k]]
  <2> TAKE j, k \in 1..L
  <2> HAVE j <= k
  <2>1. CASE j < k
    BY <2>1 DEF PotTypes
  <2>2. CASE j = k
    BY <1>1, <1>2, <2>2
  <2> QED
    BY <1>1, <2>1, <2>2
<1>4. level \in Nat \ {0}
  BY <1>1, <1>2
<1>5. prev \in Nat /\ prev <= level
  <2>1. CASE scanned = 0
    BY <1>4, <2>1 DEF PotTypes
  <2>2. CASE scanned # 0
    <3>1. scanned \in 1..L /\ prev = committed[entries[scanned]]
      BY <1>1, <2>2 DEF PotTypes
    <3> QED
      BY <1>1, <1>2, <1>3, <3>1
  <2> QED
    BY <2>1, <2>2
<1>6. \A k \in 1..L : IF k \in tail THEN committed[entries[k]] >= level
                                   ELSE committed[entries[k]] <= prev
  <2> TAKE k \in 1..L
  <2>1. CASE k \in tail
    BY <1>1, <1>3, <2>1
  <2>2. CASE k \notin tail
    <3>1. scanned \in 1..L /\ k <= scanned
      BY <1>1, <2>2
    <3>2. prev = committed[entries[scanned]]
      BY <3>1 DEF PotTypes
    <3> QED
      BY <1>3, <2>2, <3>1, <3>2
  <2> QED
    BY <2>1, <2>2
<1>7. \A p \in Contributors : committed[p] <= prev \/ level <= committed[p]
  BY <1>1, <1>2, <1>4, <1>5, <1>6
<1>8. ASSUME level > prev
      PROVE  {entries[k] : k \in tail} = AtLeast(level)
  <2>1. \A k \in tail : entries[k] \in AtLeast(level)
    BY <1>1, <1>6 DEF AtLeast
  <2>2. \A p \in AtLeast(level) : \E k \in tail : entries[k] = p
    <3> TAKE p \in AtLeast(level)
    <3>1. PICK k \in 1..L : entries[k] = p
      BY <1>1 DEF AtLeast
    <3>2. ~(committed[entries[k]] <= prev)
      BY <1>2, <1>4, <1>5, <1>8, <3>1 DEF AtLeast
    <3> QED
      BY <1>6, <3>1, <3>2
  <2> QED
    BY <2>1, <2>2
<1>9. ASSUME level > prev
      PROVE  Cardinality(AtLeast(level)) = L - scanned
  <2> DEFINE f == [k \in tail |-> entries[k]]
  <2> DEFINE T == AtLeast(level)
  <2>1. f \in [tail -> T] /\ \A p \in T : \E k \in tail : f[k] = p
    BY <1>8, <1>9
  <2>2. \A j, k \in tail : f[j] = f[k] => j = k
    BY <1>1
  <2>3. f \in Bijection(tail, T)
    <3> HIDE DEF f, T
    <3> QED
      BY <2>1, <2>2 DEF Bijection, Injection, Surjection, IsInjective
  <2>4. IsFiniteSet(tail) /\ Cardinality(tail) = L - scanned
    BY <1>1, FS_Interval
  <2>5. ExistsBijection(tail, T)
    BY <2>3 DEF ExistsBijection
  <2> HIDE DEF tail, T
  <2>6. Cardinality(T) = Cardinality(tail)
    BY <2>4, <2>5, FS_Bijection
  <2> QED
    BY <2>4, <2>6 DEF T
<1>10. AtLeast(level) \ folded = EligibleAt(level)
  <2>1. ASSUME NEW c \in Nat \ {0}
        PROVE  AtLeast(c) \ folded = EligibleAt(c)
    BY DEF AtLeast, EligibleAt, Contributors, PotTypes
  <2> QED
    BY <1>4, <2>1
<1> QED
  BY <1>4, <1>5, <1>7, <1>8, <1>9, <1>10

\* The lists, the levels and the chips do not change.
LEMMA LevelsUnchanged ==
  ASSUME UNCHANGED <<committed, folded, actionOrder, entries>>
  PROVE  /\ Contributors' = Contributors
         /\ \A level : EligibleAt(level)' = EligibleAt(level)
         /\ \A level : AtLeast(level)' = AtLeast(level)
         /\ \A E : Listing(E)' = Listing(E)
         /\ \A c, E : ChipsTo(c, E)' = ChipsTo(c, E)
         /\ PotRecords' = PotRecords
         /\ \A m, c : MergedTo(m, c)' = MergedTo(m, c)
<1>1. Contributors' = Contributors
  BY DEF Contributors
<1>2. \A level : EligibleAt(level)' = EligibleAt(level)
  BY DEF EligibleAt
<1>3. \A level : AtLeast(level)' = AtLeast(level)
  BY <1>1 DEF AtLeast
<1>4. \A p, q : Precedes(p, q)' = Precedes(p, q)
  BY DEF Precedes
<1>5. \A E : Listing(E)' = Listing(E)
  BY <1>4 DEF Listing
<1>6. \A c, E : ChipsTo(c, E)' = ChipsTo(c, E)
  BY <1>1, <1>2 DEF ChipsTo
<1>7. PotRecords' = PotRecords
  BY <1>5 DEF PotRecords
<1>8. \A m, c : MergedTo(m, c)' = MergedTo(m, c)
  <2> TAKE m, c
  <2>1. {EligibleAt(level)' : level \in 1..c} = {EligibleAt(level) : level \in 1..c}
    BY <1>2
  <2> QED
    BY <1>2, <1>6, <2>1 DEF MergedTo
<1> QED
  BY <1>1, <1>2, <1>3, <1>5, <1>6, <1>7, <1>8

\* At the start there are no pots.
LEMMA PotsInitInv ==
  ASSUME PotsInit
  PROVE  PotsInv
<1> DEFINE N == Cardinality(Contributors)
<1>1. N \in Nat
  BY ContributorsFinite, FS_CardinalityType
<1>2. /\ entries \in Bijection(1..N, Contributors)
      /\ \A j, k \in DOMAIN entries : j < k => committed[entries[j]] <= committed[entries[k]]
  BY DEF PotsInit, SortedEntries
<1>3. entries \in [1..N -> Contributors]
  BY <1>2 DEF Bijection, Injection
<1>4. entries \in Seq(Contributors) /\ Len(entries) = N
  <2> HIDE DEF N
  <2> QED
    BY <1>1, <1>3, SMT
<1>5. committed \in [Seated -> Nat]
  BY SidePotsAssumption DEF PotsInit
<1>6. raw \in Seq(PotRecords) /\ Len(raw) = 0 /\ merged \in Seq(PotRecords) /\ Len(merged) = 0
  BY EmptySeq DEF PotsInit
<1>7. PotTypes
  BY <1>1, <1>2, <1>3, <1>4, <1>5, <1>6 DEF PotTypes, PotsInit
<1>8. Bands([j \in 0..0 |-> 0])
  BY <1>6 DEF Bands, PotsInit
<1>9. MergedTo(merged, 0)
  BY <1>6 DEF MergedTo, PotsInit
<1>10. [j \in 0..0 |-> 0][taken] = 0
  BY DEF PotsInit
<1> QED
  BY <1>7, <1>8, <1>9, <1>10 DEF PotsInv
\* A turn of the first loop: a tie changes nothing, a new level is the next band.
LEMMA ScanKeepsInv ==
  ASSUME PotsInv, ScanEntry
  PROVE  PotsInv'
<1> DEFINE level == committed[entries[scanned + 1]]
           amount == (level - prev) * (Len(entries) - scanned)
           pot == [amount |-> amount, eligible |-> eligibleInOrder(scanned + 1)]
<1>1. /\ scanned < Len(entries) /\ scanned' = scanned + 1
      /\ UNCHANGED <<committed, folded, actionOrder, entries, taken, merged>>
      /\ \/ level <= prev /\ UNCHANGED <<prev, raw>>
         \/ level > prev /\ raw' = Append(raw, pot) /\ prev' = level
  BY DEF ScanEntry
<1>2. PICK lv, m, b : Bands(lv) /\ m = merged /\ b = lv[taken] /\ MergedTo(m, b)
  BY DEF PotsInv
<1>3. PotTypes
  BY DEF PotsInv
<1>4. /\ Contributors' = Contributors
      /\ \A c : EligibleAt(c)' = EligibleAt(c)
      /\ \A c : AtLeast(c)' = AtLeast(c)
      /\ \A E : Listing(E)' = Listing(E)
      /\ \A c, E : ChipsTo(c, E)' = ChipsTo(c, E)
      /\ PotRecords' = PotRecords
      /\ \A n, c : MergedTo(n, c)' = MergedTo(n, c)
  BY <1>1, LevelsUnchanged
<1>5. /\ level \in Nat \ {0} /\ prev \in Nat /\ prev <= level
      /\ \A p \in Contributors : committed[p] <= prev \/ level <= committed[p]
      /\ level > prev => /\ Cardinality(AtLeast(level)) = Len(entries) - scanned
                         /\ {entries[k] : k \in (scanned + 1)..Len(entries)} = AtLeast(level)
                         /\ AtLeast(level) \ folded = EligibleAt(level)
  BY <1>1, <1>3, LevelOfEntry
<1>6. taken = 0 /\ Len(raw) \in Nat /\ raw \in Seq(PotRecords)
  BY <1>1, <1>3, LenProperties DEF PotTypes
<1>7. Len(entries) \in Nat /\ scanned \in 0..Len(entries)
  BY <1>3, LenProperties DEF PotTypes
<1>8. prev' = level
  BY <1>1, <1>5
<1>9. MergedTo(m, b)'
  BY <1>2, <1>4
<1>10. CASE level <= prev
  <2>1. prev' = prev /\ raw' = raw
    BY <1>1, <1>5, <1>10
  <2>2. PotTypes'
    BY <1>1, <1>3, <1>4, <1>7, <1>8, <2>1 DEF PotTypes
  <2>3. Bands(lv)'
    BY <1>1, <1>2, <1>4, <2>1 DEF Bands
  <2> QED
    BY <1>1, <1>2, <1>9, <2>2, <2>3 DEF PotsInv
<1>11. CASE level > prev
  <2>1. raw' = Append(raw, pot)
    BY <1>1, <1>5, <1>11
  <2>2. /\ pot.eligible = Listing(EligibleAt(level))
        /\ pot.amount = (level - prev) * Cardinality(AtLeast(level))
    BY <1>5, <1>11 DEF eligibleInOrder
  <2>3. pot \in PotRecords
    <3>1. EligibleAt(level) \in SUBSET Seated
      BY DEF EligibleAt
    <3>2. amount \in Int
      BY <1>5, <1>7
    <3> QED
      BY <2>2, <3>1, <3>2 DEF PotRecords
  <2>4. pot = [amount |-> (level - prev) * Cardinality(AtLeast(level)),
               eligible |-> Listing(EligibleAt(level))]
    BY <2>2
  <2> HIDE DEF pot, level, amount
  <2>5. /\ raw' \in Seq(PotRecords)
        /\ Len(raw') = Len(raw) + 1
        /\ \A k \in 1..Len(raw) : raw'[k] = raw[k]
        /\ raw'[Len(raw) + 1] = pot
    BY <1>6, <2>1, <2>3, AppendProperties
  <2>6. PotTypes'
    BY <1>1, <1>3, <1>4, <1>6, <1>7, <1>8, <2>5 DEF PotTypes, level
  <2> DEFINE lw == [j \in 0..(Len(raw) + 1) |-> IF j <= Len(raw) THEN lv[j] ELSE level]
  <2>13. PICK lx : lx = lw
    OBVIOUS
  <2>7. /\ lx \in [0..Len(raw') -> Nat]
        /\ \A j \in 0..Len(raw) : lx[j] = lv[j]
        /\ lx[Len(raw) + 1] = level
    BY <1>2, <1>5, <1>6, <2>5, <2>13 DEF Bands
  <2> HIDE DEF lw
  <2>8. ASSUME NEW j \in 1..Len(raw')
        PROVE  /\ lx[j - 1] < lx[j]
               /\ \A p \in Contributors : committed[p] <= lx[j - 1] \/ lx[j] <= committed[p]
               /\ raw'[j] = [amount |-> (lx[j] - lx[j - 1]) * Cardinality(AtLeast(lx[j])),
                             eligible |-> Listing(EligibleAt(lx[j]))]
    <3>1. CASE j \in 1..Len(raw)
      <4>1. lx[j - 1] = lv[j - 1] /\ lx[j] = lv[j] /\ raw'[j] = raw[j]
        BY <1>6, <2>5, <2>7, <3>1
      <4> QED
        BY <1>2, <3>1, <4>1 DEF Bands
    <3>2. CASE j = Len(raw) + 1
      <4>1. lx[j - 1] = prev /\ lx[j] = level /\ raw'[j] = pot
        BY <1>2, <1>6, <2>5, <2>7, <3>2 DEF Bands
      <4> QED
        BY <1>5, <1>11, <2>4, <4>1
    <3> QED
      BY <1>6, <2>5, <3>1, <3>2
  <2>9. lx[0] = 0 /\ lx[Len(raw')] = prev'
    BY <1>2, <1>6, <1>8, <2>5, <2>7 DEF Bands
  <2>10. Bands(lx)'
    BY <1>1, <1>4, <2>7, <2>8, <2>9 DEF Bands
  <2>11. lx[taken'] = lv[taken]
    BY <1>1, <1>6, <2>7
  <2> QED
    BY <1>1, <1>2, <1>9, <2>6, <2>10, <2>11 DEF PotsInv
<1> QED
  BY <1>5, <1>10, <1>11

\* A turn of the second loop: the next band joins the last pot or is one of its own.
LEMMA MergeKeepsInv ==
  ASSUME PotsInv, MergePot
  PROVE  PotsInv'
<1> DEFINE next == raw[taken + 1]
           last == merged[Len(merged)]
<1>1. /\ scanned = Len(entries) /\ taken < Len(raw) /\ taken' = taken + 1
      /\ UNCHANGED <<committed, folded, actionOrder, entries, scanned, prev, raw>>
      /\ \/ /\ merged # <<>> => last.eligible # next.eligible
            /\ merged' = Append(merged, next)
         \/ /\ merged # <<>> /\ last.eligible = next.eligible
            /\ merged' = [merged EXCEPT ![Len(merged)] =
                            [amount |-> last.amount + next.amount, eligible |-> last.eligible]]
  BY DEF MergePot, sameStringSlice
<1>2. PICK lv, m, b : Bands(lv) /\ m = merged /\ b = lv[taken] /\ MergedTo(m, b)
  BY DEF PotsInv
<1>3. PotTypes
  BY DEF PotsInv
<1>4. /\ Contributors' = Contributors
      /\ \A c : EligibleAt(c)' = EligibleAt(c)
      /\ \A c : AtLeast(c)' = AtLeast(c)
      /\ \A E : Listing(E)' = Listing(E)
      /\ \A c, E : ChipsTo(c, E)' = ChipsTo(c, E)
      /\ PotRecords' = PotRecords
      /\ \A n, c : MergedTo(n, c)' = MergedTo(n, c)
  BY <1>1, LevelsUnchanged
<1>5. /\ Len(raw) \in Nat /\ taken \in 0..Len(raw) /\ taken + 1 \in 1..Len(raw)
      /\ raw \in Seq(PotRecords) /\ merged \in Seq(PotRecords)
      /\ committed \in [Seated -> Nat]
  BY <1>1, <1>3, LenProperties DEF PotTypes
<1>6. next \in PotRecords
  BY <1>5, ElementOfSeq
<1>17. lv[taken] \in Nat /\ lv[taken + 1] \in Nat
  <2>1. taken \in 0..Len(raw) /\ taken + 1 \in 0..Len(raw)
    BY <1>5
  <2> QED
    BY <1>2, <2>1 DEF Bands
<1>18. PICK c, d : c = lv[taken] /\ d = lv[taken + 1]
  OBVIOUS
<1>7. c \in Nat /\ d \in Nat
  BY <1>17, <1>18
<1>8. /\ c < d
      /\ \A p \in Contributors : committed[p] <= c \/ d <= committed[p]
      /\ next = [amount |-> (d - c) * Cardinality(AtLeast(d)), eligible |-> Listing(EligibleAt(d))]
  <2>1. (taken + 1) - 1 = taken
    BY <1>5
  <2> QED
    BY <1>2, <1>5, <1>18, <2>1 DEF Bands
<1>9. next.amount = (d - c) * Cardinality(AtLeast(d)) /\ DOMAIN next.eligible = EligibleAt(d)
  BY <1>8, ListingPlayers
<1>10. MergedTo(merged, c)
  BY <1>2, <1>18
<1>11. next.eligible = Listing(EligibleAt(d))
  BY <1>8
<1> HIDE DEF next
<1>12. merged' \in Seq(PotRecords) /\ MergedTo(merged', d)
  <2>1. CASE /\ merged # <<>> => last.eligible # next.eligible
             /\ merged' = Append(merged, next)
    <3>1. merged # <<>> => DOMAIN last.eligible # EligibleAt(d)
      <4> HAVE merged # <<>>
      <4>1. Len(merged) \in 1..Len(merged)
        BY <1>5, EmptySeq
      <4>2. last \in PotRecords
        BY <1>5, <4>1, ElementOfSeq
      <4>3. last.eligible = Listing(DOMAIN last.eligible)
        BY <4>2, PotListed
      <4> QED
        BY <1>11, <2>1, <4>3
    <3>2. MergedTo(Append(merged, next), d)
      BY <1>5, <1>6, <1>7, <1>8, <1>9, <1>10, <3>1, MergeAsNew
    <3>3. Append(merged, next) \in Seq(PotRecords)
      BY <1>5, <1>6, AppendProperties
    <3> QED
      BY <2>1, <3>2, <3>3
  <2>2. CASE /\ merged # <<>> /\ last.eligible = next.eligible
             /\ merged' = [merged EXCEPT ![Len(merged)] =
                             [amount |-> last.amount + next.amount, eligible |-> last.eligible]]
    <3>1. Len(merged) \in 1..Len(merged)
      BY <1>5, <2>2, EmptySeq
    <3>2. last \in PotRecords
      BY <1>5, <3>1, ElementOfSeq
    <3>3. DOMAIN last.eligible = EligibleAt(d)
      BY <1>9, <2>2
    <3> DEFINE r == [amount |-> last.amount + next.amount, eligible |-> last.eligible]
    <3>4. r \in PotRecords
      BY <1>6, <3>2 DEF PotRecords
    <3> HIDE DEF r
    <3>5. [merged EXCEPT ![Len(merged)] = r] \in Seq(PotRecords)
      BY <1>5, <3>1, <3>4, ExceptSeq
    <3>6. merged' \in Seq(PotRecords)
      BY <2>2, <3>5 DEF r
    <3>7. merged' = [merged EXCEPT ![Len(merged)] =
                       [amount |-> merged[Len(merged)].amount + (d - c) * Cardinality(AtLeast(d)),
                        eligible |-> merged[Len(merged)].eligible]]
      BY <1>9, <2>2
    <3>8. MergedTo(merged', d)
      BY <1>5, <1>7, <1>8, <1>10, <2>2, <3>3, <3>6, <3>7, MergeIntoLast
    <3> QED
      BY <3>6, <3>8
  <2> QED
    BY <1>1, <2>1, <2>2
<1>13. PotTypes'
  BY <1>1, <1>3, <1>4, <1>5, <1>12 DEF PotTypes
<1>14. Bands(lv)'
  BY <1>1, <1>2, <1>4 DEF Bands
<1>15. d = lv[taken']
  BY <1>1, <1>18
<1>16. PICK n : n = merged'
  OBVIOUS
<1>19. MergedTo(n, d)'
  BY <1>4, <1>12, <1>16
<1> QED
  BY <1>13, <1>14, <1>15, <1>16, <1>19 DEF PotsInv
\* When both loops are done the pots are those of all levels.
LEMMA PotsInvSuffices ==
  ASSUME PotsInv
  PROVE  PotsFollowLevels
<1> SUFFICES ASSUME PotsComputed
             PROVE  /\ merged = <<>> <=> Contributors = {}
                    /\ {DOMAIN merged[k].eligible : k \in DOMAIN merged} = PotGroups
                    /\ \A k \in DOMAIN merged :
                         /\ merged[k].amount = Cardinality(ChipsFor(DOMAIN merged[k].eligible))
                         /\ k = 1 => DOMAIN merged[k].eligible = EligibleAt(1)
                         /\ \A j \in 1..(k - 1) :
                              /\ DOMAIN merged[k].eligible \subseteq DOMAIN merged[j].eligible
                              /\ DOMAIN merged[k].eligible # DOMAIN merged[j].eligible
  BY DEF PotsFollowLevels
<1> DEFINE L == Len(entries)
<1>1. PotTypes /\ MergedTo(merged, prev)
  BY DEF PotsInv, PotsComputed, Bands
<1>2. /\ L \in Nat /\ scanned = L
      /\ entries \in [1..L -> Contributors]
      /\ \A p \in Contributors : \E k \in 1..L : entries[k] = p
      /\ DOMAIN merged = 1..Len(merged)
  BY <1>1, LenProperties DEF PotTypes, PotsComputed, Bijection, Surjection
<1>3. \A p \in Contributors : p \in Seated /\ committed[p] \in Nat \ {0}
  BY <1>1 DEF PotTypes, Contributors
<1>4. CASE L = 0
  <2>1. prev = 0 /\ Contributors = {}
    BY <1>1, <1>2, <1>4 DEF PotTypes
  <2>2. merged = <<>>
    BY <1>1, <2>1 DEF MergedTo
  <2>3. Len(merged) = 0
    BY <2>2, EmptySeq
  <2>4. PotGroups = {} /\ {DOMAIN merged[k].eligible : k \in 1..Len(merged)} = {}
    BY <2>1, <2>3 DEF PotGroups
  <2> QED
    BY <1>2, <2>1, <2>2, <2>3, <2>4
<1>5. CASE L # 0
  <2>1. L \in 1..L /\ prev = committed[entries[L]] /\ entries[L] \in Contributors
    BY <1>1, <1>2, <1>5 DEF PotTypes
  <2>2. prev \in Nat \ {0} /\ Contributors # {}
    BY <1>3, <2>1
  <2>3. \A p \in Contributors : committed[p] <= prev
    <3> TAKE p \in Contributors
    <3>1. PICK k \in 1..L : entries[k] = p
      BY <1>2
    <3>2. CASE k = L
      BY <2>1, <2>2, <3>1, <3>2
    <3>3. CASE k < L
      BY <1>1, <2>1, <3>1, <3>3 DEF PotTypes
    <3>4. k = L \/ k < L
      <4>1. L \in Nat
        BY <1>2
      <4> HIDE DEF L
      <4> QED
        BY <4>1
    <3> QED
      BY <3>2, <3>3, <3>4
  <2>4. merged # <<>>
    BY <1>1, <2>2 DEF MergedTo
  <2>5. {EligibleAt(level) : level \in 1..prev} = PotGroups
    <3>1. \A E : E \in PotGroups <=>
                   \E p \in Contributors : \E level \in 1..committed[p] : E = EligibleAt(level)
      BY DEF PotGroups
    <3>2. \A p \in Contributors : 1..committed[p] \subseteq 1..prev
      BY <1>3, <2>2, <2>3
    <3>3. ASSUME NEW level \in 1..prev
          PROVE  EligibleAt(level) \in PotGroups
      BY <2>1, <3>1
    <3>4. ASSUME NEW E \in PotGroups
          PROVE  \E level \in 1..prev : E = EligibleAt(level)
      BY <3>1, <3>2
    <3> QED
      BY <3>3, <3>4
  <2>6. {DOMAIN merged[k].eligible : k \in 1..Len(merged)} = {EligibleAt(level) : level \in 1..prev}
    BY <1>1 DEF MergedTo
  <2>7. ASSUME NEW E
        PROVE  ChipsTo(prev, E) = ChipsFor(E)
    <3>1. ASSUME NEW x \in ChipsTo(prev, E)
          PROVE  x \in ChipsFor(E)
      <4>1. /\ x = <<x[1], x[2]>> /\ x[1] \in Contributors /\ x[2] \in 1..prev
            /\ x[2] <= committed[x[1]] /\ EligibleAt(x[2]) = E
        BY <3>1 DEF ChipsTo
      <4>2. x[2] \in 1..committed[x[1]]
        BY <1>3, <2>2, <4>1
      <4>3. x[2] \in {level \in 1..committed[x[1]] : EligibleAt(level) = E}
        BY <4>1, <4>2
      <4>4. x \in {x[1]} \X {level \in 1..committed[x[1]] : EligibleAt(level) = E}
        BY <4>1, <4>3
      <4> QED
        BY <4>1, <4>4 DEF ChipsFor
    <3>2. ASSUME NEW x \in ChipsFor(E)
          PROVE  x \in ChipsTo(prev, E)
      <4>1. PICK p \in Contributors :
              x \in {p} \X {level \in 1..committed[p] : EligibleAt(level) = E}
        BY <3>2 DEF ChipsFor
      <4>2. /\ x = <<x[1], x[2]>> /\ x[1] = p /\ x[2] \in 1..committed[p]
            /\ EligibleAt(x[2]) = E
        BY <4>1
      <4>3. x[2] \in 1..prev /\ x[2] <= committed[p]
        BY <1>3, <2>2, <2>3, <4>1, <4>2
      <4>4. x \in Contributors \X (1..prev)
        BY <4>1, <4>2, <4>3
      <4> QED
        BY <4>2, <4>3, <4>4 DEF ChipsTo
    <3> QED
      BY <3>1, <3>2
  <2>8. \A k \in 1..Len(merged) :
          merged[k].amount = Cardinality(ChipsTo(prev, DOMAIN merged[k].eligible))
    BY <1>1 DEF MergedTo
  <2>9. \A k \in 1..Len(merged) :
          /\ k = 1 => DOMAIN merged[k].eligible = EligibleAt(1)
          /\ \A j \in 1..(k - 1) : /\ DOMAIN merged[k].eligible \subseteq DOMAIN merged[j].eligible
                                   /\ DOMAIN merged[k].eligible # DOMAIN merged[j].eligible
    BY <1>1 DEF MergedTo
  <2>10. {DOMAIN merged[k].eligible : k \in DOMAIN merged} = PotGroups
    BY <1>2, <2>5, <2>6
  <2>11. \A k \in DOMAIN merged :
           merged[k].amount = Cardinality(ChipsFor(DOMAIN merged[k].eligible))
    BY <1>2, <2>7, <2>8
  <2> QED
    BY <1>2, <2>2, <2>4, <2>9, <2>10, <2>11
<1> QED
  BY <1>4, <1>5

\* The two loops of computePots keep their invariant.
THEOREM PotsKeepInv == PotsSpec => []PotsInv
<1>1. PotsInit => PotsInv
  BY PotsInitInv
<1>2. PotsInv /\ [PotsNext]_potVars => PotsInv'
  <2> SUFFICES ASSUME PotsInv, [PotsNext]_potVars
               PROVE  PotsInv'
    OBVIOUS
  <2>1. CASE ScanEntry
    BY <2>1, ScanKeepsInv
  <2>2. CASE MergePot
    BY <2>2, MergeKeepsInv
  <2>3. CASE UNCHANGED potVars
    <3>1. UNCHANGED <<committed, folded, actionOrder, entries>>
      BY <2>3 DEF potVars
    <3>2. UNCHANGED <<scanned, prev, raw, taken, merged>>
      BY <2>3 DEF potVars
    <3>3. /\ Contributors' = Contributors
          /\ \A c : EligibleAt(c)' = EligibleAt(c)
          /\ \A c : AtLeast(c)' = AtLeast(c)
          /\ \A E : Listing(E)' = Listing(E)
          /\ PotRecords' = PotRecords
          /\ \A n, c : MergedTo(n, c)' = MergedTo(n, c)
      BY <3>1, LevelsUnchanged
    <3>4. PICK lv, m, c : Bands(lv) /\ m = merged /\ c = lv[taken] /\ MergedTo(m, c)
      BY DEF PotsInv
    <3>5. Bands(lv)'
      BY <3>1, <3>2, <3>3, <3>4 DEF Bands
    <3>6. PotTypes'
      BY <3>1, <3>2, <3>3 DEF PotsInv, PotTypes
    <3>7. MergedTo(m, c)'
      BY <3>3, <3>4
    <3> QED
      BY <3>2, <3>4, <3>5, <3>6, <3>7 DEF PotsInv
  <2> QED
    BY <2>1, <2>2, <2>3 DEF PotsNext
<1> QED
  BY <1>1, <1>2, PTL DEF PotsSpec

\* computePots makes the pots of the levels, for any number of players, commitments,
\* folds and lists of players, in whatever order the sort leaves equal commitments.
THEOREM PotsCorrect == PotsSpec => []PotsFollowLevels
BY PotsKeepInv, PotsInvSuffices, PTL

-----------------------------------------------------------------------------
(***************************************************************************)
(* The composition.                                                        *)
(***************************************************************************)

\* The pots are counted.
EndHandInv == awarded \in Nat

\* How many pots there are.
LEMMA PotCountType ==
  ASSUME PotsInv
  PROVE  PotCount \in Nat
BY LenProperties DEF PotCount, PotsInv, PotTypes

\* A pot's list, as eligibleIDs, is a sequence of seated players.
LEMMA ListsAreSequences ==
  ASSUME PotsInv, PotsComputed, NEW k \in 1..PotCount, NEW list \in EligibleLists(k)
  PROVE  list \in Seq(Holders)
<1>1. CASE merged = <<>>
  BY <1>1, ShowdownAssumption DEF EligibleLists
<1>2. CASE merged # <<>>
  <2> DEFINE E == DOMAIN merged[k].eligible
             n == Cardinality(E)
  <2>1. k \in 1..Len(merged) /\ merged \in Seq(PotRecords)
    BY <1>2 DEF PotCount, PotsInv, PotTypes
  <2>2. merged[k] \in PotRecords
    BY <2>1, LenProperties
  <2>3. E \in SUBSET Seated
    BY <2>2, PotListed
  <2>4. n \in Nat
    BY <2>3, SidePotsAssumption, FS_Subset, FS_CardinalityType
  <2>5. list \in Bijection(1..n, E)
    BY <1>2 DEF EligibleLists, ListsOf
  <2>6. list \in [1..n -> Seated]
    BY <2>3, <2>5 DEF Bijection, Injection
  <2> HIDE DEF n
  <2>7. list \in Seq(Seated)
    BY <2>4, <2>6, FunctionIsSeq
  <2> QED
    BY <2>7, EndHandAssumption
<1> QED
  BY <1>1, <1>2

\* In endHandShowdown as a whole, computePots runs as it does alone.
LEMMA EndHandPots == EndHandSpec => PotsSpec
<1>1. EndHandInit => PotsInit
  BY DEF EndHandInit
<1>2. [EndHandNext]_endHandVars => [PotsNext]_potVars
  <2> SUFFICES ASSUME [EndHandNext]_endHandVars
               PROVE  [PotsNext]_potVars
    OBVIOUS
  <2>1. CASE current > Len(Players) /\ PotsNext /\ UNCHANGED <<vars, awarded>>
    BY <2>1
  <2>2. CASE UNCHANGED potVars
    BY <2>2
  <2> QED
    BY <2>1, <2>2 DEF EndHandNext, NextPot, endHandVars
<1> QED
  BY <1>1, <1>2, PTL DEF EndHandSpec, PotsSpec

\* And hands and winners are found as for any lists of players.
LEMMA EndHandHands == EndHandSpec => Spec
<1>1. EndHandInit => Init
  BY DEF EndHandInit
<1>2. PotsInv /\ EndHandInv /\ [EndHandNext]_endHandVars => [Next]_vars
  <2> SUFFICES ASSUME PotsInv, EndHandInv, [EndHandNext]_endHandVars
               PROVE  [Next]_vars
    OBVIOUS
  <2>1. CASE BestHand \/ SkipPlayer \/ PotWinners \/ firstEligibleInOrder
    BY <2>1 DEF Next
  <2>2. CASE UNCHANGED vars
    BY <2>2
  <2>3. CASE /\ PotsComputed /\ awarded < PotCount
             /\ \E eligibleIDs \in EligibleLists(awarded + 1) : AwardPot(eligibleIDs)
    <3>1. PICK list \in EligibleLists(awarded + 1) : AwardPot(list)
      BY <2>3
    <3>2. awarded + 1 \in 1..PotCount
      BY <2>3, PotCountType DEF EndHandInv
    <3>3. list \in Seq(Holders)
      BY <2>3, <3>2, ListsAreSequences
    <3> QED
      BY <3>1, <3>3 DEF Next
  <2> QED
    BY <2>1, <2>2, <2>3 DEF EndHandNext, NextPot, endHandVars
<1>3. EndHandInit => EndHandInv
  BY DEF EndHandInit, EndHandInv
<1>4. EndHandInv /\ [EndHandNext]_endHandVars => EndHandInv'
  BY DEF EndHandInv, EndHandNext, NextPot, endHandVars
<1> QED
  BY <1>1, <1>2, <1>3, <1>4, EndHandPots, PotsKeepInv, PTL DEF EndHandSpec, Spec

\* A hand that ends with a showdown: the pots are those of the levels, every evaluated
\* player has a best hand, and the winners of each pot are the evaluated players on its
\* list with an unbeaten one.
THEOREM EndHandCorrect ==
  EndHandSpec => [](BestHandIsBest /\ WinnersHoldBestHand /\ PotsFollowLevels)
BY EndHandHands, EndHandPots, BestHandCorrect, WinnersCorrect, PotsCorrect, PTL

=============================================================================
