---------------------------- MODULE Counting_proofs ----------------------------
(***************************************************************************)
(* Least elements, induction over finite sets, and what the sums of         *)
(* Counting do when amounts are moved, added and divided.  The library's    *)
(* induction theorems take an operator as parameter; SubsetInduction takes  *)
(* the set of the good subsets instead.                                    *)
(***************************************************************************)
EXTENDS Counting, FiniteSetTheorems, TLAPS

\* Among finite sets some set includes no other one of them.
LEMMA SmallestSetExists ==
  ASSUME NEW S, NEW T, T \subseteq FiniteSubsetsOf(S), T # {}
  PROVE  \E m \in T : \A y \in T : ~(<<y, m>> \in StrictSubsetOrdering(S))
<1>1. IsWellFoundedOn(StrictSubsetOrdering(S), FiniteSubsetsOf(S))
  BY FS_StrictSubsetOrderingWellFounded
<1> QED
  BY <1>1, WFMin, Zenon

\* Some element of a nonempty set has the smallest number: the lists that
\* seatedActivePlayersBySeats and othersInOrder build have a first element, and the
\* rows that FindEventByCommandID orders by sequence have a first row.  The intervals
\* 0..f[p] are ordered by inclusion, which is well-founded.
LEMMA MinimumExists ==
  ASSUME NEW S, S # {}, NEW f, \A p \in S : f[p] \in Nat
  PROVE  \E p \in S : \A q \in S : f[p] <= f[q]
<1> DEFINE T == {0..f[p] : p \in S}
<1>1. T \subseteq FiniteSubsetsOf(Nat)
  <2>1. ASSUME NEW p \in S
        PROVE  0..f[p] \in FiniteSubsetsOf(Nat)
    <3>1. IsFiniteSet(0..f[p])
      BY FS_Interval
    <3> QED
      BY <3>1 DEF FiniteSubsetsOf
  <2> QED
    BY <2>1
<1>2. T # {}
  OBVIOUS
<1>4. PICK m \in T : \A y \in T : ~(<<y, m>> \in StrictSubsetOrdering(Nat))
  <2> HIDE DEF T
  <2> QED
    BY <1>1, <1>2, SmallestSetExists
<1>5. PICK p \in S : m = 0..f[p]
  BY <1>4
<1>6. ASSUME NEW q \in S
      PROVE  f[p] <= f[q]
  <2> SUFFICES ASSUME f[q] < f[p] PROVE FALSE
    OBVIOUS
  <2>1. f[p] \in Nat /\ f[q] \in Nat
    OBVIOUS
  <2>2. (0..f[q]) \subseteq (0..f[p]) /\ (0..f[q]) # (0..f[p])
    BY <2>1
  <2>3. (0..f[q]) \in SUBSET Nat /\ (0..f[p]) \in SUBSET Nat
    BY <2>1
  <2>4. <<0..f[q], 0..f[p]>> \in StrictSubsetOrdering(Nat)
    BY <2>2, <2>3 DEF StrictSubsetOrdering
  <2> QED
    BY <1>4, <1>5, <2>4
<1> QED
  BY <1>6

\* A set of subsets of a finite set that holds the empty set, and every subset whose
\* reduction by one element it holds, holds the finite set itself.
LEMMA SubsetInduction ==
  ASSUME NEW S, IsFiniteSet(S), NEW G, {} \in G,
         \A T \in SUBSET S : \A x \in T : T \ {x} \in G => T \in G
  PROVE  S \in G
<1> SUFFICES ASSUME S \notin G PROVE FALSE
  OBVIOUS
<1> DEFINE B == (SUBSET S) \ G
<1>1. B \subseteq FiniteSubsetsOf(S)
  BY FS_Subset DEF FiniteSubsetsOf
<1>2. B # {}
  OBVIOUS
<1>4. PICK m \in B : \A y \in B : ~(<<y, m>> \in StrictSubsetOrdering(S))
  <2> HIDE DEF B
  <2> QED
    BY <1>1, <1>2, SmallestSetExists
<1>5. PICK x \in m : TRUE
  BY <1>4
<1>6. m \ {x} \in SUBSET S /\ <<m \ {x}, m>> \in StrictSubsetOrdering(S)
  BY <1>4, <1>5 DEF StrictSubsetOrdering
<1>7. m \ {x} \in G
  BY <1>4, <1>6
<1> QED
  BY <1>4, <1>5, <1>7

-----------------------------------------------------------------------------
(***************************************************************************)
(* Sums.                                                                   *)
(***************************************************************************)

\* A union of finitely many finite sets, indexed by the finite set S, is finite.
LEMMA IndexedUnionFinite ==
  ASSUME NEW S, IsFiniteSet(S), NEW g, \A x \in S : IsFiniteSet(g[x])
  PROVE  IsFiniteSet(UNION {g[x] : x \in S})
<1> DEFINE T == {g[x] : x \in S}
<1> DEFINE h == [x \in S |-> g[x]]
<1>1. h \in Surjection(S, T)
  BY DEF Surjection
<1>2. IsFiniteSet(T)
  <2> HIDE DEF T, h
  <2> QED
    BY <1>1, FS_Surjection
<1>3. \A t \in T : IsFiniteSet(t)
  OBVIOUS
<1> HIDE DEF T
<1>4. IsFiniteSet(UNION T)
  BY <1>2, <1>3, FS_UNION
<1> QED
  BY <1>4 DEF T

\* Chips counted as pairs of an owner and an index are finite in number when the
\* indices of every owner are bounded.
LEMMA PairsFinite ==
  ASSUME NEW S, IsFiniteSet(S), NEW h, NEW b,
         \A x \in S : b[x] \in Int /\ h[x] \subseteq {x} \X (1..b[x])
  PROVE  Cardinality(UNION {h[x] : x \in S}) \in Nat
<1>1. ASSUME NEW x \in S
      PROVE  IsFiniteSet(h[x])
  <2>1. IsFiniteSet(1..b[x])
    BY FS_Interval
  <2>2. IsFiniteSet({x})
    BY FS_Singleton
  <2>3. IsFiniteSet({x} \X (1..b[x]))
    BY <2>1, <2>2, FS_Product
  <2> QED
    BY <2>3, FS_Subset
<1>2. IsFiniteSet(UNION {h[x] : x \in S})
  BY <1>1, IndexedUnionFinite
<1> QED
  BY <1>2, FS_CardinalityType

\* The sum of finitely many integer amounts is a natural number.
LEMMA TotalType ==
  ASSUME NEW S, IsFiniteSet(S), NEW f \in [S -> Int]
  PROVE  Total(f) \in Nat
<1> DEFINE h == [x \in S |-> {x} \X (1..f[x])]
<1>1. \A x \in S : f[x] \in Int /\ h[x] \subseteq {x} \X (1..f[x])
  OBVIOUS
<1>2. {h[x] : x \in S} = {{x} \X (1..f[x]) : x \in DOMAIN f}
  OBVIOUS
<1>3. Cardinality(UNION {h[x] : x \in S}) \in Nat
  <2> HIDE DEF h
  <2> QED
    BY <1>1, PairsFinite
<1> QED
  BY <1>2, <1>3 DEF Total, Units

\* Amounts that are all zero add up to zero.
LEMMA TotalZero ==
  ASSUME NEW S, NEW f \in [S -> Int], \A x \in S : f[x] = 0
  PROVE  Total(f) = 0
<1>1. \A x \in S : {x} \X (1..f[x]) = {}
  OBVIOUS
<1>2. UNION {{x} \X (1..f[x]) : x \in DOMAIN f} = {}
  BY <1>1
<1> QED
  BY <1>2, FS_EmptySet DEF Total, Units

\* A chip is a pair of its owner and an index up to the owner's amount.
LEMMA UnitsMember ==
  ASSUME NEW S, NEW f, DOMAIN f = S, NEW c
  PROVE  c \in Units(f) <=> \E x \in S : \E i \in 1..f[x] : c = <<x, i>>
BY DEF Units

\* The chips of finitely many amounts are finitely many.
LEMMA UnitsFinite ==
  ASSUME NEW S, IsFiniteSet(S), NEW f \in [S -> Int]
  PROVE  IsFiniteSet(Units(f))
<1> DEFINE h == [x \in S |-> {x} \X (1..f[x])]
<1>1. ASSUME NEW x \in S
      PROVE  IsFiniteSet(h[x])
  <2>1. f[x] \in Int
    OBVIOUS
  <2>2. IsFiniteSet(1..f[x])
    BY <2>1, FS_Interval
  <2>3. IsFiniteSet({x})
    BY FS_Singleton
  <2> QED
    BY <2>2, <2>3, FS_Product
<1>2. UNION {h[x] : x \in S} = Units(f)
  BY DEF Units
<1>3. IsFiniteSet(UNION {h[x] : x \in S})
  <2> HIDE DEF h
  <2> QED
    BY <1>1, IndexedUnionFinite
<1> QED
  BY <1>2, <1>3

\* The part of f on the set T.
Part(f, T) == [x \in T |-> f[x]]

\* A sum is one of its amounts and the sum of the others.
LEMMA TotalRemove ==
  ASSUME NEW S, IsFiniteSet(S), NEW f \in [S -> Nat], NEW x \in S
  PROVE  Total(f) = f[x] + Total(Part(f, S \ {x}))
<1> DEFINE g == Part(f, S \ {x})
<1> DEFINE own == {x} \X (1..f[x])
<1>1. IsFiniteSet(S \ {x}) /\ g \in [S \ {x} -> Int] /\ g \in [S \ {x} -> Nat]
  BY FS_RemoveElement DEF Part
<1>2. IsFiniteSet(Units(g)) /\ Total(g) \in Nat
  <2> HIDE DEF g
  <2> QED
    BY <1>1, UnitsFinite, TotalType
<1>3. f[x] \in Nat /\ IsFiniteSet(1..f[x]) /\ Cardinality(1..f[x]) = f[x]
  BY FS_Interval
<1>4. IsFiniteSet({x}) /\ Cardinality({x}) = 1
  BY FS_Singleton
<1>5. IsFiniteSet(own) /\ Cardinality(own) = f[x]
  BY <1>3, <1>4, FS_Product
<1>6. Units(f) = own \cup Units(g)
  BY DEF Units, Part
<1>7. own \cap Units(g) = {}
  BY DEF Units, Part
<1>8. Cardinality(own \cap Units(g)) = 0
  BY <1>7, FS_EmptySet
<1>9. Cardinality(own \cup Units(g)) = f[x] + Cardinality(Units(g)) - 0
  <2> HIDE DEF own, g
  <2> QED
    BY <1>2, <1>5, <1>8, FS_Union
<1> QED
  BY <1>2, <1>3, <1>6, <1>9 DEF Total

\* The same for the part of f on a finite set.
LEMMA PartRemove ==
  ASSUME NEW S, NEW f \in [S -> Nat], NEW T \in SUBSET S, IsFiniteSet(T), NEW x \in T
  PROVE  /\ Total(Part(f, T)) = f[x] + Total(Part(f, T \ {x}))
         /\ Total(Part(f, T \ {x})) \in Nat
<1>1. Part(f, T) \in [T -> Nat] /\ Part(f, T)[x] = f[x]
  BY DEF Part
<1>2. Part(Part(f, T), T \ {x}) = Part(f, T \ {x})
  BY DEF Part
<1>3. Total(Part(f, T)) = f[x] + Total(Part(f, T \ {x}))
  BY <1>1, <1>2, TotalRemove
<1>4. IsFiniteSet(T \ {x}) /\ Part(f, T \ {x}) \in [T \ {x} -> Int]
  BY FS_RemoveElement DEF Part
<1> QED
  BY <1>3, <1>4, TotalType

\* When one amount changes, the sum changes by as much.
LEMMA TotalPoint ==
  ASSUME NEW S, IsFiniteSet(S), NEW f \in [S -> Nat], NEW g \in [S -> Nat],
         NEW x \in S, \A y \in S : y # x => g[y] = f[y]
  PROVE  Total(g) = Total(f) + g[x] - f[x]
<1>1. Part(f, S \ {x}) = Part(g, S \ {x})
  BY DEF Part
<1>2. Total(f) = f[x] + Total(Part(f, S \ {x})) /\ Total(g) = g[x] + Total(Part(g, S \ {x}))
  BY TotalRemove
<1>3. Total(f) \in Nat /\ Total(g) \in Nat
  BY TotalType
<1>4. f[x] \in Nat /\ g[x] \in Nat
  OBVIOUS
<1>5. IsFiniteSet(S \ {x}) /\ Part(f, S \ {x}) \in [S \ {x} -> Int]
  BY FS_RemoveElement DEF Part
<1>6. Total(Part(f, S \ {x})) \in Nat
  BY <1>5, TotalType
<1> QED
  BY <1>1, <1>2, <1>3, <1>4, <1>6

\* No amount exceeds the sum it is part of.
LEMMA TotalBound ==
  ASSUME NEW S, IsFiniteSet(S), NEW f \in [S -> Nat], NEW x \in S
  PROVE  f[x] <= Total(f)
<1>1. IsFiniteSet(S \ {x}) /\ Part(f, S \ {x}) \in [S \ {x} -> Int]
  BY FS_RemoveElement DEF Part
<1>2. Total(Part(f, S \ {x})) \in Nat
  BY <1>1, TotalType
<1> QED
  BY <1>2, TotalRemove

\* Amounts that are nowhere larger have no larger sum.
LEMMA TotalLeq ==
  ASSUME NEW S, IsFiniteSet(S), NEW f \in [S -> Int], NEW g \in [S -> Int],
         \A x \in S : f[x] <= g[x]
  PROVE  Total(f) <= Total(g)
<1>1. ASSUME NEW c \in Units(f) PROVE c \in Units(g)
  <2>1. PICK x \in S : \E i \in 1..f[x] : c = <<x, i>>
    BY UnitsMember
  <2>2. \E i \in 1..g[x] : c = <<x, i>>
    BY <2>1
  <2> QED
    BY <2>2, UnitsMember
<1>2. Units(f) \in SUBSET Units(g)
  BY <1>1
<1>3. IsFiniteSet(Units(g))
  BY UnitsFinite
<1> QED
  BY <1>2, <1>3, FS_Subset DEF Total

\* The sums of two lists of amounts add up to the sum of the list of their sums.
LEMMA TotalAdd ==
  ASSUME NEW S, IsFiniteSet(S), NEW f \in [S -> Nat], NEW g \in [S -> Nat],
         NEW h \in [S -> Nat], \A x \in S : h[x] = f[x] + g[x]
  PROVE  Total(h) = Total(f) + Total(g)
<1> DEFINE G == {T \in SUBSET S : Total(Part(h, T)) = Total(Part(f, T)) + Total(Part(g, T))}
<1>1. {} \in G
  <2>1. Total(Part(h, {})) = 0 /\ Total(Part(f, {})) = 0 /\ Total(Part(g, {})) = 0
    <3>1. Units(Part(h, {})) = {} /\ Units(Part(f, {})) = {} /\ Units(Part(g, {})) = {}
      BY DEF Units, Part
    <3> QED
      BY <3>1, FS_EmptySet DEF Total
  <2> QED
    BY <2>1
<1>2. ASSUME NEW T \in SUBSET S, NEW x \in T, T \ {x} \in G
      PROVE  T \in G
  <2>1. IsFiniteSet(T) /\ IsFiniteSet(T \ {x})
    BY FS_Subset, FS_RemoveElement
  <2>2. Total(Part(h, T)) = h[x] + Total(Part(h, T \ {x}))
    BY <2>1, PartRemove
  <2>3. Total(Part(f, T)) = f[x] + Total(Part(f, T \ {x}))
    BY <2>1, PartRemove
  <2>4. Total(Part(g, T)) = g[x] + Total(Part(g, T \ {x}))
    BY <2>1, PartRemove
  <2>5. Total(Part(f, T \ {x})) \in Nat /\ Total(Part(g, T \ {x})) \in Nat
    BY <2>1, PartRemove
  <2>6. Total(Part(h, T \ {x})) = Total(Part(f, T \ {x})) + Total(Part(g, T \ {x}))
    BY <1>2
  <2>7. h[x] = f[x] + g[x] /\ f[x] \in Nat /\ g[x] \in Nat
    OBVIOUS
  <2>8. Total(Part(h, T)) = Total(Part(f, T)) + Total(Part(g, T))
    BY <2>2, <2>3, <2>4, <2>5, <2>6, <2>7
  <2> QED
    BY <2>8
<1>3. S \in G
  <2> HIDE DEF G
  <2> QED
    BY <1>1, <1>2, SubsetInduction
<1>4. Part(h, S) = h /\ Part(f, S) = f /\ Part(g, S) = g
  BY DEF Part
<1> QED
  BY <1>3, <1>4

\* Amounts moved between two lists leave the sum of both as it is.
LEMMA TotalMoves ==
  ASSUME NEW S, IsFiniteSet(S), NEW f \in [S -> Nat], NEW g \in [S -> Nat],
         NEW f2 \in [S -> Nat], NEW g2 \in [S -> Nat],
         \A x \in S : f2[x] + g2[x] = f[x] + g[x]
  PROVE  Total(f2) + Total(g2) = Total(f) + Total(g)
<1> DEFINE h == [x \in S |-> f[x] + g[x]]
<1>1. h \in [S -> Nat] /\ \A x \in S : h[x] = f[x] + g[x]
  OBVIOUS
<1>2. \A x \in S : h[x] = f2[x] + g2[x]
  OBVIOUS
<1> HIDE DEF h
<1>3. Total(h) = Total(f) + Total(g)
  BY <1>1, TotalAdd
<1>4. Total(h) = Total(f2) + Total(g2)
  BY <1>1, <1>2, TotalAdd
<1> QED
  BY <1>3, <1>4

\* The same amount for every element of W and nothing for the others.
LEMMA TotalUniform ==
  ASSUME NEW S, IsFiniteSet(S), NEW W \in SUBSET S, NEW d \in Nat
  PROVE  Total([x \in S |-> IF x \in W THEN d ELSE 0]) = Cardinality(W) * d
<1> DEFINE f == [x \in S |-> IF x \in W THEN d ELSE 0]
<1>1. Units(f) = W \X (1..d)
  BY DEF Units
<1>2. IsFiniteSet(1..d) /\ Cardinality(1..d) = d
  BY FS_Interval
<1>3. IsFiniteSet(W)
  BY FS_Subset
<1>4. Cardinality(W \X (1..d)) = Cardinality(W) * d
  BY <1>2, <1>3, FS_Product
<1> QED
  BY <1>1, <1>4 DEF Total

\* An amount at one element only.
LEMMA TotalSingle ==
  ASSUME NEW S, IsFiniteSet(S), NEW y \in S, NEW d \in Nat
  PROVE  Total([x \in S |-> IF x = y THEN d ELSE 0]) = d
<1>1. Total([x \in S |-> IF x \in {y} THEN d ELSE 0]) = Cardinality({y}) * d
  BY TotalUniform
<1>2. Cardinality({y}) = 1
  BY FS_Singleton
<1>3. [x \in S |-> IF x \in {y} THEN d ELSE 0] = [x \in S |-> IF x = y THEN d ELSE 0]
  OBVIOUS
<1> QED
  BY <1>1, <1>2, <1>3

\* The sum of column y of M over the rows in T.
Column(M, T, y) == Total([x \in T |-> M[x][y]])

\* A table of amounts has the same sum by rows and by columns.
LEMMA TotalSwap ==
  ASSUME NEW S, IsFiniteSet(S), NEW C, IsFiniteSet(C), NEW M,
         \A x \in S : M[x] \in [C -> Nat]
  PROVE  Total([x \in S |-> Total(M[x])]) = Total([y \in C |-> Column(M, S, y)])
<1> DEFINE rows == [x \in S |-> Total(M[x])]
<1> DEFINE cols(T) == [y \in C |-> Column(M, T, y)]
<1> DEFINE G == {T \in SUBSET S : Total(Part(rows, T)) = Total(cols(T))}
<1>1. rows \in [S -> Nat]
  <2>1. \A x \in S : M[x] \in [C -> Int]
    OBVIOUS
  <2>2. \A x \in S : Total(M[x]) \in Nat
    BY <2>1, TotalType
  <2> QED
    BY <2>2
<1>2. ASSUME NEW T \in SUBSET S
      PROVE  cols(T) \in [C -> Nat]
  <2>1. IsFiniteSet(T)
    BY FS_Subset
  <2>2. ASSUME NEW y \in C PROVE Column(M, T, y) \in Nat
    <3>1. [x \in T |-> M[x][y]] \in [T -> Int]
      OBVIOUS
    <3> QED
      BY <2>1, <3>1, TotalType DEF Column
  <2> QED
    BY <2>2
<1>3. {} \in G
  <2>1. Units(Part(rows, {})) = {}
    BY DEF Units, Part
  <2>2. Total(Part(rows, {})) = 0
    BY <2>1, FS_EmptySet DEF Total
  <2>3. \A y \in C : Column(M, {}, y) = 0
    <3> TAKE y \in C
    <3>1. Units([x \in {} |-> M[x][y]]) = {}
      BY DEF Units
    <3> QED
      BY <3>1, FS_EmptySet DEF Total, Column
  <2>4. cols({}) \in [C -> Int] /\ \A y \in C : cols({})[y] = 0
    BY <2>3
  <2>5. Total(cols({})) = 0
    <3> HIDE DEF cols
    <3> QED
      BY <2>4, TotalZero
  <2> QED
    BY <2>2, <2>5
<1>4. ASSUME NEW T \in SUBSET S, NEW x \in T, T \ {x} \in G
      PROVE  T \in G
  <2>1. IsFiniteSet(T) /\ T \ {x} \in SUBSET S
    BY FS_Subset
  <2>2. Total(Part(rows, T)) = Total(M[x]) + Total(Part(rows, T \ {x}))
    <3>1. rows[x] = Total(M[x])
      OBVIOUS
    <3>2. Total(Part(rows, T)) = rows[x] + Total(Part(rows, T \ {x}))
      <4>1. IsFiniteSet(T)
        BY <2>1
      <4> HIDE DEF rows
      <4> QED
        BY <1>1, <4>1, PartRemove
    <3> QED
      BY <3>1, <3>2
  <2>3. \A y \in C : cols(T)[y] = M[x][y] + cols(T \ {x})[y]
    <3> TAKE y \in C
    <3> DEFINE col == [z \in S |-> M[z][y]]
    <3>1. col \in [S -> Nat] /\ col[x] = M[x][y]
      OBVIOUS
    <3>2. Part(col, T) = [z \in T |-> M[z][y]]
          /\ Part(col, T \ {x}) = [z \in T \ {x} |-> M[z][y]]
      BY DEF Part
    <3>3. Total(Part(col, T)) = col[x] + Total(Part(col, T \ {x}))
      <4> HIDE DEF col
      <4> QED
        BY <2>1, <3>1, PartRemove
    <3> QED
      BY <3>1, <3>2, <3>3 DEF Column
  <2>4. M[x] \in [C -> Nat] /\ cols(T \ {x}) \in [C -> Nat] /\ cols(T) \in [C -> Nat]
    BY <1>2, <2>1
  <2>5. Total(cols(T)) = Total(M[x]) + Total(cols(T \ {x}))
    <3> DEFINE row == M[x]
    <3> DEFINE all == cols(T)
    <3> DEFINE others == cols(T \ {x})
    <3>1. /\ row \in [C -> Nat] /\ others \in [C -> Nat] /\ all \in [C -> Nat]
          /\ \A y \in C : all[y] = row[y] + others[y]
      BY <2>3, <2>4
    <3> HIDE DEF row, all, others
    <3>2. Total(all) = Total(row) + Total(others)
      BY <3>1, TotalAdd
    <3> QED
      BY <3>2 DEF row, all, others
  <2>6. Total(Part(rows, T \ {x})) = Total(cols(T \ {x}))
    BY <1>4
  <2>7. Total(Part(rows, T)) = Total(cols(T))
    BY <2>2, <2>5, <2>6
  <2> QED
    BY <2>7
<1>5. S \in G
  <2> HIDE DEF G
  <2> QED
    BY <1>3, <1>4, SubsetInduction
<1>6. Part(rows, S) = rows
  BY DEF Part
<1> QED
  BY <1>5, <1>6

\* The sizes of disjoint finite sets add up to the size of their union.
LEMMA TotalDisjoint ==
  ASSUME NEW P, IsFiniteSet(P), NEW A, \A E \in P : IsFiniteSet(A[E]),
         \A E, F \in P : E # F => A[E] \cap A[F] = {}
  PROVE  Total([E \in P |-> Cardinality(A[E])]) = Cardinality(UNION {A[E] : E \in P})
<1> DEFINE size == [E \in P |-> Cardinality(A[E])]
<1> DEFINE G == {T \in SUBSET P : Total(Part(size, T)) = Cardinality(UNION {A[E] : E \in T})}
<1>1. size \in [P -> Nat]
  BY FS_CardinalityType
<1>2. {} \in G
  <2>1. Units(Part(size, {})) = {}
    BY DEF Units, Part
  <2>2. UNION {A[E] : E \in {}} = {}
    OBVIOUS
  <2>3. Total(Part(size, {})) = 0 /\ Cardinality(UNION {A[E] : E \in {}}) = 0
    BY <2>1, <2>2, FS_EmptySet DEF Total
  <2> QED
    BY <2>3
<1>3. ASSUME NEW T \in SUBSET P, NEW F \in T, T \ {F} \in G
      PROVE  T \in G
  <2> DEFINE rest == UNION {A[E] : E \in T \ {F}}
  <2>1. IsFiniteSet(T) /\ IsFiniteSet(T \ {F})
    BY FS_Subset, FS_RemoveElement
  <2>2. Total(Part(size, T)) = Cardinality(A[F]) + Total(Part(size, T \ {F}))
    <3>1. size[F] = Cardinality(A[F])
      OBVIOUS
    <3> HIDE DEF size
    <3> QED
      BY <1>1, <2>1, <3>1, PartRemove
  <2>3. IsFiniteSet(rest) /\ IsFiniteSet(A[F])
    BY <2>1, IndexedUnionFinite
  <2>4. A[F] \cap rest = {}
    OBVIOUS
  <2>5. UNION {A[E] : E \in T} = A[F] \cup rest
    OBVIOUS
  <2>6. Cardinality(A[F] \cup rest) = Cardinality(A[F]) + Cardinality(rest) - 0
    <3>1. Cardinality(A[F] \cap rest) = 0
      BY <2>4, FS_EmptySet
    <3> HIDE DEF rest
    <3> QED
      BY <2>3, <3>1, FS_Union
  <2>7. Cardinality(A[F]) \in Nat /\ Cardinality(rest) \in Nat
    <3> HIDE DEF rest
    <3> QED
      BY <2>3, FS_CardinalityType
  <2>8. Total(Part(size, T \ {F})) = Cardinality(rest)
    BY <1>3
  <2>9. Cardinality(UNION {A[E] : E \in T}) = Cardinality(A[F] \cup rest)
    BY <2>5
  <2>10. Total(Part(size, T)) = Cardinality(UNION {A[E] : E \in T})
    <3> HIDE DEF rest, size
    <3> QED
      BY <2>2, <2>6, <2>7, <2>8, <2>9
  <2> QED
    BY <2>10
<1>4. P \in G
  <2> HIDE DEF G
  <2> QED
    BY <1>2, <1>3, SubsetInduction
<1>5. Part(size, P) = size
  BY DEF Part
<1> QED
  BY <1>4, <1>5

\* Dividing an amount among the members of W, one of whom also takes the remainder,
\* gives out all of it.
LEMMA TotalShares ==
  ASSUME NEW S, IsFiniteSet(S), NEW W \in SUBSET S, NEW w \in W, NEW n \in Nat,
         NEW f \in [S -> Nat],
         \A x \in S : f[x] = (IF x \in W THEN n \div Cardinality(W) ELSE 0)
                               + (IF x = w THEN n % Cardinality(W) ELSE 0)
  PROVE  Total(f) = n
<1> DEFINE d == n \div Cardinality(W)
<1> DEFINE r == n % Cardinality(W)
<1> DEFINE even == [x \in S |-> IF x \in W THEN d ELSE 0]
<1> DEFINE odd == [x \in S |-> IF x = w THEN r ELSE 0]
<1>1. IsFiniteSet(W)
  BY FS_Subset
<1>2. Cardinality(W) \in Nat /\ Cardinality(W) # 0
  BY <1>1, FS_CardinalityType, FS_EmptySet
<1>3. d \in Nat /\ r \in Nat /\ n = (Cardinality(W) * d) + r
  <2>1. \A k \in Nat \ {0} :
          n \div k \in Nat /\ n % k \in Nat /\ n = (k * (n \div k)) + (n % k)
    OBVIOUS
  <2> QED
    BY <1>2, <2>1
<1>4. Total(even) = Cardinality(W) * d /\ Total(odd) = r
  <2> HIDE DEF d, r
  <2> QED
    BY <1>3, TotalUniform, TotalSingle
<1>5. even \in [S -> Nat] /\ odd \in [S -> Nat] /\ \A x \in S : f[x] = even[x] + odd[x]
  BY <1>3
<1>6. Total(f) = Total(even) + Total(odd)
  <2> HIDE DEF even, odd
  <2> QED
    BY <1>5, TotalAdd
<1> QED
  BY <1>3, <1>4, <1>6

\* Some element of a nonempty finite set has the largest number.
LEMMA MaximumExists ==
  ASSUME NEW S, IsFiniteSet(S), S # {}, NEW f, \A p \in S : f[p] \in Nat
  PROVE  \E p \in S : \A q \in S : f[q] <= f[p]
<1> DEFINE g == [p \in S |-> f[p]]
<1> DEFINE h == [p \in S |-> Total(g) - f[p]]
<1>1. g \in [S -> Nat] /\ \A p \in S : g[p] = f[p]
  OBVIOUS
<1>2. Total(g) \in Nat /\ \A p \in S : f[p] <= Total(g)
  <2>1. g \in [S -> Int]
    BY <1>1
  <2> HIDE DEF g
  <2> QED
    BY <1>1, <2>1, TotalType, TotalBound
<1> HIDE DEF g
<1>3. \A p \in S : h[p] \in Nat
  BY <1>2
<1>4. PICK p \in S : \A q \in S : h[p] <= h[q]
  <2> HIDE DEF h
  <2> QED
    BY <1>3, MinimumExists
<1>5. \A q \in S : f[q] <= f[p]
  BY <1>2, <1>4
<1> QED
  BY <1>5

=============================================================================
