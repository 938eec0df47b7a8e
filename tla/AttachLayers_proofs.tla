------------------------- MODULE AttachLayers_proofs -------------------------
(***************************************************************************)
(* Theorems about AttachLayers, for any paths and contents and lists of    *)
(* layers of any length.                                                   *)
(***************************************************************************)
EXTENDS AttachLayers, FiniteSetTheorems, SequenceTheorems, TLAPS

-----------------------------------------------------------------------------
(***************************************************************************)
(* Sorting.                                                                *)
(***************************************************************************)

\* A set of pairs orders S strictly and totally.
Orders(R, S) ==
  /\ \A x \in S : <<x, x>> \notin R
  /\ \A x, y, z \in S : <<x, y>> \in R /\ <<y, z>> \in R => <<x, z>> \in R
  /\ \A x, y \in S : x = y \/ <<x, y>> \in R \/ <<y, x>> \in R

Below(R, S, x) == {y \in S : <<y, x>> \in R}

\* Elements of an ordered set differ in the number of those below.
LEMMA RankIsInjective ==
  ASSUME NEW S, IsFiniteSet(S), NEW R, Orders(R, S)
  PROVE  /\ \A x \in S : Cardinality(Below(R, S, x)) \in 0..(Cardinality(S) - 1)
         /\ \A x, y \in S : Cardinality(Below(R, S, x)) = Cardinality(Below(R, S, y)) => x = y
<1>1. \A x \in S : IsFiniteSet(Below(R, S, x))
  BY FS_Subset DEF Below
<1>2. ASSUME NEW x \in S
      PROVE  Cardinality(Below(R, S, x)) \in 0..(Cardinality(S) - 1)
  <2>1. Below(R, S, x) \in SUBSET (S \ {x})
    BY DEF Below, Orders
  <2>2. IsFiniteSet(S \ {x}) /\ Cardinality(S \ {x}) = Cardinality(S) - 1
    BY FS_RemoveElement
  <2>3. Cardinality(Below(R, S, x)) <= Cardinality(S) - 1
    BY <2>1, <2>2, FS_Subset
  <2>. QED
    BY <1>1, <2>3, FS_CardinalityType
<1>3. ASSUME NEW x \in S, NEW y \in S, <<x, y>> \in R
      PROVE  Cardinality(Below(R, S, x)) # Cardinality(Below(R, S, y))
  <2>1. Below(R, S, x) \in SUBSET Below(R, S, y)
    BY <1>3 DEF Below, Orders
  <2>2. x \in Below(R, S, y) /\ x \notin Below(R, S, x)
    BY <1>3 DEF Below, Orders
  <2>. QED
    BY <1>1, <2>1, <2>2, FS_Subset
<1>. QED
  BY <1>2, <1>3 DEF Orders

\* Arranged lists each element of an ordered set at the position given by the
\* number of those below it.
LEMMA ArrangedIsBijection ==
  ASSUME NEW S, IsFiniteSet(S), NEW R, Orders(R, S),
         NEW places, places = {<<Cardinality(Below(R, S, x)), x>> : x \in S}
  PROVE  /\ Arranged(S, places) \in Bijection(1..Cardinality(S), S)
         /\ \A k \in 1..Cardinality(S) : Cardinality(Below(R, S, Arranged(S, places)[k])) = k - 1
<1>. DEFINE C == Cardinality(S)
            n(x) == Cardinality(Below(R, S, x))
            f == [x \in S |-> n(x) + 1]
            A == Arranged(S, places)
<1>1. C \in Nat
  BY FS_CardinalityType
<1>2. /\ \A x \in S : n(x) \in 0..(C - 1)
      /\ \A x, y \in S : n(x) = n(y) => x = y
  BY RankIsInjective
<1>3. f \in Injection(S, 1..C)
  <2>1. \A x \in S : n(x) + 1 \in 1..C
    BY <1>1, <1>2
  <2>2. \A x, y \in S : n(x) + 1 = n(y) + 1 => x = y
    BY <1>1, <1>2
  <2>. HIDE DEF n
  <2>. QED
    BY <2>1, <2>2 DEF Injection, IsInjective
<1>4. f \in Surjection(S, 1..C)
  <2>1. IsFiniteSet(1..C) /\ Cardinality(1..C) = C
    BY <1>1, FS_Interval
  <2>. HIDE DEF f
  <2>. QED
    BY <1>3, <2>1, FS_Injection
<1>5. ASSUME NEW k \in 1..C
      PROVE  A[k] \in S /\ n(A[k]) = k - 1
  <2>1. PICK x \in S : f[x] = k
    BY <1>4 DEF Surjection
  <2>2. n(x) = k - 1
    BY <1>1, <1>2, <2>1
  <2>3. A[k] = (CHOOSE z \in places : z[1] = k - 1)[2]
    BY DEF Arranged
  <2>4. \E z \in places : z[1] = k - 1
    <3>1. <<n(x), x>> \in places
      OBVIOUS
    <3>. HIDE DEF n
    <3>. QED
      BY <2>2, <3>1
  <2>5. PICK z \in places : z = (CHOOSE w \in places : w[1] = k - 1) /\ z[1] = k - 1
    BY <2>4
  <2>6. PICK y \in S : z = <<n(y), y>>
    BY <2>5
  <2>. HIDE DEF n, A
  <2>7. z[1] = n(y) /\ z[2] = y
    BY <2>6
  <2>8. A[k] = y /\ n(y) = k - 1
    BY <2>3, <2>5, <2>7
  <2>. QED
    BY <2>8
<1>6. DOMAIN A = 1..C /\ A = [k \in 1..C |-> A[k]]
  BY DEF Arranged
<1>. HIDE DEF n, A, f
<1>7. A \in Injection(1..C, S)
  <2>1. \A k, m \in 1..C : A[k] = A[m] => k = m
    BY <1>1, <1>5
  <2>. QED
    BY <1>5, <1>6, <2>1 DEF Injection, IsInjective
<1>8. \A x \in S : \E k \in 1..C : A[k] = x
  <2>. TAKE x \in S
  <2>1. n(x) + 1 \in 1..C /\ n(x) = (n(x) + 1) - 1
    BY <1>1, <1>2
  <2>2. n(A[n(x) + 1]) = n(x) /\ A[n(x) + 1] \in S
    BY <1>5, <2>1
  <2>. QED
    BY <1>2, <2>1, <2>2
<1>9. A \in Bijection(1..C, S)
  BY <1>5, <1>6, <1>7, <1>8 DEF Bijection, Surjection
<1>. QED
  BY <1>5, <1>9 DEF A, n

\* The order of the positions that sortLayers uses.
Positions(s) == {x \in (DOMAIN s) \X (DOMAIN s) : Before(s, x[1], x[2])}

LEMMA RanksAreNumbers == \A l \in Layers : Priority(l) \in Nat /\ l.path \in Nat
<1>. TAKE l \in Layers
<1>1. Rank[TypeOf[l.file]] \in Nat
  <2>1. TypeOf[l.file] \in {"config", "model", "code", "doc"}
    BY AttachAssumption DEF Layers, Types
  <2>. QED
    BY <2>1 DEF Rank
<1>. QED
  BY <1>1, AttachAssumption DEF Layers, Priority

LEMMA PositionsAreOrdered ==
  ASSUME NEW s \in Seq(Layers)
  PROVE  /\ DOMAIN s = 1..Len(s) /\ Len(s) \in Nat
         /\ IsFiniteSet(DOMAIN s) /\ Cardinality(DOMAIN s) = Len(s)
         /\ Orders(Positions(s), DOMAIN s)
<1>1. DOMAIN s = 1..Len(s) /\ Len(s) \in Nat
  OBVIOUS
<1>2. IsFiniteSet(DOMAIN s) /\ Cardinality(DOMAIN s) = Len(s)
  BY <1>1, FS_Interval
<1>4. \A i \in DOMAIN s : Priority(s[i]) \in Nat /\ s[i].path \in Nat
  BY RanksAreNumbers
<1>5. \A i, k \in DOMAIN s : <<i, k>> \in Positions(s) <=> Before(s, i, k)
  BY DEF Positions
<1>6. \A i \in DOMAIN s : ~Before(s, i, i)
  BY <1>1, <1>4 DEF Before
<1>7. \A i, j, k \in DOMAIN s : Before(s, i, j) /\ Before(s, j, k) => Before(s, i, k)
  BY <1>1, <1>4 DEF Before
<1>8. \A i, k \in DOMAIN s : i = k \/ Before(s, i, k) \/ Before(s, k, i)
  BY <1>1, <1>4 DEF Before
<1>9. Orders(Positions(s), DOMAIN s)
  BY <1>5, <1>6, <1>7, <1>8 DEF Orders
<1>. QED
  BY <1>1, <1>2, <1>9

\* Sorting moves the layers, each to the position that as many others precede.
LEMMA SortArranges ==
  ASSUME NEW s \in Seq(Layers)
  PROVE  \E g \in Bijection(DOMAIN s, DOMAIN s) :
           /\ sortLayers(s) = [k \in DOMAIN s |-> s[g[k]]]
           /\ \A k \in DOMAIN s : Cardinality(Below(Positions(s), DOMAIN s, g[k])) = k - 1
<1>. DEFINE places == {<<Cardinality({k \in DOMAIN s : Before(s, k, i)}), i>> : i \in DOMAIN s}
            g == Arranged(DOMAIN s, places)
<1>1. \A i \in DOMAIN s : {k \in DOMAIN s : Before(s, k, i)} = Below(Positions(s), DOMAIN s, i)
  BY DEF Below, Positions
<1>2. places = {<<Cardinality(Below(Positions(s), DOMAIN s, i)), i>> : i \in DOMAIN s}
  BY <1>1
<1>3. sortLayers(s) = [k \in DOMAIN s |-> s[g[k]]]
  BY DEF sortLayers
<1>. HIDE DEF places
<1>4. /\ g \in Bijection(1..Cardinality(DOMAIN s), DOMAIN s)
      /\ \A k \in 1..Cardinality(DOMAIN s) : Cardinality(Below(Positions(s), DOMAIN s, g[k])) = k - 1
  BY <1>2, PositionsAreOrdered, ArrangedIsBijection
<1>5. 1..Cardinality(DOMAIN s) = DOMAIN s
  BY PositionsAreOrdered
<1>. HIDE DEF g
<1>. QED
  BY <1>3, <1>4, <1>5

\* The order that decides between layers of different paths.
Precedes == {x \in Layers \X Layers :
  \/ Priority(x[1]) < Priority(x[2])
  \/ Priority(x[1]) = Priority(x[2]) /\ x[1].path < x[2].path}

DistinctPaths(s) == \A i, k \in DOMAIN s : s[i].path = s[k].path => i = k

\* What sorting makes of layers with different paths depends on the set of
\* them only.
LEMMA SortForgetsOrder ==
  ASSUME NEW s \in Seq(Layers), NEW t \in Seq(Layers), DistinctPaths(s), DistinctPaths(t),
         Range(s) = Range(t)
  PROVE  sortLayers(s) = sortLayers(t)
<1>. DEFINE S == Range(s)
<1>1. ASSUME NEW u \in Seq(Layers), DistinctPaths(u)
      PROVE  /\ IsFiniteSet(Range(u)) /\ Cardinality(Range(u)) = Len(u)
             /\ \A i \in DOMAIN u : Cardinality(Below(Precedes, Range(u), u[i])) =
                                      Cardinality(Below(Positions(u), DOMAIN u, i))
  <2>. DEFINE D == DOMAIN u
  <2>1. D = 1..Len(u) /\ Len(u) \in Nat /\ IsFiniteSet(D) /\ Cardinality(D) = Len(u)
    BY PositionsAreOrdered
  <2>2. u \in Bijection(D, Range(u))
    BY <1>1 DEF Bijection, Injection, Surjection, IsInjective, Range, DistinctPaths
  <2>3. IsFiniteSet(Range(u)) /\ Cardinality(Range(u)) = Len(u)
    BY <2>1, <2>2, FS_Bijection DEF ExistsBijection
  <2>4. ASSUME NEW i \in D
        PROVE  Cardinality(Below(Precedes, Range(u), u[i])) = Cardinality(Below(Positions(u), D, i))
    <3>. DEFINE B == Below(Positions(u), D, i)
                f == [k \in B |-> u[k]]
    <3>1. \A k \in D : <<u[k], u[i]>> \in Precedes <=> <<k, i>> \in Positions(u)
      <4>. TAKE k \in D
      <4>1. u[k] \in Layers /\ u[i] \in Layers
        BY <2>1
      <4>2. u[k].path = u[i].path => k = i
        BY <1>1 DEF DistinctPaths
      <4>3. k = i => ~(k < i)
        BY <2>1
      <4>. QED
        BY <4>1, <4>2, <4>3 DEF Precedes, Positions, Before
    <3>2. f \in Bijection(B, Below(Precedes, Range(u), u[i]))
      <4>1. \A k \in B : k \in D /\ u[k] \in Below(Precedes, Range(u), u[i])
        BY <3>1 DEF Below, Range
      <4>2. \A l \in Below(Precedes, Range(u), u[i]) : \E k \in B : u[k] = l
        BY <3>1 DEF Below, Range
      <4>3. \A j, k \in B : u[j] = u[k] => j = k
        BY <1>1, <4>1 DEF DistinctPaths
      <4>. HIDE DEF B
      <4>. QED
        BY <4>1, <4>2, <4>3 DEF Bijection, Injection, Surjection, IsInjective
    <3>3. IsFiniteSet(B)
      BY <2>1, FS_Subset DEF Below
    <3>. QED
      BY <3>2, <3>3, FS_Bijection DEF ExistsBijection
  <2>. QED
    BY <2>3, <2>4
<1>2. Orders(Precedes, S)
  <2>2. S \subseteq Layers
    BY DEF Range
  <2>3. \A l, m \in S : l.path = m.path => l = m
    BY DEF Range, DistinctPaths
  <2>4. \A l, m \in S : <<l, m>> \in Precedes <=>
          \/ Priority(l) < Priority(m)
          \/ Priority(l) = Priority(m) /\ l.path < m.path
    BY <2>2 DEF Precedes
  <2>. HIDE DEF S
  <2>5. \A l \in S : Priority(l) \in Nat /\ l.path \in Nat
    BY <2>2, RanksAreNumbers
  <2>6. \A l \in S : <<l, l>> \notin Precedes
    BY <2>4, <2>5
  <2>7. ASSUME NEW l \in S, NEW m \in S, l # m
        PROVE  <<l, m>> \in Precedes \/ <<m, l>> \in Precedes
    <3>1. l.path # m.path
      BY <2>3, <2>7
    <3>2. l.path \in Nat /\ m.path \in Nat /\ Priority(l) \in Nat /\ Priority(m) \in Nat
      BY <2>5
    <3>. QED
      BY <2>4, <3>1, <3>2
  <2>8. ASSUME NEW l \in S, NEW m \in S, NEW n \in S, <<l, m>> \in Precedes, <<m, n>> \in Precedes
        PROVE  <<l, n>> \in Precedes
    BY <2>4, <2>5, <2>8
  <2>. QED
    BY <2>6, <2>7, <2>8 DEF Orders
<1>3. IsFiniteSet(S) /\ Len(s) = Len(t)
  BY <1>1
<1>4. \A l, m \in S : Cardinality(Below(Precedes, S, l)) = Cardinality(Below(Precedes, S, m)) => l = m
  BY <1>2, <1>3, RankIsInjective
<1>5. PICK g \in Bijection(DOMAIN s, DOMAIN s) :
        /\ sortLayers(s) = [k \in DOMAIN s |-> s[g[k]]]
        /\ \A k \in DOMAIN s : Cardinality(Below(Positions(s), DOMAIN s, g[k])) = k - 1
  BY SortArranges
<1>6. PICK h \in Bijection(DOMAIN t, DOMAIN t) :
        /\ sortLayers(t) = [k \in DOMAIN t |-> t[h[k]]]
        /\ \A k \in DOMAIN t : Cardinality(Below(Positions(t), DOMAIN t, h[k])) = k - 1
  BY SortArranges
<1>7. DOMAIN s = DOMAIN t
  BY <1>3
<1>8. ASSUME NEW k \in DOMAIN s
      PROVE  s[g[k]] = t[h[k]]
  <2>1. g[k] \in DOMAIN s /\ h[k] \in DOMAIN t
    BY <1>5, <1>6, <1>7 DEF Bijection, Injection
  <2>2. s[g[k]] \in S /\ t[h[k]] \in S
    BY <2>1 DEF Range
  <2>3. Cardinality(Below(Precedes, S, s[g[k]])) = k - 1
    BY <1>1, <1>5, <2>1
  <2>4. Cardinality(Below(Precedes, S, t[h[k]])) = k - 1
    BY <1>1, <1>6, <1>7, <2>1
  <2>. QED
    BY <1>4, <2>2, <2>3, <2>4
<1>. QED
  BY <1>5, <1>6, <1>7, <1>8

-----------------------------------------------------------------------------
(***************************************************************************)
(* Replacing a layer.                                                      *)
(***************************************************************************)

LEMMA FirstIsMember ==
  ASSUME NEW S \in SUBSET Nat, S # {}
  PROVE  First(S) \in S /\ \A i \in S : First(S) <= i
<1>1. \E i \in S : \A k \in S : ~(<<k, i>> \in OpToRel(<, Nat))
  BY NatLessThanWellFounded, WFMin
<1>2. PICK i \in S : \A k \in S : <<k, i>> \notin OpToRel(<, Nat)
  BY <1>1
<1>3. \A k \in S : ~(k < i)
  BY <1>2, Zenon DEF OpToRel
<1>4. \A k \in S : i <= k
  BY <1>3
<1>. QED
  BY <1>4 DEF First

LEMMA RemoveAtShifts ==
  ASSUME NEW s \in Seq(Layers), NEW i \in DOMAIN s
  PROVE  /\ RemoveAt(s, i) \in Seq(Layers)
         /\ Len(RemoveAt(s, i)) = Len(s) - 1
         /\ \A k \in 1..(Len(s) - 1) : RemoveAt(s, i)[k] = s[IF k < i THEN k ELSE k + 1]
<1>. DEFINE n == Len(s)
            left  == SubSeq(s, 1, i - 1)
            right == SubSeq(s, i + 1, n)
<1>1. n \in Nat /\ i \in 1..n /\ \A k \in 1..n : s[k] \in Layers
  OBVIOUS
<1>2. /\ left \in Seq(Layers) /\ Len(left) = i - 1
      /\ \A k \in 1..(i - 1) : left[k] = s[k]
  <2>1. /\ left \in Seq(Layers)
        /\ Len(left) = IF 1 <= i - 1 THEN (i - 1) - 1 + 1 ELSE 0
        /\ \A k \in 1..((i - 1) - 1 + 1) : left[k] = s[1 + k - 1]
    BY <1>1, SubSeqProperties
  <2>. QED
    BY <1>1, <2>1
<1>3. /\ right \in Seq(Layers) /\ Len(right) = n - i
      /\ \A k \in 1..(n - i) : right[k] = s[i + k]
  <2>1. /\ right \in Seq(Layers)
        /\ Len(right) = IF i + 1 <= n THEN n - (i + 1) + 1 ELSE 0
        /\ \A k \in 1..(n - (i + 1) + 1) : right[k] = s[(i + 1) + k - 1]
    BY <1>1, SubSeqProperties
  <2>2. \A k \in 1..(n - i) : k \in 1..(n - (i + 1) + 1) /\ (i + 1) + k - 1 = i + k
    BY <1>1
  <2>. QED
    BY <1>1, <2>1, <2>2
<1>4. RemoveAt(s, i) = left \o right
  BY DEF RemoveAt
<1>5. /\ left \o right \in Seq(Layers) /\ Len(left \o right) = (i - 1) + (n - i)
      /\ \A k \in 1..((i - 1) + (n - i)) :
           (left \o right)[k] = IF k <= i - 1 THEN left[k] ELSE right[k - (i - 1)]
  <2>. HIDE DEF left, right, n
  <2>1. /\ left \o right \in Seq(Layers) /\ Len(left \o right) = Len(left) + Len(right)
        /\ \A k \in 1..(Len(left) + Len(right)) :
             (left \o right)[k] = IF k <= Len(left) THEN left[k] ELSE right[k - Len(left)]
    BY <1>2, <1>3, ConcatProperties
  <2>. QED
    BY <1>2, <1>3, <2>1
<1>6. ASSUME NEW k \in 1..(n - 1)
      PROVE  (left \o right)[k] = s[IF k < i THEN k ELSE k + 1]
  <2>. HIDE DEF left, right
  <2>1. CASE k < i
    <3>1. k \in 1..((i - 1) + (n - i)) /\ k \in 1..(i - 1)
      BY <1>1, <2>1
    <3>. QED
      BY <1>2, <1>5, <2>1, <3>1
  <2>2. CASE ~(k < i)
    <3>1. k \in 1..((i - 1) + (n - i)) /\ k - (i - 1) \in 1..(n - i) /\ i + (k - (i - 1)) = k + 1
      BY <1>1, <2>2
    <3>2. (left \o right)[k] = right[k - (i - 1)]
      <4>1. ~(k <= i - 1)
        BY <1>1, <2>2
      <4>. HIDE DEF n
      <4>. QED
        BY <1>5, <3>1, <4>1
    <3>3. right[k - (i - 1)] = s[k + 1]
      BY <1>3, <3>1
    <3>. QED
      BY <2>2, <3>2, <3>3
  <2>. QED
    BY <2>1, <2>2
<1>. HIDE DEF left, right
<1>. QED
  BY <1>1, <1>4, <1>5, <1>6, SMTT(30)

\* The position of the layer that an attach of l replaces, if there is one.
Gone(s, l) == IF At(s, l.path) = {} THEN {} ELSE {First(At(s, l.path))}

LEMMA WithoutFoundIsShorter ==
  ASSUME NEW s \in Seq(Layers), NEW l \in Layers, NEW spelled \in BOOLEAN
  PROVE  /\ WithoutFound(s, l, spelled) \in Seq(Layers)
         /\ Found(s, l, spelled) # {} => DOMAIN s # {} /\ First(Found(s, l, spelled)) \in DOMAIN s
<1>1. CASE Found(s, l, spelled) = {}
  BY <1>1 DEF WithoutFound
<1>2. CASE Found(s, l, spelled) # {}
  <2>. DEFINE i == First(Found(s, l, spelled))
  <2>1. Found(s, l, spelled) \subseteq DOMAIN s /\ DOMAIN s \subseteq Nat
    BY DEF Found, At
  <2>2. i \in DOMAIN s
    BY <1>2, <2>1, FirstIsMember
  <2>3. i \in Like(s, i) /\ Like(s, i) \subseteq DOMAIN s
    BY <2>2 DEF Like
  <2>4. First(Like(s, i)) \in DOMAIN s
    BY <2>1, <2>3, FirstIsMember
  <2>5. WithoutFound(s, l, spelled) = RemoveAt(s, First(Like(s, i)))
    BY <1>2 DEF WithoutFound
  <2>. QED
    BY <2>2, <2>4, <2>5, RemoveAtShifts
<1>. QED
  BY <1>1, <1>2

LEMMA SortIsSeq ==
  ASSUME NEW s \in Seq(Layers)
  PROVE  sortLayers(s) \in Seq(Layers) /\ Len(sortLayers(s)) = Len(s)
<1>1. PICK g \in Bijection(DOMAIN s, DOMAIN s) : sortLayers(s) = [k \in DOMAIN s |-> s[g[k]]]
  BY SortArranges
<1>2. DOMAIN s = 1..Len(s) /\ Len(s) \in Nat
  OBVIOUS
<1>3. \A k \in 1..Len(s) : s[g[k]] \in Layers
  BY <1>1, <1>2 DEF Bijection, Injection
<1>. QED
  BY <1>1, <1>2, <1>3

LEMMA NewLayersIsSeq ==
  ASSUME NEW s \in Seq(Layers), NEW l \in Layers, NEW spelled \in BOOLEAN
  PROVE  /\ NewLayers(s, l, spelled) \in Seq(Layers)
         /\ Len(NewLayers(s, l, spelled)) = Len(WithoutFound(s, l, spelled)) + 1
<1>1. WithoutFound(s, l, spelled) \in Seq(Layers)
  BY WithoutFoundIsShorter
<1>2. /\ Append(WithoutFound(s, l, spelled), l) \in Seq(Layers)
      /\ Len(Append(WithoutFound(s, l, spelled), l)) = Len(WithoutFound(s, l, spelled)) + 1
  BY <1>1, AppendProperties
<1>. QED
  BY <1>2, SortIsSeq DEF NewLayers

\* Positions of a list that grows at its end, and that loses i as well; 0 is
\* where the new layer comes from.
LEMMA GrowIsBijection ==
  ASSUME NEW n \in Nat
  PROVE  [k \in 1..(n + 1) |-> IF k = n + 1 THEN 0 ELSE k] \in Bijection(1..(n + 1), (1..n) \cup {0})
<1>. DEFINE o == [k \in 1..(n + 1) |-> IF k = n + 1 THEN 0 ELSE k]
<1>1. o \in [1..(n + 1) -> (1..n) \cup {0}]
  OBVIOUS
<1>2. ASSUME NEW j \in 1..(n + 1), NEW k \in 1..(n + 1), o[j] = o[k]
      PROVE  j = k
  BY <1>2
<1>3. ASSUME NEW m \in (1..n) \cup {0}
      PROVE  \E k \in 1..(n + 1) : o[k] = m
  <2>1. CASE m = 0
    <3>1. o[n + 1] = 0 /\ n + 1 \in 1..(n + 1)
      OBVIOUS
    <3>. QED
      BY <2>1, <3>1
  <2>2. CASE m \in 1..n
    <3>1. o[m] = m /\ m \in 1..(n + 1)
      BY <2>2
    <3>. QED
      BY <3>1
  <2>. QED
    BY <2>1, <2>2
<1>. HIDE DEF o
<1>4. o \in Bijection(1..(n + 1), (1..n) \cup {0})
  BY <1>1, <1>2, <1>3 DEF Bijection, Injection, Surjection, IsInjective
<1>. QED
  BY <1>4 DEF o

LEMMA SkipIsBijection ==
  ASSUME NEW n \in Nat, NEW i \in 1..n
  PROVE  [k \in 1..n |-> IF k = n THEN 0 ELSE IF k < i THEN k ELSE k + 1]
           \in Bijection(1..n, ((1..n) \ {i}) \cup {0})
<1>. DEFINE o == [k \in 1..n |-> IF k = n THEN 0 ELSE IF k < i THEN k ELSE k + 1]
<1>1. ASSUME NEW k \in 1..n
      PROVE  o[k] \in ((1..n) \ {i}) \cup {0}
  OBVIOUS
<1>2. ASSUME NEW j \in 1..n, NEW k \in 1..n, o[j] = o[k]
      PROVE  j = k
  <2>1. o[j] = IF j = n THEN 0 ELSE IF j < i THEN j ELSE j + 1
    OBVIOUS
  <2>2. o[k] = IF k = n THEN 0 ELSE IF k < i THEN k ELSE k + 1
    OBVIOUS
  <2>3. (IF j = n THEN 0 ELSE IF j < i THEN j ELSE j + 1) =
        (IF k = n THEN 0 ELSE IF k < i THEN k ELSE k + 1)
    BY <1>2, <2>1, <2>2
  <2>. HIDE DEF o
  <2>. QED
    BY <2>3
<1>3. ASSUME NEW m \in ((1..n) \ {i}) \cup {0}
      PROVE  \E k \in 1..n : o[k] = m
  <2>1. CASE m = 0
    <3>1. o[n] = 0 /\ n \in 1..n
      OBVIOUS
    <3>. QED
      BY <2>1, <3>1
  <2>2. CASE m # 0 /\ m < i
    <3>1. o[m] = m /\ m \in 1..n
      BY <2>2
    <3>. QED
      BY <3>1
  <2>3. CASE m # 0 /\ i < m
    <3>1. o[m - 1] = m /\ m - 1 \in 1..n
      BY <2>3
    <3>. QED
      BY <3>1
  <2>. QED
    BY <2>1, <2>2, <2>3
<1>. HIDE DEF o
<1>4. DOMAIN o = 1..n /\ o = [k \in 1..n |-> o[k]]
  BY DEF o
<1>5. o \in Bijection(1..n, ((1..n) \ {i}) \cup {0})
  BY <1>1, <1>2, <1>3, <1>4 DEF Bijection, Injection, Surjection, IsInjective
<1>. QED
  BY <1>5 DEF o

\* The list that is sorted.
Appended(s, l) == Append(WithoutFound(s, l, TRUE), l)

\* The function o gives, for every position of t, where in s its layer comes
\* from, or 0 when it is the layer attached.
Origins(s, l, t) ==
  {o \in Bijection(DOMAIN t, (DOMAIN s \ Gone(s, l)) \cup {0}) :
     \A k \in DOMAIN t : t[k] = IF o[k] = 0 THEN l ELSE s[o[k]]}

\* When the layer found has no twin, it is the one that is removed; the list
\* that is sorted has the other layers and the new one.
LEMMA AppendedByOrigin ==
  ASSUME NEW s \in Seq(Layers), NEW l \in Layers, ~HasTwin(s, l, TRUE)
  PROVE  Appended(s, l) \in Seq(Layers) /\ Origins(s, l, Appended(s, l)) # {}
<1>. DEFINE r == WithoutFound(s, l, TRUE)
            t == Appended(s, l)
            n == Len(s)
<1>1. n \in Nat /\ DOMAIN s = 1..n
  OBVIOUS
<1>2. /\ t \in Seq(Layers) /\ DOMAIN t = 1..(Len(r) + 1) /\ Len(r) \in Nat
      /\ \A k \in 1..Len(r) : t[k] = r[k]
      /\ t[Len(r) + 1] = l
  <2>1. r \in Seq(Layers)
    BY WithoutFoundIsShorter
  <2>. HIDE DEF r
  <2>2. /\ Append(r, l) \in Seq(Layers) /\ Len(Append(r, l)) = Len(r) + 1 /\ Len(r) \in Nat
        /\ \A k \in 1..Len(r) : Append(r, l)[k] = r[k]
        /\ Append(r, l)[Len(r) + 1] = l
    BY <2>1, AppendProperties
  <2>3. t = Append(r, l)
    BY DEF r, Appended
  <2>4. /\ t \in Seq(Layers) /\ Len(t) = Len(r) + 1 /\ Len(r) \in Nat
        /\ \A k \in 1..Len(r) : t[k] = r[k]
        /\ t[Len(r) + 1] = l
    BY <2>2, <2>3, Zenon
  <2>5. DOMAIN t = 1..Len(t)
    BY <2>4
  <2>. QED
    BY <2>4, <2>5, Zenon
<1>. HIDE DEF r
<1>3. CASE At(s, l.path) = {}
  <2>1. r = s /\ Gone(s, l) = {}
    BY <1>3 DEF WithoutFound, Found, Gone, r
  <2>. DEFINE o == [k \in 1..(n + 1) |-> IF k = n + 1 THEN 0 ELSE k]
  <2>2. o \in Bijection(1..(n + 1), (1..n) \cup {0})
    BY <1>1, GrowIsBijection
  <2>3. DOMAIN t = 1..(n + 1) /\ t[n + 1] = l /\ \A k \in 1..n : t[k] = s[k]
    BY <1>2, <2>1
  <2>. HIDE DEF n
  <2>4. ASSUME NEW k \in 1..(n + 1)
        PROVE  t[k] = IF o[k] = 0 THEN l ELSE s[o[k]]
    <3>1. CASE k = n + 1
      BY <2>3, <3>1
    <3>2. CASE k \in 1..n
      <4>1. o[k] = k /\ k # 0
        BY <1>1, <3>2
      <4>. HIDE DEF o
      <4>. QED
        BY <2>3, <3>2, <4>1
    <3>3. k = n + 1 \/ k \in 1..n
      BY <1>1
    <3>. HIDE DEF o
    <3>. QED
      BY <3>1, <3>2, <3>3
  <2>5. (DOMAIN s \ Gone(s, l)) \cup {0} = (1..n) \cup {0}
    BY <1>1, <2>1
  <2>. HIDE DEF o
  <2>6. o \in Bijection(DOMAIN t, (DOMAIN s \ Gone(s, l)) \cup {0})
    BY <2>2, <2>3, <2>5
  <2>7. \A k \in DOMAIN t : t[k] = IF o[k] = 0 THEN l ELSE s[o[k]]
    BY <2>3, <2>4
  <2>. QED
    BY <1>2, <2>6, <2>7 DEF Origins
<1>4. CASE At(s, l.path) # {}
  <2>. DEFINE i == First(At(s, l.path))
  <2>1. i \in 1..n
    <3>1. At(s, l.path) \subseteq 1..n
      BY <1>1 DEF At
    <3>. QED
      BY <1>1, <1>4, <3>1, FirstIsMember
  <2>2. Found(s, l, TRUE) = At(s, l.path) /\ Gone(s, l) = {i}
    BY <1>4 DEF Found, Gone
  <2>3. Like(s, i) = {i}
    <3>1. i \in Like(s, i) /\ Like(s, i) \in SUBSET DOMAIN s
      BY <1>1, <2>1 DEF Like
    <3>2. IsFiniteSet(Like(s, i)) /\ Cardinality(Like(s, i)) \in Nat
      BY <3>1, PositionsAreOrdered, FS_Subset, FS_CardinalityType
    <3>3. ~(Cardinality(Like(s, i)) > 1)
      BY <1>4, <2>2 DEF HasTwin
    <3>4. Cardinality(Like(s, i)) # 0
      BY <3>1, <3>2, FS_EmptySet
    <3>5. Cardinality(Like(s, i)) = 1
      BY <3>2, <3>3, <3>4
    <3>6. \E x : Like(s, i) = {x}
      BY <3>2, <3>5, FS_Singleton
    <3>. QED
      BY <3>1, <3>6
  <2>4. First(Like(s, i)) = i
    <3>1. {i} \in SUBSET Nat /\ {i} # {}
      BY <1>1, <2>1
    <3>. HIDE DEF i
    <3>. QED
      BY <2>3, <3>1, FirstIsMember
  <2>5. r = RemoveAt(s, i)
    BY <1>4, <2>2, <2>4 DEF WithoutFound, r
  <2>. HIDE DEF i
  <2>6. Len(r) = n - 1 /\ \A k \in 1..(n - 1) : r[k] = s[IF k < i THEN k ELSE k + 1]
    BY <1>1, <2>1, <2>5, RemoveAtShifts
  <2>. HIDE DEF n
  <2>. DEFINE o == [k \in 1..n |-> IF k = n THEN 0 ELSE IF k < i THEN k ELSE k + 1]
  <2>7. o \in Bijection(1..n, ((1..n) \ {i}) \cup {0})
    BY <1>1, <2>1, SkipIsBijection
  <2>8. /\ DOMAIN t = 1..n /\ t[n] = l
        /\ \A k \in 1..(n - 1) : t[k] = s[IF k < i THEN k ELSE k + 1]
    <3>1. Len(r) + 1 = n
      BY <1>1, <2>6
    <3>. QED
      BY <1>2, <2>6, <3>1
  <2>9. ASSUME NEW k \in 1..n
        PROVE  t[k] = IF o[k] = 0 THEN l ELSE s[o[k]]
    <3>1. CASE k = n
      BY <2>8, <3>1
    <3>2. CASE k \in 1..(n - 1)
      <4>1. o[k] = IF k < i THEN k ELSE k + 1
        BY <1>1, <3>2
      <4>2. o[k] # 0
        BY <1>1, <3>2, <4>1
      <4>. HIDE DEF o
      <4>. QED
        BY <2>8, <3>2, <4>1, <4>2
    <3>3. k = n \/ k \in 1..(n - 1)
      BY <1>1
    <3>. HIDE DEF o
    <3>. QED
      BY <3>1, <3>2, <3>3
  <2>10. (DOMAIN s \ Gone(s, l)) \cup {0} = ((1..n) \ {i}) \cup {0}
    BY <1>1, <2>2
  <2>. HIDE DEF o
  <2>11. o \in Bijection(DOMAIN t, (DOMAIN s \ Gone(s, l)) \cup {0})
    BY <2>7, <2>8, <2>10
  <2>12. \A k \in DOMAIN t : t[k] = IF o[k] = 0 THEN l ELSE s[o[k]]
    BY <2>8, <2>9
  <2>. QED
    BY <1>2, <2>11, <2>12 DEF Origins
<1>. QED
  BY <1>3, <1>4

\* An attach without a twin keeps the other layers and adds its own, in
\* another order.
LEMMA NewLayersByOrigin ==
  ASSUME NEW s \in Seq(Layers), NEW l \in Layers, ~HasTwin(s, l, TRUE)
  PROVE  /\ NewLayers(s, l, TRUE) \in Seq(Layers)
         /\ Origins(s, l, NewLayers(s, l, TRUE)) # {}
<1>. DEFINE t == NewLayers(s, l, TRUE)
            u == Appended(s, l)
            O == (DOMAIN s \ Gone(s, l)) \cup {0}
<1>1. u \in Seq(Layers) /\ Origins(s, l, u) # {}
  BY AppendedByOrigin
<1>2. t = sortLayers(u)
  BY DEF NewLayers, Appended
<1>3. t \in Seq(Layers)
  BY <1>1, <1>2, SortIsSeq
<1>4. PICK o \in Bijection(DOMAIN u, O) : \A k \in DOMAIN u : u[k] = IF o[k] = 0 THEN l ELSE s[o[k]]
  BY <1>1 DEF Origins
<1>5. PICK g \in Bijection(DOMAIN u, DOMAIN u) : t = [k \in DOMAIN u |-> u[g[k]]]
  <2>. HIDE DEF t, u, O
  <2>1. \E g \in Bijection(DOMAIN u, DOMAIN u) : sortLayers(u) = [k \in DOMAIN u |-> u[g[k]]]
    BY <1>1, SortArranges, Zenon
  <2>. QED
    BY <2>1, <1>2
<1>. DEFINE h == [k \in DOMAIN u |-> o[g[k]]]
<1>6. h \in Bijection(DOMAIN u, O)
  <2>1. /\ \A k \in DOMAIN u : g[k] \in DOMAIN u
        /\ \A j, k \in DOMAIN u : g[j] = g[k] => j = k
        /\ \A m \in DOMAIN u : \E k \in DOMAIN u : g[k] = m
    BY DEF Bijection, Injection, Surjection, IsInjective
  <2>2. /\ \A k \in DOMAIN u : o[k] \in O
        /\ \A j, k \in DOMAIN u : o[j] = o[k] => j = k
        /\ \A m \in O : \E k \in DOMAIN u : o[k] = m
    BY DEF Bijection, Injection, Surjection, IsInjective
  <2>3. \A k \in DOMAIN u : h[k] \in O
    BY <2>1, <2>2
  <2>4. \A j, k \in DOMAIN u : h[j] = h[k] => j = k
    BY <2>1, <2>2, ZenonT(60)
  <2>5. ASSUME NEW m \in O
        PROVE  \E k \in DOMAIN u : h[k] = m
    <3>1. PICK j \in DOMAIN u : o[j] = m
      BY <2>2
    <3>2. PICK k \in DOMAIN u : g[k] = j
      BY <2>1
    <3>. QED
      BY <3>1, <3>2
  <2>6. h = [k \in DOMAIN u |-> h[k]]
    OBVIOUS
  <2>. HIDE DEF h
  <2>. QED
    BY <2>3, <2>4, <2>5, <2>6 DEF Bijection, Injection, Surjection, IsInjective
<1>7. \A k \in DOMAIN u : t[k] = IF h[k] = 0 THEN l ELSE s[h[k]]
  BY <1>4, <1>5 DEF Bijection, Injection
<1>8. DOMAIN t = DOMAIN u
  BY <1>5
<1>. HIDE DEF h
<1>9. h \in Bijection(DOMAIN t, O) /\ \A k \in DOMAIN t : t[k] = IF h[k] = 0 THEN l ELSE s[h[k]]
  BY <1>6, <1>7, <1>8
<1>. QED
  BY <1>3, <1>9 DEF Origins

\* What such a list has, when the paths of s were different.
LEMMA OriginsKeepPaths ==
  ASSUME NEW s \in Seq(Layers), NEW l \in Layers, DistinctPaths(s),
         NEW t \in Seq(Layers), Origins(s, l, t) # {}
  PROVE  /\ DistinctPaths(t)
         /\ \E i \in DOMAIN t : At(t, l.path) = {i} /\ t[i] = l
         /\ Others(t, l.path) = Others(s, l.path)
         /\ Range(t) = Others(s, l.path) \cup {l}
<1>. DEFINE D == DOMAIN s \ Gone(s, l)
<1>1. PICK o \in Origins(s, l, t) : TRUE
  OBVIOUS
<1>2. /\ \A k \in DOMAIN t : o[k] \in D \cup {0} /\ t[k] = IF o[k] = 0 THEN l ELSE s[o[k]]
      /\ \A j, k \in DOMAIN t : o[j] = o[k] => j = k
      /\ \A m \in D \cup {0} : \E k \in DOMAIN t : o[k] = m
  BY DEF Origins, Bijection, Injection, Surjection, IsInjective
<1>3. 0 \notin D /\ DOMAIN s \subseteq Nat
  OBVIOUS
<1>4. At(s, l.path) = Gone(s, l)
  <2>1. CASE At(s, l.path) = {}
    BY <2>1 DEF Gone
  <2>2. CASE At(s, l.path) # {}
    <3>1. First(At(s, l.path)) \in At(s, l.path)
      BY <1>3, <2>2, FirstIsMember DEF At
    <3>2. \A i, k \in At(s, l.path) : i = k
      BY DEF At, DistinctPaths
    <3>. QED
      BY <2>2, <3>1, <3>2 DEF Gone
  <2>. QED
    BY <2>1, <2>2
<1>5. \A m \in D : m \in DOMAIN s /\ s[m].path # l.path
  BY <1>4 DEF At
<1>6. Others(s, l.path) = {s[m] : m \in D}
  BY <1>4 DEF Others
<1>. HIDE DEF D
<1>7. ASSUME NEW j \in DOMAIN t, NEW k \in DOMAIN t, t[j].path = t[k].path
      PROVE  j = k
  <2>1. CASE o[j] = 0 /\ o[k] = 0
    BY <1>2, <2>1
  <2>2. CASE o[j] # 0 /\ o[k] # 0
    BY <1>2, <1>5, <1>7, <2>2 DEF DistinctPaths
  <2>3. CASE o[j] = 0 /\ o[k] # 0
    BY <1>2, <1>5, <1>7, <2>3
  <2>4. CASE o[j] # 0 /\ o[k] = 0
    BY <1>2, <1>5, <1>7, <2>4
  <2>. QED
    BY <2>1, <2>2, <2>3, <2>4
<1>8. PICK i \in DOMAIN t : o[i] = 0
  BY <1>2
<1>9. At(t, l.path) = {i} /\ t[i] = l
  <2>1. t[i] = l
    BY <1>2, <1>8
  <2>. QED
    BY <1>7, <2>1 DEF At
<1>10. \A k \in DOMAIN t \ {i} : o[k] \in D /\ t[k] = s[o[k]]
  BY <1>2, <1>8
<1>11. {t[k] : k \in DOMAIN t \ {i}} = {s[m] : m \in D}
  <2>1. \A m \in D : \E k \in DOMAIN t \ {i} : o[k] = m
    BY <1>2, <1>3, <1>8 DEF D
  <2>. QED
    BY <1>10, <2>1
<1>12. Others(t, l.path) = Others(s, l.path)
  BY <1>6, <1>9, <1>11 DEF Others
<1>13. Range(t) = Others(s, l.path) \cup {l}
  <2>1. Range(t) = {t[k] : k \in DOMAIN t \ {i}} \cup {t[i]}
    BY DEF Range
  <2>. QED
    BY <1>6, <1>9, <1>11, <2>1
<1>. QED
  BY <1>7, <1>9, <1>12, <1>13 DEF DistinctPaths

\* An attach that leaves the digests as they are replaced a layer by one with
\* the same digest: they cannot agree in any other way.
LEMMA SameDigests ==
  ASSUME NEW s \in Seq(Layers), NEW l \in Layers, NEW t \in Seq(Layers),
         Origins(s, l, t) # {}, DiffIDs(t) = DiffIDs(s)
  PROVE  \E i \in DOMAIN s : Gone(s, l) = {i} /\ Digest(s[i]) = Digest(l)
<1>1. PICK o \in Origins(s, l, t) : TRUE
  OBVIOUS
<1>2. DOMAIN s = DOMAIN t /\ \A k \in DOMAIN s : Digest(t[k]) = Digest(s[k])
  BY DEF DiffIDs
<1>3. IsFiniteSet(DOMAIN s) /\ Cardinality(DOMAIN s) \in Nat /\ 0 \notin DOMAIN s /\ DOMAIN s \subseteq Nat
  BY PositionsAreOrdered
<1>4. /\ o \in Bijection(DOMAIN s, (DOMAIN s \ Gone(s, l)) \cup {0})
      /\ \A k \in DOMAIN s : t[k] = IF o[k] = 0 THEN l ELSE s[o[k]]
  BY <1>2 DEF Origins
<1>5. Gone(s, l) # {}
  <2>1. SUFFICES ASSUME Gone(s, l) = {}
                 PROVE  FALSE
    OBVIOUS
  <2>2. o \in Bijection(DOMAIN s, DOMAIN s \cup {0})
    BY <1>4, <2>1
  <2>3. Cardinality(DOMAIN s \cup {0}) = Cardinality(DOMAIN s)
    BY <1>3, <2>2, FS_Bijection DEF ExistsBijection
  <2>4. Cardinality(DOMAIN s \cup {0}) = Cardinality(DOMAIN s) + 1
    BY <1>3, FS_AddElement
  <2>. QED
    BY <1>3, <2>3, <2>4
<1>6. PICK i \in DOMAIN s : Gone(s, l) = {i}
  <2>1. At(s, l.path) # {} /\ Gone(s, l) = {First(At(s, l.path))}
    BY <1>5 DEF Gone
  <2>2. First(At(s, l.path)) \in At(s, l.path)
    BY <1>3, <2>1, FirstIsMember DEF At
  <2>. QED
    BY <2>1, <2>2 DEF At
<1>7. ASSUME Digest(s[i]) # Digest(l)
      PROVE  FALSE
  <2>. DEFINE A == {k \in DOMAIN s : Digest(s[k]) = Digest(s[i])}
              f == [k \in A |-> o[k]]
  <2>1. i \in A /\ IsFiniteSet(A) /\ A \subseteq DOMAIN s
    BY <1>3, FS_Subset
  <2>2. \A k \in DOMAIN s : o[k] \in (DOMAIN s \ {i}) \cup {0}
    BY <1>4, <1>6 DEF Bijection, Injection
  <2>3. ASSUME NEW k \in A
        PROVE  o[k] \in A \ {i}
    <3>1. Digest(t[k]) = Digest(s[i])
      BY <1>2, <2>1
    <3>2. o[k] # 0
      BY <1>4, <1>7, <2>1, <3>1
    <3>3. o[k] \in DOMAIN s \ {i} /\ t[k] = s[o[k]]
      BY <1>4, <2>1, <2>2, <3>2
    <3>. QED
      BY <3>1, <3>3
  <2>4. \A j, k \in DOMAIN s : o[j] = o[k] => j = k
    BY <1>4 DEF Bijection, Injection, IsInjective
  <2>5. f \in Injection(A, A \ {i})
    <3>. HIDE DEF A
    <3>. QED
      BY <2>1, <2>3, <2>4 DEF Injection, IsInjective
  <2>. HIDE DEF A, f
  <2>6. IsFiniteSet(A \ {i}) /\ Cardinality(A \ {i}) = Cardinality(A) - 1 /\ Cardinality(A) \in Nat
    BY <2>1, FS_RemoveElement, FS_CardinalityType
  <2>7. Cardinality(A) <= Cardinality(A \ {i})
    BY <2>5, <2>6, FS_Injection
  <2>. QED
    BY <2>6, <2>7
<1>. QED
  BY <1>6, <1>7

-----------------------------------------------------------------------------
(***************************************************************************)
(* The invariants.                                                         *)
(***************************************************************************)

LEMMA DigestsOfLayers ==
  ASSUME NEW s \in Seq(Layers)
  PROVE  DiffIDs(s) \in Seq({Digest(l) : l \in Layers}) /\ DOMAIN DiffIDs(s) = DOMAIN s
<1>1. DOMAIN s = 1..Len(s) /\ Len(s) \in Nat
  OBVIOUS
<1>2. \A i \in 1..Len(s) : Digest(s[i]) \in {Digest(l) : l \in Layers}
  OBVIOUS
<1>. QED
  BY <1>1, <1>2 DEF DiffIDs

\* Build lists each file of the workspace once.
LEMMA BuiltLists ==
  ASSUME NEW s \in Built
  PROVE  s \in Seq(Layers) /\ DistinctPaths(s)
<1>1. PICK files \in {F \in SUBSET Paths : F # {} /\ IsFiniteSet(F)}, raw \in BOOLEAN,
           content \in [Paths -> Contents] : s = BuiltOf(files, raw, content)
  BY DEF Built
<1>. DEFINE R == {x \in files \X files : BuiltBefore(x[1], x[2])}
            places == {<<Cardinality({e \in files : BuiltBefore(e, f)}), f>> : f \in files}
            order == Arranged(files, places)
<1>2. Orders(R, files)
  <2>1. \A f \in files : Rank[TypeOf[f]] \in Nat /\ f \in Nat
    <3>1. \A f \in files : TypeOf[f] \in {"config", "model", "code", "doc"} /\ f \in Nat
      BY AttachAssumption DEF Types
    <3>. QED
      BY <3>1 DEF Rank
  <2>2. \A e, f \in files : <<e, f>> \in R <=> BuiltBefore(e, f)
    OBVIOUS
  <2>. HIDE DEF R
  <2>3. \A f \in files : ~BuiltBefore(f, f)
    BY <2>1 DEF BuiltBefore
  <2>4. \A e, f, g \in files : BuiltBefore(e, f) /\ BuiltBefore(f, g) => BuiltBefore(e, g)
    BY <2>1 DEF BuiltBefore
  <2>5. \A e, f \in files : e = f \/ BuiltBefore(e, f) \/ BuiltBefore(f, e)
    BY <2>1 DEF BuiltBefore
  <2>. QED
    BY <2>2, <2>3, <2>4, <2>5 DEF Orders
<1>3. places = {<<Cardinality(Below(R, files, f)), f>> : f \in files}
  <2>1. \A f \in files : {e \in files : BuiltBefore(e, f)} = Below(R, files, f)
    BY DEF Below
  <2>. QED
    BY <2>1
<1>4. s = [k \in DOMAIN order |->
             [path |-> order[k], file |-> order[k], raw |-> raw, content |-> content[order[k]]]]
  BY <1>1 DEF BuiltOf
<1>. HIDE DEF R, places
<1>5. order \in Bijection(1..Cardinality(files), files) /\ Cardinality(files) \in Nat
  BY <1>2, <1>3, ArrangedIsBijection, FS_CardinalityType
<1>. HIDE DEF order
<1>6. /\ DOMAIN order = 1..Cardinality(files)
      /\ \A k \in DOMAIN order : order[k] \in Paths
      /\ \A j, k \in DOMAIN order : order[j] = order[k] => j = k
  BY <1>5 DEF Bijection, Injection, IsInjective
<1>7. \A k \in DOMAIN order : s[k] \in Layers /\ s[k].path = order[k]
  BY <1>4, <1>6 DEF Layers
<1>8. DOMAIN s = DOMAIN order
  BY <1>4
<1>9. s \in Seq(Layers)
  BY <1>4, <1>5, <1>6, <1>7
<1>. QED
  BY <1>6, <1>7, <1>8, <1>9 DEF DistinctPaths

\* The layers and the diff ids keep their types under every attach (TypeOK);
\* a sorted list has each of the layers at one position.
THEOREM AttachTypeCorrect == Spec => []TypeOK
<1>1. Init => TypeOK
  BY BuiltLists, DigestsOfLayers DEF Init, TypeOK
<1>2. TypeOK /\ [Next]_vars => TypeOK'
  <2>. SUFFICES ASSUME TypeOK, [Next]_vars
                PROVE  TypeOK'
    OBVIOUS
  <2>1. CASE UNCHANGED vars
    BY <2>1 DEF TypeOK, vars
  <2>2. ASSUME NEW l \in Attachable, NEW spelled \in Spelling(l), Refuse(l, spelled)
        PROVE  TypeOK'
    BY <2>2 DEF Refuse, TypeOK, vars
  <2>3. ASSUME NEW l \in Attachable, NEW spelled \in Spelling(l), Replace(l, spelled)
        PROVE  TypeOK'
    <3>. DEFINE new == NewLayers(layers, l, spelled)
    <3>1. l \in Layers /\ spelled \in BOOLEAN /\ layers \in Seq(Layers)
      BY DEF Attachable, Spelling, TypeOK
    <3>2. new \in Seq(Layers) /\ Len(new) = Len(WithoutFound(layers, l, spelled)) + 1
      BY <3>1, NewLayersIsSeq
    <3>3. Len(WithoutFound(layers, l, spelled)) \in Nat
      BY <3>1, WithoutFoundIsShorter
    <3>4. Len(new) <= MaxLayers
      BY <2>3, <3>2, <3>3, AttachAssumption DEF Replace
    <3>5. \/ layers' = layers /\ diffIDs' = diffIDs
          \/ layers' = new /\ diffIDs' = DiffIDs(new)
      BY <2>3 DEF Replace
    <3>6. muddled' \in BOOLEAN
      BY <2>3 DEF Replace
    <3>. HIDE DEF new
    <3>. QED
      BY <3>2, <3>4, <3>5, <3>6, DigestsOfLayers DEF TypeOK
  <2>4. CASE AttachConfig
    <3>1. diffIDs' \in Seq({Digest(l) : l \in Layers})
      <4>1. CASE diffIDs' = diffIDs
        BY <4>1 DEF TypeOK
      <4>2. CASE diffIDs' = <<>>
        BY <4>2
      <4>3. ASSUME NEW i \in DOMAIN layers, diffIDs' \in Exported(i)
            PROVE  diffIDs' \in Seq({Digest(l) : l \in Layers})
        <5>1. PICK c \in Contents : diffIDs' = DiffIDs([layers EXCEPT ![i].content = c])
          BY <4>3 DEF Exported
        <5>2. [layers EXCEPT ![i].content = c] \in Seq(Layers)
          <6>1. layers[i] \in Layers
            BY DEF TypeOK
          <6>2. [layers[i] EXCEPT !.content = c] \in Layers
            BY <6>1 DEF Layers
          <6>. QED
            BY <6>2 DEF TypeOK
        <5>. QED
          BY <5>1, <5>2, DigestsOfLayers
      <4>. QED
        BY <2>4, <4>1, <4>2, <4>3 DEF AttachConfig
    <3>. QED
      BY <2>4, <3>1 DEF AttachConfig, TypeOK
  <2>. QED
    BY <2>1, <2>2, <2>3, <2>4 DEF Next
<1>. QED
  BY <1>1, <1>2, PTL DEF Spec

\* Until one of the confusing cases comes up, each path has one layer.
PathInv == ~muddled => DistinctPaths(layers)

\* Each path has one layer, until one of the confusing cases comes up.
THEOREM PathInvariant == Spec => []PathInv
<1>1. Init => PathInv
  BY BuiltLists DEF Init, PathInv
<1>2. TypeOK /\ PathInv /\ [Next]_vars => PathInv'
  <2>. SUFFICES ASSUME TypeOK, PathInv, [Next]_vars
                PROVE  PathInv'
    OBVIOUS
  <2>1. CASE UNCHANGED vars
    BY <2>1 DEF PathInv, vars, DistinctPaths
  <2>2. ASSUME NEW l \in Attachable, NEW spelled \in Spelling(l), Refuse(l, spelled)
        PROVE  PathInv'
    BY <2>2 DEF Refuse, PathInv, vars, DistinctPaths
  <2>3. ASSUME NEW l \in Attachable, NEW spelled \in Spelling(l), Replace(l, spelled), ~muddled'
        PROVE  DistinctPaths(layers)'
    <3>. DEFINE new == NewLayers(layers, l, TRUE)
    <3>1. ~muddled /\ spelled = TRUE /\ ~HasTwin(layers, l, TRUE)
      BY <2>3 DEF Replace, Confusing, Spelling, TypeOK
    <3>2. l \in Layers /\ layers \in Seq(Layers) /\ DistinctPaths(layers)
      BY <3>1 DEF Attachable, TypeOK, PathInv
    <3>3. DistinctPaths(new)
      BY <3>1, <3>2, NewLayersByOrigin, OriginsKeepPaths
    <3>4. layers' = layers \/ layers' = new
      BY <2>3, <3>1 DEF Replace
    <3>. QED
      BY <3>2, <3>3, <3>4 DEF DistinctPaths
  <2>4. CASE AttachConfig
    BY <2>4 DEF AttachConfig, PathInv, DistinctPaths
  <2>. QED
    BY <2>1, <2>2, <2>3, <2>4 DEF Next, PathInv
<1>. QED
  BY <1>1, <1>2, AttachTypeCorrect, PTL DEF Spec

-----------------------------------------------------------------------------
(***************************************************************************)
(* The properties of the next attach.                                      *)
(***************************************************************************)

\* When nothing is confusing and the digests stay, so do the layers' digests:
\* the config states those of the layers.
LEMMA UnchangedMeansSame ==
  ASSUME TypeOK, NEW l \in Attachable, Clear(l), Unchanged(NewLayers(layers, l, TRUE))
  PROVE  DiffIDs(NewLayers(layers, l, TRUE)) = DiffIDs(layers)
<1>. DEFINE new == NewLayers(layers, l, TRUE)
            r   == WithoutFound(layers, l, TRUE)
<1>1. l \in Layers /\ layers \in Seq(Layers)
  BY DEF Attachable, TypeOK
<1>2. new \in Seq(Layers) /\ Len(new) = Len(r) + 1
  BY <1>1, NewLayersIsSeq
<1>3. r \in Seq(Layers)
  BY <1>1, WithoutFoundIsShorter
<1>4. DOMAIN new # {}
  <2>. HIDE DEF new, r
  <2>1. Len(new) \in Nat /\ Len(new) >= 1 /\ DOMAIN new = 1..Len(new)
    BY <1>2, <1>3
  <2>2. 1 \in DOMAIN new
    BY <2>1
  <2>. QED
    BY <2>2
<1>. HIDE DEF new
<1>5. DiffIDs(new) # <<>>
  BY <1>4 DEF DiffIDs
<1>6. DiffIDs(new) = diffIDs /\ (diffIDs = <<>> \/ diffIDs = DiffIDs(layers))
  BY DEF Unchanged, Clear, Confusing, new
<1>. QED
  BY <1>5, <1>6 DEF new

\* After an attach the path has one layer, with the digest of the file
\* (AttachOverwrites).
THEOREM AttachReplaces == Spec => []AttachOverwrites
<1>1. TypeOK /\ PathInv => AttachOverwrites
  <2>. SUFFICES ASSUME TypeOK, PathInv, NEW l \in Attachable, Clear(l)
                PROVE  Holds(Outcome(l, TRUE), l)
    BY DEF AttachOverwrites
  <2>. DEFINE new == NewLayers(layers, l, TRUE)
  <2>1. l \in Layers /\ layers \in Seq(Layers) /\ DistinctPaths(layers) /\ ~HasTwin(layers, l, TRUE)
    BY DEF Attachable, TypeOK, PathInv, Clear, Confusing
  <2>2. new \in Seq(Layers) /\ Origins(layers, l, new) # {}
    BY <2>1, NewLayersByOrigin
  <2>3. CASE Unchanged(new)
    <3>1. DiffIDs(new) = DiffIDs(layers)
      BY <2>3, UnchangedMeansSame
    <3>. HIDE DEF new
    <3>2. PICK i \in DOMAIN layers : Gone(layers, l) = {i} /\ Digest(layers[i]) = Digest(l)
      BY <2>1, <2>2, <3>1, SameDigests
    <3>3. At(layers, l.path) = {i}
      <4>1. At(layers, l.path) # {} /\ i = First(At(layers, l.path))
        BY <3>2 DEF Gone
      <4>2. At(layers, l.path) \subseteq Nat
        BY <2>1 DEF At
      <4>3. i \in At(layers, l.path)
        BY <4>1, <4>2, FirstIsMember
      <4>. QED
        BY <2>1, <4>3 DEF At, DistinctPaths
    <3>4. Outcome(l, TRUE) = layers
      BY <2>3 DEF Outcome, new
    <3>. QED
      BY <3>2, <3>3, <3>4 DEF Holds
  <2>4. CASE ~Unchanged(new)
    <3>1. Outcome(l, TRUE) = new
      BY <2>4 DEF Outcome
    <3>. HIDE DEF new
    <3>. QED
      BY <2>1, <2>2, <3>1, OriginsKeepPaths DEF Holds
  <2>. QED
    BY <2>3, <2>4
<1>. QED
  BY <1>1, AttachTypeCorrect, PathInvariant, PTL

\* An attach keeps the layers of all other paths (OthersKept).
THEOREM AttachKeepsOthers == Spec => []OthersKept
<1>1. TypeOK /\ PathInv => OthersKept
  <2>. SUFFICES ASSUME TypeOK, PathInv, NEW l \in Attachable, Clear(l)
                PROVE  Others(Outcome(l, TRUE), l.path) = Others(layers, l.path)
    BY DEF OthersKept
  <2>. DEFINE new == NewLayers(layers, l, TRUE)
  <2>1. l \in Layers /\ layers \in Seq(Layers) /\ DistinctPaths(layers) /\ ~HasTwin(layers, l, TRUE)
    BY DEF Attachable, TypeOK, PathInv, Clear, Confusing
  <2>2. Others(new, l.path) = Others(layers, l.path)
    BY <2>1, NewLayersByOrigin, OriginsKeepPaths
  <2>3. Outcome(l, TRUE) \in {layers, new}
    BY DEF Outcome
  <2>. QED
    BY <2>2, <2>3
<1>. QED
  BY <1>1, AttachTypeCorrect, PathInvariant, PTL

\* A second attach of the same file finds nothing to do (AttachIsIdempotent):
\* sorting what the first one left gives the same list again.
THEOREM AttachTwiceIsOnce == Spec => []AttachIsIdempotent
<1>1. TypeOK /\ PathInv => AttachIsIdempotent
  <2>. DEFINE s(l) == Outcome(l, TRUE)
  <2>. SUFFICES ASSUME TypeOK, PathInv, NEW l \in Attachable, Clear(l), ~HasTwin(s(l), l, TRUE)
                PROVE  DiffIDs(NewLayers(s(l), l, TRUE)) = DiffIDs(s(l))
    BY DEF AttachIsIdempotent
  <2>. DEFINE new == NewLayers(layers, l, TRUE)
  <2>1. l \in Layers /\ layers \in Seq(Layers) /\ DistinctPaths(layers) /\ ~HasTwin(layers, l, TRUE)
    BY DEF Attachable, TypeOK, PathInv, Clear, Confusing
  <2>2. CASE Unchanged(new)
    BY <2>2, UnchangedMeansSame DEF Outcome
  <2>3. CASE ~Unchanged(new)
    <3>1. s(l) = new
      BY <2>3 DEF Outcome
    <3>2. new \in Seq(Layers) /\ Origins(layers, l, new) # {}
      BY <2>1, NewLayersByOrigin
    <3>3. /\ DistinctPaths(new)
          /\ \E i \in DOMAIN new : At(new, l.path) = {i} /\ new[i] = l
          /\ Range(new) = Others(layers, l.path) \cup {l}
      <4>. HIDE DEF new
      <4>. QED
        BY <2>1, <3>2, OriginsKeepPaths
    <3>. DEFINE t == Appended(layers, l)
                u == Appended(new, l)
    <3>4. t \in Seq(Layers) /\ DistinctPaths(t) /\ Range(t) = Others(layers, l.path) \cup {l}
      <4>1. t \in Seq(Layers) /\ Origins(layers, l, t) # {}
        BY <2>1, AppendedByOrigin
      <4>. HIDE DEF t
      <4>. QED
        BY <2>1, <4>1, OriginsKeepPaths
    <3>5. /\ u \in Seq(Layers) /\ DistinctPaths(u)
          /\ Range(u) = Others(new, l.path) \cup {l} /\ Others(new, l.path) = Others(layers, l.path)
      <4>1. ~HasTwin(new, l, TRUE)
        BY <3>1
      <4>2. Others(new, l.path) = Others(layers, l.path)
        BY <2>1, <3>2, OriginsKeepPaths
      <4>. HIDE DEF new
      <4>3. u \in Seq(Layers) /\ Origins(new, l, u) # {}
        BY <2>1, <3>2, <4>1, AppendedByOrigin
      <4>. HIDE DEF u
      <4>. QED
        BY <2>1, <3>2, <3>3, <4>2, <4>3, OriginsKeepPaths
    <3>6. new = sortLayers(t) /\ NewLayers(new, l, TRUE) = sortLayers(u)
      BY DEF NewLayers, Appended
    <3>. HIDE DEF new, t, u
    <3>7. NewLayers(new, l, TRUE) = new
      BY <3>4, <3>5, <3>6, SortForgetsOrder
    <3>. QED
      BY <3>1, <3>7
  <2>. QED
    BY <2>2, <2>3
<1>. QED
  BY <1>1, AttachTypeCorrect, PathInvariant, PTL
=============================================================================
