------------------------- MODULE ModelImport_proofs -------------------------
(***************************************************************************)
(* Theorems about ModelImport and the operators of Modelfile it is made    *)
(* of, for any workspace, names, versions, flags and user.                 *)
(***************************************************************************)
EXTENDS ModelImport, SequenceTheorems, NaturalsInduction, WellFoundedInduction, TLAPS

-----------------------------------------------------------------------------
(***************************************************************************)
(* Induction, and functions defined by recursion.                          *)
(***************************************************************************)

\* A nonempty set of numbers has a least element.
LEMMA LeastNumber ==
  ASSUME NEW S \in SUBSET Nat, S # {}
  PROVE  \E i \in S : \A k \in S : i <= k
<1>1. \E i \in S : \A k \in S : ~(<<k, i>> \in OpToRel(<, Nat))
  BY NatLessThanWellFounded, WFMin
<1>2. PICK i \in S : \A k \in S : <<k, i>> \notin OpToRel(<, Nat)
  BY <1>1
<1>3. \A k \in S : ~(k < i)
  BY <1>2, Zenon DEF OpToRel
<1>4. \A k \in S : i <= k
  BY <1>3
<1>. QED
  BY <1>4

\* A nonempty bounded set of numbers has a greatest element.
LEMMA LargestNumber ==
  ASSUME NEW N \in Nat, NEW S \in SUBSET (1..N), S # {}
  PROVE  \E i \in S : \A k \in S : k <= i
<1>. DEFINE D == {N - i : i \in S}
<1>1. D \in SUBSET Nat /\ D # {}
  <2>1. \A i \in S : N - i \in Nat
    OBVIOUS
  <2>. QED
    BY <2>1
<1>2. PICK m \in D : \A k \in D : m <= k
  BY <1>1, LeastNumber
<1>3. PICK j \in S : m = N - j
  BY <1>2
<1>4. ASSUME NEW k \in S
      PROVE  k <= j
  <2>1. N - j <= N - k
    BY <1>2, <1>3
  <2>. QED
    BY <2>1
<1>. QED
  BY <1>4

\* Induction over the numbers up to N.
LEMMA UpTo ==
  ASSUME NEW N \in Nat, NEW G,
         0 \in G, \A n \in 1..N : n - 1 \in G => n \in G
  PROVE  \A n \in 0..N : n \in G
<1>. DEFINE B == (0..N) \ G
<1>. SUFFICES ASSUME B # {} PROVE FALSE
  OBVIOUS
<1>1. PICK i \in B : \A k \in B : i <= k
  <2>1. B \in SUBSET Nat
    OBVIOUS
  <2>. HIDE DEF B
  <2>. QED
    BY <2>1, LeastNumber
<1>2. i \in 1..N /\ i - 1 \in 0..N /\ ~(i <= i - 1)
  BY <1>1
<1>3. i - 1 \in G
  BY <1>1, <1>2
<1>. QED
  BY <1>1, <1>2, <1>3

\* The values f of a recursion from b by step, up to n.
Recurs(f, b, step, n) ==
  f[0] = b /\ \A i \in 1..n : f[i] = step[<<f[i - 1], i>>]

\* A step function and a first value define a function on an initial segment.
LEMMA Recursion ==
  ASSUME NEW S, NEW b \in S, NEW N \in Nat, NEW step \in [S \X (1..N) -> S]
  PROVE  \E f \in [0..N -> S] : Recurs(f, b, step, N)
<1>. DEFINE G == {n \in 0..N : \E f \in [0..n -> S] : Recurs(f, b, step, n)}
<1>1. 0 \in G
  <2>1. [i \in 0..0 |-> b] \in [0..0 -> S] /\ Recurs([i \in 0..0 |-> b], b, step, 0)
    BY DEF Recurs
  <2>. QED
    BY <2>1
<1>2. ASSUME NEW n \in 1..N, n - 1 \in G
      PROVE  n \in G
  <2>1. PICK g \in [0..(n - 1) -> S] : Recurs(g, b, step, n - 1)
    BY <1>2
  <2>. DEFINE f == [i \in 0..n |-> IF i = n THEN step[<<g[n - 1], n>>] ELSE g[i]]
  <2>2. step[<<g[n - 1], n>>] \in S
    OBVIOUS
  <2>3. f \in [0..n -> S]
    BY <2>2
  <2>4. f[0] = b
    BY <2>1 DEF Recurs
  <2>5. ASSUME NEW i \in 1..n
        PROVE  f[i] = step[<<f[i - 1], i>>]
    <3>1. f[i - 1] = g[i - 1]
      OBVIOUS
    <3>2. i # n => i \in 1..(n - 1) /\ f[i] = g[i]
      OBVIOUS
    <3>3. i = n => f[i] = step[<<g[n - 1], n>>]
      OBVIOUS
    <3>. QED
      BY <2>1, <3>1, <3>2, <3>3 DEF Recurs
  <2>. HIDE DEF f
  <2>6. Recurs(f, b, step, n)
    BY <2>4, <2>5 DEF Recurs
  <2>. QED
    BY <2>3, <2>6
<1>. HIDE DEF G
<1>3. N \in G
  BY <1>1, <1>2, UpTo
<1>. QED
  BY <1>3 DEF G

-----------------------------------------------------------------------------
(***************************************************************************)
(* The walk.                                                               *)
(***************************************************************************)

LEMMA OrderLength == Len(Order) \in Nat /\ DOMAIN Order = 1..Len(Order)
BY ModelfileAssumption

WalkStates ==
  [lists : [Lists -> SUBSET Files], skipped : SUBSET Dirs, count : Nat, total : Nat, exceeded : BOOLEAN]

LEMMA TypeIsListed ==
  ASSUME NEW f
  PROVE  InferFileType(f) \in Processed
<1>. DEFINE hits == {i \in 1..4 : IsFileType(f, <<"CONFIG", "MODEL", "CODE", "DOC">>[i])}
<1>1. CASE hits = {}
  BY <1>1 DEF InferFileType, Processed
<1>2. CASE hits # {}
  <2>. DEFINE first == CHOOSE i \in hits : \A k \in hits : i <= k
  <2>1. first \in 1..4
    <3>1. \E i \in hits : \A k \in hits : i <= k
      <4>1. hits \in SUBSET Nat
        OBVIOUS
      <4>. HIDE DEF hits
      <4>. QED
        BY <1>2, <4>1, LeastNumber
    <3>. QED
      BY <3>1
  <2>2. InferFileType(f) = <<"CONFIG", "MODEL", "CODE", "DOC">>[first]
    BY <1>2 DEF InferFileType
  <2>. HIDE DEF first
  <2>. QED
    BY <2>1, <2>2 DEF Processed
<1>. QED
  BY <1>1, <1>2

\* Visiting an entry leaves a state of the walk.
LEMMA VisitType ==
  ASSUME NEW w \in WalkStates, NEW e \in Range(Order), NEW filter
  PROVE  Visit(w, e, filter) \in WalkStates
<1>1. CASE e \in Dirs
  <2>1. VisitDir(w, e, filter) \in {w, [w EXCEPT !.skipped = @ \cup {e}]}
    BY DEF VisitDir
  <2>2. w.skipped \cup {e} \in SUBSET Dirs
    BY <1>1 DEF WalkStates
  <2>. QED
    BY <1>1, <2>1, <2>2 DEF Visit, WalkStates
<1>2. CASE e \notin Dirs
  <2>. DEFINE c == InferFileType(e)
              x == SizeOf[e] > MaxFile \/ w.count + 1 > MaxFiles \/ w.total + SizeOf[e] > MaxTotal
              l == [w.lists EXCEPT ![c] = @ \cup {e}]
  <2>1. e \in Files /\ SizeOf[e] \in Nat
    BY <1>2, ModelfileAssumption DEF Files
  <2>2. c \in Lists
    BY TypeIsListed DEF Lists, Processed
  <2>3. l \in [Lists -> SUBSET Files]
    BY <2>1, <2>2 DEF WalkStates
  <2>4. x \in BOOLEAN
    OBVIOUS
  <2>5. w.count + 1 \in Nat /\ w.total + SizeOf[e] \in Nat
    BY <2>1 DEF WalkStates
  <2>6. VisitFile(w, e, filter) \in
          {w, [w EXCEPT !.count = @ + 1, !.total = @ + SizeOf[e], !.exceeded = x, !.lists = l]}
    BY DEF VisitFile, WalkStates
  <2>. HIDE DEF x, l
  <2>7. VisitFile(w, e, filter) \in WalkStates
    BY <2>3, <2>4, <2>5, <2>6 DEF WalkStates
  <2>. QED
    BY <1>2, <2>7 DEF Visit
<1>. QED
  BY <1>1, <1>2

\* What the walk does at the n-th entry of Order.
WalkStep(present, filter, w, n) ==
  IF Order[n] \in Entries(present) THEN Visit(w, Order[n], filter) ELSE w

\* The states of a walk, entry by entry.
IsWalk(present, filter, w) ==
  /\ w \in [0..Len(Order) -> WalkStates]
  /\ w[0] = WalkStart
  /\ \A n \in 1..Len(Order) : w[n] = WalkStep(present, filter, w[n - 1], n)

\* The recursive function in Walked exists.
LEMMA WalkExists ==
  ASSUME NEW present, NEW filter
  PROVE  \E w : IsWalk(present, filter, w) /\ Walked(present, filter) = w[Len(Order)]
<1>. DEFINE N == Len(Order)
            step == [x \in WalkStates \X (1..N) |-> WalkStep(present, filter, x[1], x[2])]
            F(w) == [n \in 0..N |-> IF n = 0 THEN WalkStart ELSE WalkStep(present, filter, w[n - 1], n)]
<1>1. N \in Nat
  BY OrderLength
<1>2. WalkStart \in WalkStates
  BY DEF WalkStart, WalkStates, NoLists
<1>3. \A s \in WalkStates, n \in 1..N : WalkStep(present, filter, s, n) \in WalkStates
  <2>1. \A n \in 1..N : Order[n] \in Range(Order)
    BY OrderLength DEF Range
  <2>. QED
    BY <2>1, VisitType DEF WalkStep
<1>. HIDE DEF N
<1>4. step \in [WalkStates \X (1..N) -> WalkStates]
  BY <1>3
<1>. HIDE DEF step
<1>5. PICK v \in [0..N -> WalkStates] : Recurs(v, WalkStart, step, N)
  BY <1>1, <1>2, <1>4, Recursion
<1>6. ASSUME NEW n \in 1..N
      PROVE  v[n] = WalkStep(present, filter, v[n - 1], n)
  <2>1. n - 1 \in 0..N
    BY <1>1
  <2>2. step[<<v[n - 1], n>>] = WalkStep(present, filter, v[n - 1], n)
    BY <2>1 DEF step
  <2>. QED
    BY <1>5, <2>2 DEF Recurs
<1>7. v = F(v)
  <2>1. \A n \in 0..N : v[n] = F(v)[n]
    BY <1>1, <1>5, <1>6 DEF Recurs
  <2>. QED
    BY <2>1
<1>. DEFINE c == CHOOSE w : w = F(w)
<1>8. c = F(c)
  BY <1>7
<1>9. Walked(present, filter) = c[N]
  BY DEF Walked, WalkStep, N
<1>. HIDE DEF c
<1>10. /\ c[0] = WalkStart /\ DOMAIN c = 0..N
       /\ \A n \in 1..N : c[n] = WalkStep(present, filter, c[n - 1], n)
  BY <1>1, <1>8
<1>11. c \in [0..N -> WalkStates]
  <2>. DEFINE G == {n \in 0..N : c[n] \in WalkStates}
  <2>1. 0 \in G
    BY <1>1, <1>2, <1>10
  <2>2. \A n \in 1..N : n - 1 \in G => n \in G
    BY <1>3, <1>10
  <2>3. \A n \in 0..N : n \in G
    <3>. HIDE DEF G
    <3>. QED
      BY <1>1, <2>1, <2>2, UpTo
  <2>4. \A n \in 0..N : c[n] \in WalkStates
    BY <2>3
  <2>. QED
    BY <1>8, <2>4
<1>. QED
  BY <1>9, <1>10, <1>11 DEF IsWalk, N

\* A directory that keeps the user from getting what is in it.
Blocked(d, filter) ==
  Match(filter.exclude, d) \/ (d \in Skippable /\ ~ShouldDescend(filter.include, d))

\* What is inside a directory is inside those above it.
LEMMA InsideIsTransitive ==
  ASSUME NEW e \in Range(Order), NEW d \in Range(Order), NEW c \in Range(Order),
         Inside(e, d), Inside(d, c)
  PROVE  Inside(e, c)
<1>1. CASE c = Root
  BY <1>1 DEF Inside
<1>2. CASE d = Root /\ c # Root
  <2>1. Len(Append(c, "/")) <= Len(Root)
    BY <1>2 DEF Inside, IsPrefix
  <2>2. c \in Seq(Range(c)) /\ c # <<>> /\ Len(Append(c, "/")) = Len(c) + 1
    BY ModelfileAssumption DEF IsText
  <2>3. Len(c) \in Nat /\ Len(c) # 0
    BY <2>2
  <2>. QED
    BY <2>1, <2>2, <2>3 DEF Root
<1>3. CASE d # Root /\ c # Root
  <2>. DEFINE ds == Append(d, "/")
              cs == Append(c, "/")
              A  == Range(c) \cup Range(d) \cup Range(e) \cup {"/"}
  <2>1. c \in Seq(A) /\ d \in Seq(A) /\ e \in Seq(A)
    <3>1. c \in Seq(Range(c)) /\ d \in Seq(Range(d)) /\ e \in Seq(Range(e))
      BY ModelfileAssumption DEF IsText
    <3>. QED
      BY <3>1, SeqMonotonic
  <2>2. ds \in Seq(A) /\ cs \in Seq(A) /\ Len(ds) = Len(d) + 1 /\ Len(cs) = Len(c) + 1
    BY <2>1
  <2>3. /\ Len(ds) <= Len(e) /\ SubSeq(ds, 1, Len(ds)) = SubSeq(e, 1, Len(ds))
        /\ Len(cs) <= Len(d) /\ SubSeq(cs, 1, Len(cs)) = SubSeq(d, 1, Len(cs))
    BY <1>3 DEF Inside, IsPrefix
  <2>4. \A i \in 1..Len(cs) : cs[i] = d[i]
    <3>1. Len(cs) \in Nat /\ Len(d) \in Nat
      BY <2>1, <2>2
    <3>. HIDE DEF cs
    <3>2. \A i \in 1..Len(cs) : SubSeq(cs, 1, Len(cs))[i] = cs[i] /\ SubSeq(d, 1, Len(cs))[i] = d[i]
      BY <2>1, <2>2, <2>3, <3>1
    <3>. QED
      BY <2>3, <3>2
  <2>5. \A i \in 1..Len(d) : d[i] = e[i]
    <3>1. Len(d) \in Nat /\ Len(e) \in Nat /\ \A i \in 1..Len(d) : ds[i] = d[i]
      BY <2>1
    <3>. HIDE DEF ds
    <3>2. \A i \in 1..Len(ds) : SubSeq(ds, 1, Len(ds))[i] = ds[i] /\ SubSeq(e, 1, Len(ds))[i] = e[i]
      BY <2>1, <2>2, <2>3, <3>1
    <3>3. \A i \in 1..Len(d) : i \in 1..Len(ds)
      BY <2>2, <3>1
    <3>. QED
      BY <2>3, <3>1, <3>2, <3>3
  <2>6. Len(cs) \in Nat /\ Len(d) \in Nat /\ Len(e) \in Nat /\ Len(cs) <= Len(e)
    BY <2>1, <2>2, <2>3
  <2>. HIDE DEF ds, cs
  <2>7. SubSeq(cs, 1, Len(cs)) = SubSeq(e, 1, Len(cs))
    <3>1. \A i \in 1..Len(cs) : cs[i] = e[i]
      BY <2>3, <2>4, <2>5, <2>6
    <3>2. /\ SubSeq(cs, 1, Len(cs)) \in Seq(A) /\ Len(SubSeq(cs, 1, Len(cs))) = Len(cs)
          /\ SubSeq(e, 1, Len(cs)) \in Seq(A) /\ Len(SubSeq(e, 1, Len(cs))) = Len(cs)
      BY <2>1, <2>2, <2>6, SubSeqProperties, SMTT(30)
    <3>3. \A i \in 1..Len(cs) : SubSeq(cs, 1, Len(cs))[i] = cs[i] /\ SubSeq(e, 1, Len(cs))[i] = e[i]
      BY <2>1, <2>2, <2>6
    <3>. QED
      BY <3>1, <3>2, <3>3, SeqEqual
  <2>. QED
    BY <2>6, <2>7 DEF Inside, IsPrefix, cs
<1>. QED
  BY <1>1, <1>2, <1>3

\* The files of the first n entries that are chosen.
ChosenUpTo(present, filter, n, c) ==
  {f \in present : (\E i \in 1..n : Order[i] = f) /\ Chosen(f, filter) /\ InferFileType(f) = c}

\* What the walk knows after n entries, unless a limit is exceeded: the files
\* chosen, and no directory that keeps anything from the user but those it
\* skips and what is inside them.
WalkInv(present, filter, w, n) ==
  ~w.exceeded =>
    /\ \A c \in Lists : w.lists[c] = ChosenUpTo(present, filter, n, c)
    /\ \A d \in w.skipped : d \in Dirs /\ Blocked(d, filter)
    /\ \A i \in 1..n : Order[i] \in Entries(present) \cap Dirs /\ Blocked(Order[i], filter) =>
         Order[i] \in w.skipped \/ \E d \in w.skipped : Inside(Order[i], d)

\* An entry that is not chosen as a c adds nothing to those of kind c.
LEMMA ChosenGrows ==
  ASSUME NEW present, NEW filter, NEW n \in 1..Len(Order), NEW c,
         Order[n] \in present /\ Chosen(Order[n], filter) => InferFileType(Order[n]) # c
  PROVE  ChosenUpTo(present, filter, n, c) = ChosenUpTo(present, filter, n - 1, c)
<1>1. 1..n = (1..(n - 1)) \cup {n}
  BY OrderLength
<1>. QED
  BY <1>1 DEF ChosenUpTo

\* A chosen file is added to those of its kind.
LEMMA ChosenAdds ==
  ASSUME NEW present, NEW filter, NEW n \in 1..Len(Order),
         Order[n] \in present, Chosen(Order[n], filter)
  PROVE  ChosenUpTo(present, filter, n, InferFileType(Order[n])) =
           ChosenUpTo(present, filter, n - 1, InferFileType(Order[n])) \cup {Order[n]}
<1>1. 1..n = (1..(n - 1)) \cup {n}
  BY OrderLength
<1>. QED
  BY <1>1 DEF ChosenUpTo

\* A step over an entry that is not listed, and is no directory that needs to
\* be remembered.
LEMMA WalkPasses ==
  ASSUME NEW present, NEW filter, NEW n \in 1..Len(Order), NEW w, WalkInv(present, filter, w, n - 1),
         ~w.exceeded,
         ~(Order[n] \in present /\ Chosen(Order[n], filter)),
         Order[n] \in Entries(present) \cap Dirs /\ Blocked(Order[n], filter) =>
           \E d \in w.skipped : Inside(Order[n], d)
  PROVE  WalkInv(present, filter, w, n)
<1>1. \A c \in Lists : ChosenUpTo(present, filter, n, c) = ChosenUpTo(present, filter, n - 1, c)
  BY ChosenGrows
<1>2. \A i \in 1..n : i = n \/ i \in 1..(n - 1)
  BY OrderLength
<1>. QED
  BY <1>1, <1>2 DEF WalkInv

\* One entry of the walk keeps its invariant.
LEMMA WalkKeeps ==
  ASSUME NEW present \in SUBSET Files, NEW filter, NEW n \in 1..Len(Order),
         NEW w \in WalkStates, WalkInv(present, filter, w, n - 1)
  PROVE  WalkInv(present, filter, WalkStep(present, filter, w, n), n)
<1>. DEFINE e == Order[n]
<1>1. e \in Range(Order)
  BY OrderLength DEF Range
<1>2. present \cap Dirs = {} /\ present \subseteq Entries(present) /\ Entries(present) \subseteq present \cup Dirs
  BY DEF Files, Entries
<1>3. CASE w.exceeded
  <2>1. WalkStep(present, filter, w, n) = w
    BY <1>3 DEF WalkStep, Visit
  <2>. QED
    BY <1>3, <2>1 DEF WalkInv
<1>4. CASE ~w.exceeded /\ e \notin Entries(present)
  BY <1>2, <1>4, WalkPasses DEF WalkStep
<1>5. CASE ~w.exceeded /\ e \in Entries(present) /\ \E d \in w.skipped : Inside(e, d)
  <2>1. WalkStep(present, filter, w, n) = w
    BY <1>5 DEF WalkStep, Visit
  <2>2. PICK d \in w.skipped : Inside(e, d)
    BY <1>5
  <2>3. d \in Dirs /\ Blocked(d, filter)
    BY <1>5 DEF WalkInv
  <2>4. ~Chosen(e, filter)
    BY <2>2, <2>3 DEF Chosen, Blocked
  <2>. QED
    BY <1>5, <2>1, <2>4, WalkPasses
<1>6. CASE ~w.exceeded /\ e \in Entries(present) /\ e \in Dirs /\ ~\E d \in w.skipped : Inside(e, d)
  <2>1. WalkStep(present, filter, w, n) = VisitDir(w, e, filter)
    BY <1>6 DEF WalkStep, Visit
  <2>2. CASE ~Blocked(e, filter)
    <3>1. VisitDir(w, e, filter) = w
      BY <2>2 DEF VisitDir, Blocked
    <3>. QED
      BY <1>2, <1>6, <2>1, <2>2, <3>1, WalkPasses
  <2>3. CASE Blocked(e, filter)
    <3>. DEFINE v == [w EXCEPT !.skipped = @ \cup {e}]
    <3>1. VisitDir(w, e, filter) = v
      BY <2>3 DEF VisitDir, Blocked
    <3>2. v.skipped = w.skipped \cup {e} /\ v.lists = w.lists /\ v.exceeded = w.exceeded
      BY DEF WalkStates
    <3>. HIDE DEF v
    <3>3. \A c \in Lists : ChosenUpTo(present, filter, n, c) = ChosenUpTo(present, filter, n - 1, c)
      BY <1>2, <1>6, ChosenGrows
    <3>4. \A i \in 1..n : i = n \/ i \in 1..(n - 1)
      BY OrderLength
    <3>. QED
      BY <1>6, <2>1, <2>3, <3>1, <3>2, <3>3, <3>4 DEF WalkInv
  <2>. QED
    BY <2>2, <2>3
<1>7. CASE ~w.exceeded /\ e \in Entries(present) /\ e \notin Dirs /\ ~\E d \in w.skipped : Inside(e, d)
  <2>. DEFINE t == InferFileType(e)
              v == VisitFile(w, e, filter)
  <2>1. WalkStep(present, filter, w, n) = v
    BY <1>7 DEF WalkStep, Visit
  <2>2. e \in present
    BY <1>2, <1>7
  <2>3. ASSUME NEW d \in Dirs, Inside(e, d)
        PROVE  ~Blocked(d, filter)
    <3>1. d \in Entries(present)
      BY <2>2, <2>3 DEF Entries
    <3>2. d \in Range(Order)
      BY ModelfileAssumption
    <3>3. PICK k \in DOMAIN Order : Order[k] = d
      BY <3>2 DEF Range
    <3>4. k \in 1..(n - 1)
      <4>1. k <= n
        BY <2>3, <3>3, OrderLength, ModelfileAssumption
      <4>2. k # n
        BY <1>7, <3>3
      <4>. QED
        BY <4>1, <4>2, OrderLength
    <3>. SUFFICES ASSUME Blocked(d, filter) PROVE FALSE
      OBVIOUS
    <3>5. d \in w.skipped \/ \E c \in w.skipped : Inside(d, c)
      BY <1>7, <3>1, <3>3, <3>4 DEF WalkInv
    <3>6. PICK c \in w.skipped : Inside(d, c)
      BY <1>7, <2>3, <3>5
    <3>7. c \in Range(Order)
      BY <1>7, ModelfileAssumption DEF WalkInv
    <3>. QED
      BY <1>1, <1>7, <2>3, <3>2, <3>6, <3>7, InsideIsTransitive
  <2>4. Chosen(e, filter) <=> ~Match(filter.exclude, e) /\ (e \in Skippable => Match(filter.include, e))
    BY <2>3 DEF Chosen, Blocked
  <2>5. CASE ~Chosen(e, filter)
    <3>1. v = w
      BY <2>4, <2>5 DEF VisitFile
    <3>. HIDE DEF v
    <3>. QED
      BY <1>7, <2>1, <2>5, <3>1, WalkPasses
  <2>6. CASE Chosen(e, filter)
    <3>1. t \in Lists
      BY TypeIsListed DEF Lists, Processed
    <3>2. v.skipped = w.skipped /\ v.lists = [w.lists EXCEPT ![t] = @ \cup {e}]
      BY <2>4, <2>6 DEF VisitFile, WalkStates
    <3>. HIDE DEF v
    <3>3. ASSUME NEW c \in Lists
          PROVE  v.lists[c] = ChosenUpTo(present, filter, n, c)
      <4>1. w.lists[c] = ChosenUpTo(present, filter, n - 1, c)
        BY <1>7 DEF WalkInv
      <4>2. v.lists[c] = IF c = t THEN w.lists[c] \cup {e} ELSE w.lists[c]
        BY <3>2, <3>1 DEF WalkStates
      <4>3. c # t => ChosenUpTo(present, filter, n, c) = ChosenUpTo(present, filter, n - 1, c)
        BY ChosenGrows
      <4>4. ChosenUpTo(present, filter, n, t) = ChosenUpTo(present, filter, n - 1, t) \cup {e}
        BY <2>2, <2>6, ChosenAdds
      <4>. QED
        BY <4>1, <4>2, <4>3, <4>4
    <3>4. \A i \in 1..n : i = n \/ i \in 1..(n - 1)
      BY OrderLength
    <3>. QED
      BY <1>7, <2>1, <3>2, <3>3, <3>4 DEF WalkInv
  <2>. QED
    BY <2>5, <2>6
<1>. QED
  BY <1>3, <1>4, <1>5, <1>6, <1>7

\* The walk lists the files that the flags choose, each under its type.
THEOREM WalkChooses ==
  ASSUME NEW present \in SUBSET Files, NEW filter
  PROVE  /\ Walked(present, filter) \in WalkStates
         /\ ~Walked(present, filter).exceeded =>
              \A c \in Lists : Walked(present, filter).lists[c] =
                {f \in present : Chosen(f, filter) /\ InferFileType(f) = c}
<1>1. PICK w : IsWalk(present, filter, w) /\ Walked(present, filter) = w[Len(Order)]
  BY WalkExists
<1>. DEFINE N == Len(Order)
            G == {n \in 0..N : WalkInv(present, filter, w[n], n)}
<1>2. N \in Nat /\ DOMAIN Order = 1..N
  BY OrderLength
<1>3. 0 \in G
  <2>1. w[0] = WalkStart /\ 1..0 = {} /\ 0 \in 0..N
    BY <1>1, <1>2 DEF IsWalk
  <2>. QED
    BY <2>1 DEF WalkInv, WalkStart, ChosenUpTo, NoLists
<1>4. ASSUME NEW n \in 1..N, n - 1 \in G
      PROVE  n \in G
  <2>1. w[n] = WalkStep(present, filter, w[n - 1], n) /\ w[n - 1] \in WalkStates
    BY <1>1, <1>2, <1>4 DEF IsWalk
  <2>2. WalkInv(present, filter, w[n], n)
    BY <1>4, <2>1, WalkKeeps
  <2>. QED
    BY <1>2, <2>2
<1>5. N \in G
  <2>. HIDE DEF G, N
  <2>. QED
    BY <1>2, <1>3, <1>4, UpTo
<1>6. \A c \in Lists :
        ChosenUpTo(present, filter, N, c) = {f \in present : Chosen(f, filter) /\ InferFileType(f) = c}
  <2>1. \A f \in present : \E i \in 1..N : Order[i] = f
    BY <1>2 DEF Files, Range
  <2>. QED
    BY <2>1 DEF ChosenUpTo
<1>7. WalkInv(present, filter, w[N], N) /\ w[N] \in WalkStates
  BY <1>1, <1>2, <1>5 DEF IsWalk
<1>. QED
  BY <1>1, <1>6, <1>7 DEF WalkInv

-----------------------------------------------------------------------------
(***************************************************************************)
(* The lines that are written.                                             *)
(***************************************************************************)

\* The sequence s has exactly the elements R.
Spells(s, R) == s \in Seq(R) /\ Range(s) = R

\* Two texts together have the lines of both.
LEMMA SpellsConcat ==
  ASSUME NEW s, NEW t, NEW R, NEW Q, Spells(s, R), Spells(t, Q)
  PROVE  Spells(s \o t, R \cup Q)
<1>1. s \in Seq(R \cup Q) /\ t \in Seq(R \cup Q)
  BY SeqMonotonic DEF Spells
<1>2. s \o t \in Seq(R \cup Q)
  BY <1>1
<1>3. Range(s \o t) = Range(s) \cup Range(t)
  BY <1>1, RangeConcatenation
<1>. QED
  BY <1>2, <1>3 DEF Spells

\* A text with one more line.
LEMMA SpellsAppend ==
  ASSUME NEW s, NEW R, NEW x, Spells(s, R)
  PROVE  Spells(Append(s, x), R \cup {x})
<1>1. s \in Seq(R \cup {x})
  BY SeqMonotonic DEF Spells
<1>2. Append(s, x) \in Seq(R \cup {x}) /\ Len(s) \in Nat /\ Len(Append(s, x)) = Len(s) + 1
  BY <1>1
<1>3. DOMAIN s = 1..Len(s) /\ DOMAIN Append(s, x) = (1..Len(s)) \cup {Len(s) + 1}
  BY <1>1, <1>2
<1>4. (\A i \in 1..Len(s) : Append(s, x)[i] = s[i]) /\ Append(s, x)[Len(s) + 1] = x
  BY <1>1, <1>2
<1>5. Range(Append(s, x)) = Range(s) \cup {x}
  BY <1>3, <1>4 DEF Range
<1>. QED
  BY <1>2, <1>5 DEF Spells

\* What is written for the n-th entry.
LineStep(c, lists, s, n) ==
  IF Order[n] \in lists[c] THEN Append(s, Line(c, QuoteIfNeeded(Order[n]))) ELSE s

ListLines(c, lists) == {Line(c, QuoteIfNeeded(f)) : f \in lists[c] \cap Range(Order)}

\* A list is written as a line for each of its files, and no other.
LEMMA MultiFieldSpells ==
  ASSUME NEW c, NEW lists
  PROVE  Spells(WriteMultiField(c, lists), ListLines(c, lists))
<1>. DEFINE N == Len(Order)
            L == ListLines(c, lists)
            step == [x \in Seq(L) \X (1..N) |-> LineStep(c, lists, x[1], x[2])]
            F(w) == [n \in 0..N |-> IF n = 0 THEN <<>> ELSE LineStep(c, lists, w[n - 1], n)]
            Upto(n) == {Line(c, QuoteIfNeeded(Order[i])) : i \in {k \in 1..n : Order[k] \in lists[c]}}
<1>1. N \in Nat /\ DOMAIN Order = 1..N
  BY OrderLength
<1>2. <<>> \in Seq(L)
  OBVIOUS
<1>3. \A s \in Seq(L), n \in 1..N : LineStep(c, lists, s, n) \in Seq(L)
  <2>1. \A n \in 1..N : Order[n] \in lists[c] => Line(c, QuoteIfNeeded(Order[n])) \in L
    BY <1>1 DEF Range, ListLines
  <2>. HIDE DEF L
  <2>. QED
    BY <2>1 DEF LineStep
<1>. HIDE DEF N, L
<1>4. step \in [Seq(L) \X (1..N) -> Seq(L)]
  BY <1>3
<1>. HIDE DEF step
<1>5. PICK v \in [0..N -> Seq(L)] : Recurs(v, <<>>, step, N)
  BY <1>1, <1>2, <1>4, Recursion
<1>6. ASSUME NEW n \in 1..N
      PROVE  v[n] = LineStep(c, lists, v[n - 1], n)
  <2>1. n - 1 \in 0..N
    BY <1>1
  <2>2. step[<<v[n - 1], n>>] = LineStep(c, lists, v[n - 1], n)
    BY <2>1 DEF step
  <2>. QED
    BY <1>5, <2>2 DEF Recurs
<1>7. v = F(v)
  <2>1. \A n \in 0..N : v[n] = F(v)[n]
    BY <1>1, <1>5, <1>6 DEF Recurs
  <2>. QED
    BY <2>1
<1>. DEFINE w == CHOOSE x : x = F(x)
<1>8. w = F(w)
  BY <1>7
<1>9. WriteMultiField(c, lists) = w[N]
  BY DEF WriteMultiField, LineStep, N
<1>. HIDE DEF w
<1>10. w[0] = <<>> /\ \A n \in 1..N : w[n] = LineStep(c, lists, w[n - 1], n)
  BY <1>1, <1>8
<1>. DEFINE G == {n \in 0..N : Spells(w[n], Upto(n))}
<1>11. 0 \in G
  <2>1. Upto(0) = {}
    OBVIOUS
  <2>2. Spells(<<>>, {})
    BY DEF Spells, Range
  <2>. HIDE DEF Upto
  <2>3. Spells(w[0], Upto(0))
    BY <1>10, <2>1, <2>2
  <2>. QED
    BY <1>1, <2>3
<1>12. ASSUME NEW n \in 1..N, n - 1 \in G
       PROVE  n \in G
  <2>1. 1..n = (1..(n - 1)) \cup {n}
    BY <1>1
  <2>2. CASE Order[n] \in lists[c]
    <3>1. Upto(n) = Upto(n - 1) \cup {Line(c, QuoteIfNeeded(Order[n]))}
      BY <2>1, <2>2
    <3>2. w[n] = Append(w[n - 1], Line(c, QuoteIfNeeded(Order[n])))
      BY <1>10, <2>2 DEF LineStep
    <3>. HIDE DEF Upto
    <3>3. Spells(w[n - 1], Upto(n - 1))
      BY <1>12
    <3>4. Spells(w[n], Upto(n))
      BY <3>1, <3>2, <3>3, SpellsAppend
    <3>. QED
      BY <1>1, <3>4
  <2>3. CASE Order[n] \notin lists[c]
    <3>1. Upto(n) = Upto(n - 1)
      BY <2>1, <2>3
    <3>. HIDE DEF Upto
    <3>. QED
      BY <1>1, <1>10, <1>12, <2>3, <3>1 DEF LineStep
  <2>. QED
    BY <2>2, <2>3
<1>13. N \in G
  <2>1. \A n \in 1..N : n - 1 \in G => n \in G
    BY <1>12
  <2>2. 0 \in G
    BY <1>11
  <2>. HIDE DEF G, F, Upto
  <2>3. \A n \in 0..N : n \in G
    BY <1>1, <2>2, <2>1, UpTo
  <2>. QED
    BY <1>1, <2>3
<1>14. Upto(N) = L
  BY <1>1 DEF L, ListLines, Range
<1>. QED
  BY <1>9, <1>13, <1>14 DEF L

FieldLines(s, values) == IF values[s] = <<>> THEN {} ELSE {Line(s, values[s])}

\* A single value is written as its line, or not at all.
LEMMA FieldSpells ==
  ASSUME NEW s, NEW values
  PROVE  Spells(WriteField(s, values), FieldLines(s, values))
<1>1. Spells(<<>>, {})
  BY DEF Spells, Range
<1>2. Spells(<<Line(s, values[s])>>, {Line(s, values[s])})
  BY DEF Spells, Range
<1>. QED
  BY <1>1, <1>2 DEF WriteField, FieldLines

\* The lines of a generated Modelfile.
ContentLines(lists, values) ==
  (UNION {FieldLines(s, values) : s \in Singles}) \cup UNION {ListLines(c, lists) : c \in Processed}

\* The Modelfile has these lines and no others.
LEMMA ContentSpells ==
  ASSUME NEW lists, NEW values
  PROVE  Spells(Content(lists, values), ContentLines(lists, values))
<1>. DEFINE F(s) == FieldLines(s, values)
            L(c) == ListLines(c, lists)
            f(s) == WriteField(s, values)
            l(c) == WriteMultiField(c, lists)
            s3 == f("NAME") \o f("ARCH") \o f("FAMILY")
            S3 == F("NAME") \cup F("ARCH") \cup F("FAMILY")
            s5 == s3 \o f("FORMAT") \o f("PARAMSIZE")
            S5 == S3 \cup F("FORMAT") \cup F("PARAMSIZE")
            s7 == s5 \o f("PRECISION") \o f("QUANTIZATION")
            S7 == S5 \cup F("PRECISION") \cup F("QUANTIZATION")
            s9 == s7 \o l("CONFIG") \o l("CODE")
            S9 == S7 \cup L("CONFIG") \cup L("CODE")
            s11 == s9 \o l("MODEL") \o l("DOC")
            S11 == S9 \cup L("MODEL") \cup L("DOC")
<1>1. (\A s \in Singles : Spells(f(s), F(s))) /\ \A c \in Processed : Spells(l(c), L(c))
  BY FieldSpells, MultiFieldSpells
<1>2. S11 = ContentLines(lists, values) /\ s11 = Content(lists, values)
  BY DEF ContentLines, Content, Singles, Processed
<1>3. /\ \A s \in {"NAME", "ARCH", "FAMILY", "FORMAT", "PARAMSIZE", "PRECISION", "QUANTIZATION"} : s \in Singles
      /\ \A c \in {"CONFIG", "CODE", "MODEL", "DOC"} : c \in Processed
  BY DEF Singles, Processed
<1>. HIDE DEF F, L, f, l
<1>4. Spells(s3, S3)
  BY <1>1, <1>3, SpellsConcat
<1>. HIDE DEF s3, S3
<1>5. Spells(s5, S5)
  BY <1>1, <1>3, <1>4, SpellsConcat
<1>. HIDE DEF s5, S5
<1>6. Spells(s7, S7)
  BY <1>1, <1>3, <1>5, SpellsConcat
<1>. HIDE DEF s7, S7
<1>7. Spells(s9, S9)
  BY <1>1, <1>3, <1>6, SpellsConcat
<1>. HIDE DEF s9, S9
<1>8. Spells(s11, S11)
  BY <1>1, <1>3, <1>7, SpellsConcat
<1>. QED
  BY <1>2, <1>8

-----------------------------------------------------------------------------
(***************************************************************************)
(* Types.                                                                  *)
(***************************************************************************)

Empty      == [f \in Files \ {Own} |-> None]
Generating == {"resolve", "fetch", "tool", "walk", "config", "open", "write"}

IsPast(w) ==
  w = [f \in {"text", "overwrite", "replaced", "files", "wanted", "lost", "touched"} |-> w[f]]

\* TypeOK does not follow from itself: which fields the records have, and that
\* the version is one while it is downloaded.
TypeInv ==
  /\ TypeOK
  /\ draft = [lists |-> draft.lists, values |-> draft.values]
  /\ IsPast(was)
  /\ was.wanted \in [Lists -> SUBSET Files]
  /\ pc \in Generating => opts \in Options
  /\ pc \in {"fetch", "tool"} => version \in Versions /\ todo \subseteq Objects[version]
  /\ pc = "write" => text = <<>>

DirType == [{"local", "temp"} -> [Files \ {Own} -> Contents]]

LEMMA CleanType ==
  ASSUME NEW d \in DirType
  PROVE  /\ Clean(d) \in DirType /\ Clean(d)["local"] = d["local"]
         /\ Clean(d)["temp"] = Empty
<1>1. Empty \in [Files \ {Own} -> Contents]
  BY DEF Empty, Contents
<1>. QED
  BY <1>1 DEF DirType, Clean, Empty

LEMMA StartValues ==
  /\ IsDraft(NoDraft) /\ NoDraft = [lists |-> NoDraft.lists, values |-> NoDraft.values]
  /\ IsDraft(NoOrigin)
  /\ IsPast(NoPast) /\ NoPast.text = Absent /\ NoPast.overwrite = FALSE /\ NoPast.replaced = {}
  /\ NoPast.files = {} /\ NoPast.wanted = NoLists /\ NoPast.lost = {} /\ NoPast.touched = {}
  /\ NoLists \in [Lists -> SUBSET Files]
  /\ DOMAIN NoMf.patterns = Singles \cup Lists
  /\ IsLines(Absent) /\ IsLines(<<>>)
<1>1. IsLines(Absent) /\ IsLines(<<>>)
  <2>1. Absent \in Seq(Range(Absent)) /\ <<>> \in Seq(Range(<<>>))
    BY DEF Absent, Range
  <2>. QED
    BY <2>1 DEF IsLines, IsText, Absent, Line
<1>. QED
  BY <1>1 DEF IsDraft, NoDraft, NoOrigin, NoPast, IsPast, NoLists, NoMf, ParseFile

LEMMA PresentAreFiles ==
  ASSUME TypeOK, NEW d \in {"local", "temp"}
  PROVE  Present(d) \in SUBSET Files
BY ImportAssumption DEF TypeOK, Present

LEMMA InitTypes == Init => TypeInv
<1>. SUFFICES ASSUME Init PROVE TypeInv
  OBVIOUS
<1>1. Empty \in [Files \ {Own} -> Contents]
  BY DEF Empty, Contents
<1>2. dir \in DirType /\ dir["temp"] = Empty
  BY <1>1 DEF Init, DirType, Empty
<1>3. edits \in 0..MaxEdits /\ faults \in 0..MaxFaults
  BY ImportAssumption DEF Init
<1>4. TypeOK
  BY <1>2, <1>3, StartValues DEF Init, TypeOK, DirType, Steps, Results, Empty
<1>. QED
  BY <1>2, <1>4, StartValues DEF Init, TypeInv, Generating

LEMMA FaultType ==
  ASSUME TypeOK, Fault
  PROVE  faults' \in 0..MaxFaults
BY ImportAssumption DEF TypeOK, Fault

LEMMA EditsType ==
  ASSUME TypeOK, Edits
  PROVE  edits' \in 0..MaxEdits
BY ImportAssumption DEF TypeOK, Edits

\* What remains of the history when the command is over.
LEMMA RecallType ==
  ASSUME TypeInv
  PROVE  /\ IsPast(Recall) /\ Recall.files = {} /\ Recall.wanted = NoLists /\ Recall.lost = {}
         /\ Recall.text = was.text /\ Recall.overwrite = was.overwrite
         /\ Recall.replaced = was.replaced /\ Recall.touched = was.touched
BY DEF TypeInv, Recall, IsPast

LEMMA LeaveTypes ==
  ASSUME TypeInv, NEW r \in Results, Leave(r), dir' \in DirType,
         IsLines(text'), faults' \in 0..MaxFaults, IsDraft(origin')
  PROVE  TypeInv'
<1>1. CASE r = "generated"
  <2>1. UNCHANGED <<opts, version, todo, draft, was, mf, layers, edits>> /\ pc' = "idle" /\ result' = r
    BY <1>1 DEF Leave, localVars, buildVars
  <2>2. TypeOK'
    BY <2>1 DEF TypeInv, TypeOK, DirType, Steps
  <2>. QED
    BY <2>1, <2>2 DEF TypeInv, Generating
<1>2. CASE r # "generated"
  <2>1. /\ opts' = None /\ version' = None /\ todo' = {} /\ draft' = NoDraft /\ mf' = NoMf /\ layers' = {}
        /\ was' = Recall /\ edits' = edits /\ pc' = "idle" /\ result' = r
    BY <1>2 DEF Leave, Forget
  <2>2. TypeOK'
    BY <2>1, StartValues DEF TypeInv, TypeOK, DirType, Steps
  <2>. QED
    BY <2>1, <2>2, StartValues, RecallType DEF TypeInv, Generating
<1>. QED
  BY <1>1, <1>2

LEMMA EndTypes ==
  ASSUME TypeInv, NEW r \in Results, End(r),
         IsLines(text'), faults' \in 0..MaxFaults, IsDraft(origin')
  PROVE  TypeInv'
<1>1. dir' \in DirType
  BY CleanType DEF End, TypeInv, TypeOK, DirType
<1>. QED
  BY <1>1, LeaveTypes DEF End

\* A command begins, or is refused at once.
LEMMA BeginTypes ==
  ASSUME TypeInv, NEW o \in Options, NEW s \in {"resolve", "walk"}, Begin(o, s)
  PROVE  TypeInv'
<1>. DEFINE w == [NoPast EXCEPT !.text = text, !.overwrite = o.overwrite,
                                !.files = IF o.dir = "temp" THEN {} ELSE Present(o.dir)]
<1>1. /\ opts' = o /\ version' = None /\ todo' = {} /\ draft' = NoDraft /\ mf' = NoMf /\ layers' = {}
      /\ was' = w /\ pc' = s /\ result' = "none" /\ dir' = Clean(dir)
      /\ UNCHANGED <<text, edits, faults, origin>>
  BY DEF Begin
<1>2. TypeOK'
  <2>1. dir' \in DirType
    BY <1>1, CleanType DEF TypeInv, TypeOK, DirType
  <2>. QED
    BY <1>1, <2>1, StartValues DEF TypeInv, TypeOK, DirType, Steps, Results
<1>3. IsPast(w) /\ w.wanted = NoLists
  BY StartValues DEF IsPast
<1>. HIDE DEF w
<1>. QED
  BY <1>1, <1>2, <1>3, StartValues DEF TypeInv, Generating

LEMMA GenerateTypes ==
  ASSUME TypeInv, NEW o \in Options, Generate(o) \/ RefuseGenerate(o)
  PROVE  TypeInv'
<1>1. CASE Generate(o)
  BY <1>1, BeginTypes DEF Generate
<1>2. CASE RefuseGenerate(o)
  <2>. DEFINE w == [NoPast EXCEPT !.text = text]
  <2>1. /\ opts' = None /\ version' = None /\ todo' = {} /\ draft' = NoDraft /\ mf' = NoMf /\ layers' = {}
        /\ was' = w /\ pc' = pc /\ pc = "idle" /\ result' = "refused" /\ dir' = Clean(dir)
        /\ UNCHANGED <<text, edits, faults, origin>>
    BY <1>2 DEF RefuseGenerate, Forget
  <2>2. TypeOK'
    <3>1. dir' \in DirType
      BY <2>1, CleanType DEF TypeInv, TypeOK, DirType
    <3>. QED
      BY <2>1, <3>1, StartValues DEF TypeInv, TypeOK, DirType, Steps, Results
  <2>3. IsPast(w) /\ w.wanted = NoLists
    BY StartValues DEF IsPast
  <2>. HIDE DEF w
  <2>. QED
    BY <2>1, <2>2, <2>3, StartValues DEF TypeInv, Generating
<1>. QED
  BY <1>1, <1>2

LEMMA ResolveTypes ==
  ASSUME TypeInv, NEW url \in Urls, Resolve(url)
  PROVE  TypeInv'
<1>. DEFINE p == SelectProvider(opts.provider, url)
<1>1. PICK v \in Resolved(p, url) : version' = v /\ todo' = Objects[v] /\ pc' \in {"fetch", "tool"}
  BY DEF Resolve
<1>. HIDE DEF p
<1>2. v \in Versions
  <2>1. \A url1 \in Urls : url1.version \in Versions \cup {None}
    BY ImportAssumption
  <2>2. CASE v \in LatestOf \cup Published
    BY <2>2, ImportAssumption
  <2>3. CASE v \in {url.version} \ {None}
    BY <2>1, <2>3
  <2>4. CASE v \in UNION {Namesakes[x] : x \in {url.version} \ {None}}
    BY <2>1, <2>4, ImportAssumption
  <2>5. Resolved(p, url) \in
          {LatestOf, {url.version} \cap Published, {url.version} \ {None},
           UNION {Namesakes[x] : x \in {url.version} \ {None}}}
    BY DEF Resolved
  <2>. QED
    BY <1>1, <2>2, <2>3, <2>4, <2>5
<1>3. pc = "resolve" /\ UNCHANGED <<dir, text, result, edits, faults, origin, opts, draft, was, mf, layers>>
  BY DEF Resolve, buildVars
<1>4. Objects[v] \subseteq Files
  BY <1>2, ImportAssumption
<1>5. TypeOK'
  BY <1>1, <1>2, <1>3, <1>4 DEF TypeInv, TypeOK, Steps
<1>. QED
  BY <1>1, <1>2, <1>3, <1>5 DEF TypeInv, Generating

\* While there is something to download, the next object is one of it.
LEMMA NextIsTodo ==
  ASSUME TypeOK, todo # {}
  PROVE  NextObject \in todo
<1>. DEFINE I == {i \in DOMAIN Order : Order[i] \in todo}
<1>1. I \in SUBSET Nat /\ I # {} /\ DOMAIN Order = 1..Len(Order) /\ Len(Order) \in Nat
  BY OrderLength DEF TypeOK, Files, Range
<1>2. PICK i \in I : \A k \in I : i <= k
  <2>. HIDE DEF I
  <2>. QED
    BY <1>1, LeastNumber
<1>3. Order[i] \in todo /\ i \in DOMAIN Order /\ \A k \in 1..(i - 1) : Order[k] \notin todo
  <2>1. \A k \in 1..(i - 1) : k \in DOMAIN Order /\ ~(i <= k)
    BY <1>1, <1>2
  <2>. QED
    BY <1>2, <2>1
<1>4. \E f \in todo : \E j \in DOMAIN Order : Order[j] = f /\ \A k \in 1..(j - 1) : Order[k] \notin todo
  BY <1>3
<1>. QED
  BY <1>4 DEF NextObject

\* A file is stored under the name of an object.
LEMMA StoresType ==
  ASSUME TypeOK, opts \in Options, NEW f \in Files \ {Own}, NEW c \in Contents, Stores(f, c)
  PROVE  /\ dir' \in DirType
         /\ dir'[opts.dir] = [dir[opts.dir] EXCEPT ![f] = c]
         /\ \A d \in {"local", "temp"} \ {opts.dir} : dir'[d] = dir[d]
BY ImportAssumption DEF TypeOK, Stores, DirType

LEMMA FetchTypes ==
  ASSUME TypeInv, FetchObject \/ LoseObject \/ Fetched
  PROVE  TypeInv'
<1>1. pc = "fetch" /\ opts \in Options /\ version \in Versions /\ todo \subseteq Objects[version]
  BY DEF FetchObject, LoseObject, Fetched, TypeInv, Generating
<1>2. ASSUME todo # {}
      PROVE  NextObject \in todo /\ NextObject \in Files \ {Own}
  BY <1>1, <1>2, NextIsTodo, ImportAssumption DEF TypeInv
<1>3. CASE FetchObject
  <2>1. dir' \in DirType
    <3>1. version \in Contents
      BY <1>1 DEF Contents
    <3>. QED
      BY <1>1, <1>2, <1>3, <3>1, StoresType DEF FetchObject, TypeInv
  <2>2. todo' \subseteq todo /\ UNCHANGED <<text, pc, result, edits, faults, origin, opts, version, draft, was, mf, layers>>
    BY <1>3 DEF FetchObject, buildVars
  <2>3. TypeOK'
    BY <1>1, <2>1, <2>2 DEF TypeInv, TypeOK, DirType
  <2>. QED
    BY <1>1, <2>2, <2>3 DEF TypeInv, Generating
<1>4. CASE LoseObject
  <2>1. dir' \in DirType
    <3>1. PICK c \in {None, "part", dir[opts.dir][NextObject]} : Stores(NextObject, c)
      BY <1>4 DEF LoseObject
    <3>2. c \in Contents
      BY <1>1, <1>2, <1>4, <3>1, ImportAssumption DEF LoseObject, TypeInv, TypeOK, Contents
    <3>. QED
      BY <1>1, <1>2, <1>4, <3>1, <3>2, StoresType DEF LoseObject, TypeInv
  <2>2. /\ todo' \subseteq todo /\ was' = [was EXCEPT !.lost = @ \cup {NextObject}]
        /\ UNCHANGED <<text, pc, result, edits, origin, opts, version, draft, mf, layers>>
    BY <1>4 DEF LoseObject, buildVars
  <2>3. faults' \in 0..MaxFaults
    BY <1>4, FaultType DEF LoseObject, TypeInv
  <2>4. TypeOK'
    BY <1>1, <2>1, <2>2, <2>3 DEF TypeInv, TypeOK, DirType
  <2>5. IsPast(was') /\ was'.wanted = was.wanted
    BY <2>2 DEF TypeInv, IsPast
  <2>. QED
    BY <1>1, <2>2, <2>4, <2>5 DEF TypeInv, Generating
<1>5. CASE Fetched
  <2>1. pc' = "walk" /\ UNCHANGED <<dir, text, result, edits, faults, origin, opts, version, todo, draft, was, mf, layers>>
    BY <1>5 DEF Fetched, commandVars, localVars, buildVars
  <2>2. TypeOK'
    BY <1>1, <2>1 DEF TypeInv, TypeOK, Steps
  <2>. QED
    BY <1>1, <2>1, <2>2 DEF TypeInv, Generating
<1>. QED
  BY <1>3, <1>4, <1>5

\* The tool has written some of the objects of the version.
LEMMA GotType ==
  ASSUME TypeOK, opts \in Options, version \in Versions, NEW got \in SUBSET Objects[version]
  PROVE  [dir EXCEPT ![opts.dir] = [f \in DOMAIN @ |-> IF f \in got THEN version ELSE @[f]]] \in DirType
<1>. DEFINE old == dir[opts.dir]
            new == [f \in DOMAIN old |-> IF f \in got THEN version ELSE old[f]]
<1>1. old \in [Files \ {Own} -> Contents]
  BY ImportAssumption DEF TypeOK
<1>2. new \in [Files \ {Own} -> Contents]
  BY <1>1 DEF Contents
<1>. HIDE DEF new
<1>3. [dir EXCEPT ![opts.dir] = new] \in DirType
  BY <1>2 DEF TypeOK, DirType
<1>. QED
  BY <1>3 DEF new

LEMMA TornType ==
  ASSUME TypeOK, opts \in Options, version \in Versions,
         NEW files \in SUBSET (Files \ {Own}), NEW d \in Torn(files)
  PROVE  d \in DirType /\ d["local"] \in [Files \ {Own} -> Contents]
<1>. DEFINE old == dir[opts.dir]
<1>1. PICK got \in UNION {[some -> {version, "part"}] : some \in SUBSET files} :
        d = [dir EXCEPT ![opts.dir] = [f \in DOMAIN @ |-> IF f \in DOMAIN got THEN got[f] ELSE @[f]]]
  BY DEF Torn
<1>2. PICK some \in SUBSET files : got \in [some -> {version, "part"}]
  OBVIOUS
<1>. DEFINE new == [f \in DOMAIN old |-> IF f \in DOMAIN got THEN got[f] ELSE old[f]]
<1>3. old \in [Files \ {Own} -> Contents]
  BY ImportAssumption DEF TypeOK
<1>4. new \in [Files \ {Own} -> Contents]
  BY <1>2, <1>3 DEF Contents
<1>. HIDE DEF new
<1>5. [dir EXCEPT ![opts.dir] = new] \in DirType
  BY <1>4 DEF TypeOK, DirType
<1>6. d \in DirType
  BY <1>1, <1>5 DEF new
<1>. QED
  BY <1>6 DEF DirType

LEMMA ToolTypes ==
  ASSUME TypeInv, RunTool \/ ToolFails
  PROVE  TypeInv'
<1>1. pc = "tool" /\ opts \in Options /\ version \in Versions /\ TypeOK
  BY DEF RunTool, ToolFails, TypeInv, Generating
<1>2. CASE RunTool
  <2>1. dir' \in DirType
    <3>1. dir' = [dir EXCEPT ![opts.dir] = [f \in DOMAIN @ |-> IF f \in Objects[version] THEN version ELSE @[f]]]
      BY <1>2 DEF RunTool
    <3>. QED
      BY <1>1, <3>1, GotType
  <2>2. pc' = "walk" /\ todo' = {} /\ UNCHANGED <<text, result, edits, faults, origin, opts, version, draft, was, mf, layers>>
    BY <1>2 DEF RunTool, buildVars
  <2>3. TypeOK'
    BY <1>1, <2>1, <2>2 DEF TypeOK, DirType, Steps
  <2>. QED
    BY <1>1, <2>2, <2>3 DEF TypeInv, Generating
<1>3. CASE ToolFails
  <2>1. dir' \in DirType
    <3>1. PICK left \in Torn(todo) : dir' = Clean(left)
      BY <1>3 DEF ToolFails
    <3>2. todo \subseteq Files \ {Own}
      BY <1>1, ImportAssumption DEF TypeInv
    <3>. QED
      BY <1>1, <3>1, <3>2, TornType, CleanType
  <2>2. UNCHANGED <<text, origin>> /\ Leave("failed")
    BY <1>3 DEF ToolFails
  <2>3. faults' \in 0..MaxFaults
    BY <1>1, <1>3, FaultType DEF ToolFails
  <2>. QED
    BY <1>1, <2>1, <2>2, <2>3, LeaveTypes DEF TypeOK, Results
<1>. QED
  BY <1>2, <1>3

\* What the walk finds is what the flags choose.
LEMMA FoundIsWanted ==
  ASSUME TypeOK, opts \in Options, Found.ok
  PROVE  Found.lists \in [Lists -> SUBSET Files] /\ Found.lists = Wanted
<1>. DEFINE here == Present(opts.dir)
            w    == Walked(here, opts.filter)
<1>1. here \in SUBSET Files
  BY ImportAssumption, PresentAreFiles
<1>2. Found.lists = w.lists /\ ~w.exceeded
  BY DEF Found, GenerateByWorkspace
<1>3. w \in WalkStates /\ \A c \in Lists : w.lists[c] =
                            {f \in here : Chosen(f, opts.filter) /\ InferFileType(f) = c}
  BY <1>1, <1>2, WalkChooses
<1>. HIDE DEF here, w
<1>4. w.lists \in [Lists -> SUBSET Files]
  BY <1>3 DEF WalkStates
<1>5. Wanted \in [Lists -> SUBSET Files] /\
      \A c \in Lists : Wanted[c] = {f \in here : Chosen(f, opts.filter) /\ InferFileType(f) = c}
  BY <1>1 DEF Wanted, here
<1>6. w.lists = Wanted
  <2>. DEFINE a == w.lists
              b == Wanted
  <2>1. \A c \in Lists : a[c] = b[c]
    BY <1>3, <1>5
  <2>2. a \in [Lists -> SUBSET Files] /\ b \in [Lists -> SUBSET Files]
    BY <1>4, <1>5
  <2>. HIDE DEF a, b
  <2>3. a = b
    BY <2>1, <2>2
  <2>. QED
    BY <2>3 DEF a, b
<1>. QED
  BY <1>2, <1>4, <1>6

LEMMA ReadTypes ==
  ASSUME TypeInv, Walk \/ ReadConfig
  PROVE  TypeInv'
<1>1. opts \in Options /\ TypeOK
  BY DEF Walk, ReadConfig, TypeInv, Generating
<1>2. CASE Walk
  <2>1. Found.lists \in [Lists -> SUBSET Files] /\ Wanted = Found.lists
    BY <1>1, <1>2, FoundIsWanted DEF Walk
  <2>2. /\ draft' = [draft EXCEPT !.lists = Found.lists] /\ was' = [was EXCEPT !.wanted = Wanted]
        /\ pc' = "config" /\ UNCHANGED <<dir, text, result, edits, faults, origin, opts, version, todo, mf, layers>>
    BY <1>2 DEF Walk, buildVars
  <2>3. /\ draft'.lists = Found.lists /\ draft'.values = draft.values
        /\ draft' = [lists |-> draft'.lists, values |-> draft'.values]
    BY <2>2 DEF TypeInv
  <2>4. IsPast(was') /\ was'.wanted = Wanted
    BY <2>2 DEF TypeInv, IsPast
  <2>5. TypeOK'
    BY <1>1, <2>1, <2>2, <2>3 DEF TypeOK, IsDraft, Steps
  <2>. QED
    BY <1>1, <2>1, <2>2, <2>3, <2>4, <2>5 DEF TypeInv, Generating
<1>3. CASE ReadConfig
  <2>. DEFINE v == GenerateByConfig(GenerateByModelConfig(Present(opts.dir)), opts.flags, Base[opts.dir])
  <2>1. /\ draft' = [draft EXCEPT !.values = v] /\ pc' = "open"
        /\ UNCHANGED <<dir, text, result, edits, faults, origin, opts, version, todo, was, mf, layers>>
    BY <1>3 DEF ReadConfig, buildVars
  <2>2. DOMAIN v = Singles
    BY DEF GenerateByConfig
  <2>. HIDE DEF v
  <2>3. /\ draft'.lists = draft.lists /\ draft'.values = v
        /\ draft' = [lists |-> draft'.lists, values |-> draft'.values]
    BY <2>1 DEF TypeInv
  <2>4. TypeOK'
    BY <1>1, <2>1, <2>2, <2>3 DEF TypeOK, IsDraft, Steps
  <2>. QED
    BY <1>1, <2>1, <2>3, <2>4 DEF TypeInv, Generating
<1>. QED
  BY <1>2, <1>3

LEMMA ContentIsLines ==
  ASSUME NEW lists, NEW values
  PROVE  IsLines(Content(lists, values))
<1>1. \A l \in ContentLines(lists, values) : l = Line(l.word, l.rest)
  BY DEF ContentLines, FieldLines, ListLines, Line
<1>2. \A i \in DOMAIN Content(lists, values) : Content(lists, values)[i] \in ContentLines(lists, values)
  BY ContentSpells DEF Spells, Range
<1>. QED
  BY <1>1, <1>2, ContentSpells DEF Spells, IsLines, IsText

\* A cut keeps the lines before the one it comes to, which it shortens.
LEMMA CutIsLines ==
  ASSUME NEW lines, IsLines(lines), NEW cut \in Cuts(lines)
  PROVE  IsLines(cut)
<1>. DEFINE A == Range(lines)
<1>1. lines \in Seq(A) /\ \A l \in A : l = Line(l.word, l.rest)
  BY DEF IsLines, IsText, Range
<1>2. \A s, B : s \in Seq(B) /\ (\A l \in B : l = Line(l.word, l.rest)) => IsLines(s)
  <2>. SUFFICES ASSUME NEW s, NEW B, s \in Seq(B), \A l \in B : l = Line(l.word, l.rest)
                PROVE  IsLines(s)
    OBVIOUS
  <2>1. \A i \in DOMAIN s : s[i] \in B
    OBVIOUS
  <2>2. s \in Seq(Range(s))
    BY SeqOfRange
  <2>. QED
    BY <2>1, <2>2 DEF IsLines, IsText
<1>3. \A m \in 0..Len(lines) : SubSeq(lines, 1, m) \in Seq(A)
  BY <1>1
<1>. HIDE DEF A
<1>4. Len(lines) \in Nat /\ DOMAIN lines = 1..Len(lines)
  BY <1>1
<1>5. CASE \E m \in 0..(Len(lines) - 1) : cut = SubSeq(lines, 1, m)
  <2>1. cut \in Seq(A)
    BY <1>3, <1>4, <1>5
  <2>. QED
    BY <1>1, <1>2, <2>1
<1>6. ASSUME NEW n \in DOMAIN lines, NEW k \in 0..(Len(lines[n].rest) - 1),
             cut = Append(SubSeq(lines, 1, n - 1), [lines[n] EXCEPT !.rest = SubSeq(@, 1, k)])
      PROVE  IsLines(cut)
  <2>. DEFINE x == [lines[n] EXCEPT !.rest = SubSeq(@, 1, k)]
              B == A \cup {x}
  <2>1. lines[n] \in A
    BY <1>1
  <2>2. x = Line(x.word, x.rest)
    <3>1. PICK a, b : lines[n] = [word |-> a, rest |-> b]
      BY <1>1, <2>1 DEF Line
    <3>. DEFINE c == SubSeq(lines[n].rest, 1, k)
    <3>2. x = [lines[n] EXCEPT !.rest = c]
      OBVIOUS
    <3>. HIDE DEF x, c
    <3>3. x = [word |-> a, rest |-> c]
      BY <3>1, <3>2
    <3>. QED
      BY <3>3 DEF Line
  <2>. HIDE DEF x
  <2>3. SubSeq(lines, 1, n - 1) \in Seq(A)
    BY <1>3, <1>4
  <2>4. SubSeq(lines, 1, n - 1) \in Seq(B)
    BY <2>3, SeqMonotonic
  <2>5. cut \in Seq(B)
    <3>1. cut = Append(SubSeq(lines, 1, n - 1), x)
      BY <1>6 DEF x
    <3>. QED
      BY <2>4, <3>1
  <2>6. \A l \in B : l = Line(l.word, l.rest)
    BY <1>1, <2>2
  <2>. HIDE DEF B
  <2>. QED
    BY <1>2, <2>5, <2>6
<1>. QED
  BY <1>5, <1>6 DEF Cuts

\* What is written to the truncated file is the text.
LEMMA WritesNew ==
  ASSUME text = <<>>, NEW new, IsLines(new), Writes(new)
  PROVE  text' = new
<1>1. new \in Seq(Range(new)) /\ Len(new) \in Nat
  BY DEF IsLines, IsText
<1>2. text' = new \o SubSeq(<<>>, Len(new) + 1, 0)
  BY DEF Writes
<1>3. SubSeq(<<>>, Len(new) + 1, 0) = <<>>
  BY <1>1, SubSeqEmpty
<1>. QED
  BY <1>1, <1>2, <1>3, ConcatEmptySeq

\* A step that does not go on with a command.
\* A kill leaves the directories alone, or what a download has come to.
LEMMA KillDirs ==
  ASSUME TypeInv, Kill
  PROVE  dir' = dir \/ dir' \in DirType
<1>1. CASE pc \notin {"fetch", "tool"}
  BY <1>1 DEF Kill
<1>2. CASE pc \in {"fetch", "tool"}
  <2>1. opts \in Options /\ version \in Versions /\ todo \subseteq Files \ {Own} /\ TypeOK
    BY <1>2, ImportAssumption DEF TypeInv, Generating
  <2>2. CASE dir' \in Torn(todo)
    BY <2>1, <2>2, TornType
  <2>3. CASE todo # {} /\ dir' \in Torn({NextObject})
    <3>1. {NextObject} \in SUBSET (Files \ {Own})
      BY <2>1, <2>3, NextIsTodo
    <3>. QED
      BY <2>1, <2>3, <3>1, TornType
  <2>. QED
    BY <1>2, <2>2, <2>3 DEF Kill
<1>. QED
  BY <1>1, <1>2

LEMMA FailTypes ==
  ASSUME TypeInv,
         \/ ResolveFails \/ ListingFails \/ WalkFails \/ ReadConfigFails \/ OpenFails
         \/ ParseFails \/ ProcessFails \/ Kill
  PROVE  TypeInv'
<1>1. text' = text /\ origin' = origin /\ faults' \in 0..MaxFaults
  <2>1. faults' = faults \/ Fault
    BY DEF ResolveFails, ListingFails, WalkFails, ReadConfigFails, OpenFails, ParseFails, ProcessFails, Kill
  <2>. QED
    BY <2>1, FaultType DEF TypeInv, TypeOK, ResolveFails, ListingFails, WalkFails, ReadConfigFails,
      OpenFails, ParseFails, ProcessFails, Kill
<1>2. IsLines(text') /\ IsDraft(origin')
  BY <1>1 DEF TypeInv, TypeOK
<1>3. CASE ResolveFails \/ ListingFails \/ WalkFails \/ ReadConfigFails \/ OpenFails
  <2>1. End("failed")
    BY <1>3 DEF ResolveFails, ListingFails, WalkFails, ReadConfigFails, OpenFails
  <2>. QED
    BY <1>1, <1>2, <2>1, EndTypes DEF Results
<1>4. CASE ParseFails \/ ProcessFails
  <2>1. Leave("unbuilt") /\ dir' = dir
    BY <1>4 DEF ParseFails, ProcessFails
  <2>2. dir' \in DirType
    BY <2>1 DEF TypeInv, TypeOK, DirType
  <2>. QED
    BY <1>1, <1>2, <2>1, <2>2, LeaveTypes DEF Results
<1>5. CASE Kill
  <2>1. Leave("killed")
    BY <1>5 DEF Kill
  <2>2. dir' \in DirType
    BY <1>5, KillDirs DEF DirType, TypeInv, TypeOK
  <2>. QED
    BY <1>1, <1>2, <2>1, <2>2, LeaveTypes DEF Results
<1>. QED
  BY <1>3, <1>4, <1>5

LEMMA WroteType ==
  ASSUME TypeInv, NEW who
  PROVE  IsDraft(Wrote(who))
BY DEF TypeInv, TypeOK, IsDraft, Wrote

LEMMA WriteTypes ==
  ASSUME TypeInv, Open \/ Write \/ WriteFails
  PROVE  TypeInv'
<1>. DEFINE new == Content(draft.lists, draft.values)
<1>1. CASE Open
  <2>1. /\ text' = <<>> /\ pc = "open" /\ pc' = "write" /\ origin' = Wrote("cut")
        /\ was' = [was EXCEPT !.replaced = {text}]
        /\ UNCHANGED <<dir, result, edits, faults, opts, version, todo, draft, mf, layers>>
    BY <1>1 DEF Open, buildVars
  <2>2. TypeOK'
    BY <2>1, StartValues, WroteType DEF TypeInv, TypeOK, Steps
  <2>3. IsPast(was') /\ was'.wanted = was.wanted
    BY <2>1 DEF TypeInv, IsPast
  <2>. QED
    BY <2>1, <2>2, <2>3 DEF TypeInv, Generating
<1>2. CASE Write
  <2>1. text = <<>> /\ Writes(new) /\ origin' = Wrote("generate") /\ End("generated") /\ faults' = faults
    BY <1>2 DEF Write, TypeInv
  <2>2. IsLines(text')
    <3>1. IsLines(new)
      BY ContentIsLines
    <3>. HIDE DEF new
    <3>. QED
      BY <2>1, <3>1, WritesNew
  <2>3. faults' \in 0..MaxFaults
    BY <2>1 DEF TypeInv, TypeOK
  <2>. QED
    BY <2>1, <2>2, <2>3, WroteType, EndTypes DEF Results
<1>3. CASE WriteFails
  <2>1. text = <<>> /\ Fault /\ origin' = origin /\ End("failed")
    BY <1>3 DEF WriteFails, TypeInv
  <2>2. PICK cut \in Cuts(new) : Writes(cut)
    BY <1>3 DEF WriteFails
  <2>3. IsLines(text')
    <3>1. IsLines(new)
      BY ContentIsLines
    <3>. HIDE DEF new
    <3>. QED
      BY <2>1, <2>2, <3>1, CutIsLines, WritesNew
  <2>4. faults' \in 0..MaxFaults
    BY <2>1, FaultType DEF TypeInv
  <2>. QED
    BY <2>1, <2>3, <2>4, EndTypes DEF Results, TypeInv, TypeOK
<1>. QED
  BY <1>1, <1>2, <1>3

\* The layers of a build are of entries that are no directories.
LEMMA LayersType ==
  ASSUME NEW patterns, NEW present \in SUBSET Files, Buildable(patterns, present)
  PROVE  LayersOf(patterns, present) \subseteq Processed \X Files
<1>1. Entries(present) \subseteq Range(Order)
  BY ModelfileAssumption DEF Entries, Files
<1>2. ASSUME NEW c \in Processed, NEW p \in patterns[c]
      PROVE  Matched(p, present) \subseteq Files
  <2>1. Resolves(p, present) /\ Matched(p, present) \cap Dirs = {}
    BY DEF Buildable
  <2>2. Matched(p, present) \subseteq Entries(present)
    BY <2>1 DEF Matched, Resolves
  <2>. QED
    BY <1>1, <2>1, <2>2 DEF Files
<1>. QED
  BY <1>2 DEF LayersOf

LEMMA BuildTypes ==
  ASSUME TypeInv, StartBuild \/ Parse \/ Process
  PROVE  TypeInv'
<1>1. CASE StartBuild
  <2>. DEFINE w == [NoPast EXCEPT !.text = text]
  <2>1. /\ opts' = None /\ version' = None /\ todo' = {} /\ draft' = NoDraft /\ mf' = NoMf /\ layers' = {}
        /\ was' = w /\ pc' = "parse" /\ pc = "idle" /\ result' = "none" /\ dir' = Clean(dir)
        /\ UNCHANGED <<text, edits, faults, origin>>
    BY <1>1 DEF StartBuild, Forget
  <2>2. TypeOK'
    <3>1. dir' \in DirType
      BY <2>1, CleanType DEF TypeInv, TypeOK, DirType
    <3>. QED
      BY <2>1, <3>1, StartValues DEF TypeInv, TypeOK, DirType, Steps, Results
  <2>3. IsPast(w) /\ w.wanted = NoLists
    BY StartValues DEF IsPast
  <2>. HIDE DEF w
  <2>. QED
    BY <2>1, <2>2, <2>3, StartValues DEF TypeInv, Generating
<1>2. CASE Parse
  <2>1. /\ mf' = [patterns |-> ParseFile(text), origin |-> origin] /\ pc = "parse" /\ pc' = "match"
        /\ UNCHANGED <<dir, text, result, edits, faults, origin, opts, version, todo, draft, was, layers>>
    BY <1>2 DEF Parse, commandVars, localVars
  <2>2. DOMAIN mf'.patterns = Singles \cup Lists
    BY <2>1 DEF ParseFile
  <2>3. TypeOK'
    BY <2>1, <2>2 DEF TypeInv, TypeOK, Steps
  <2>. QED
    BY <2>1, <2>3 DEF TypeInv, Generating
<1>3. CASE Process
  <2>1. /\ layers' = LayersOf(mf.patterns, Present("local")) /\ pc = "match" /\ pc' = "idle"
        /\ result' = "built" /\ Buildable(mf.patterns, Present("local"))
        /\ UNCHANGED <<dir, text, edits, faults, origin, opts, version, todo, draft, was, mf>>
    BY <1>3 DEF Process, commandVars, localVars, Match1
  <2>2. layers' \subseteq Processed \X Files
    BY <2>1, LayersType, PresentAreFiles DEF TypeInv
  <2>3. TypeOK'
    BY <2>1, <2>2 DEF TypeInv, TypeOK, Steps, Results
  <2>. QED
    BY <2>1, <2>3 DEF TypeInv, Generating
<1>. QED
  BY <1>1, <1>2, <1>3

LEMMA EditTypes ==
  ASSUME TypeInv, EditModelfile \/ EditFile
  PROVE  TypeInv'
<1>1. edits' \in 0..MaxEdits
  BY EditsType DEF EditModelfile, EditFile, TypeInv
<1>2. CASE EditModelfile
  <2>1. /\ origin' = NoOrigin /\ was' = [was EXCEPT !.touched = @ \cup {Own}] /\ pc # "write"
        /\ UNCHANGED <<dir, pc, result, faults, opts, version, todo, draft, mf, layers>>
    BY <1>2 DEF EditModelfile, buildVars
  <2>2. IsLines(text')
    BY <1>2, StartValues, ImportAssumption DEF EditModelfile
  <2>3. IsPast(was') /\ was'.wanted = was.wanted
    BY <2>1 DEF TypeInv, IsPast
  <2>4. TypeOK'
    BY <1>1, <2>1, <2>2, StartValues DEF TypeInv, TypeOK
  <2>. QED
    BY <2>1, <2>3, <2>4 DEF TypeInv, Generating
<1>3. CASE EditFile
  <2>1. PICK f \in Added : /\ dir' = [dir EXCEPT !["local"][f] = IF @ = None THEN "user" ELSE None]
                           /\ was' = [was EXCEPT !.touched = @ \cup {f}]
    BY <1>3 DEF EditFile
  <2>2. UNCHANGED <<text, pc, result, faults, origin, opts, version, todo, draft, mf, layers>>
    BY <1>3 DEF EditFile, buildVars
  <2>3. dir' \in DirType
    BY <2>1, ImportAssumption DEF TypeInv, TypeOK, DirType, Contents
  <2>4. IsPast(was') /\ was'.wanted = was.wanted
    BY <2>1 DEF TypeInv, IsPast
  <2>5. TypeOK'
    BY <1>1, <2>2, <2>3 DEF TypeInv, TypeOK, DirType
  <2>. QED
    BY <2>2, <2>3, <2>4, <2>5 DEF TypeInv, Generating
<1>. QED
  BY <1>2, <1>3

\* Every step keeps the types.
LEMMA NextTypes ==
  ASSUME TypeInv, [Next]_vars
  PROVE  TypeInv'
<1>1. CASE \E o \in Options : Generate(o) \/ RefuseGenerate(o)
  BY <1>1, GenerateTypes
<1>2. CASE \E url \in Urls : Resolve(url)
  BY <1>2, ResolveTypes
<1>3. CASE Download \/ ResolveFails \/ Kill
  BY <1>3, FetchTypes, ToolTypes, FailTypes DEF Download
<1>4. CASE Generation
  BY <1>4, ReadTypes, WriteTypes, FailTypes DEF Generation
<1>5. CASE Build
  BY <1>5, BuildTypes, FailTypes DEF Build
<1>6. CASE EditModelfile \/ EditFile
  BY <1>6, EditTypes
<1>7. CASE UNCHANGED vars
  <2>1. UNCHANGED <<dir, text, pc, opts, version, todo, draft, mf, layers, result, edits, faults, was, origin>>
    BY <1>7 DEF vars, commandVars, localVars, buildVars
  <2>2. TypeOK'
    BY <2>1 DEF TypeInv, TypeOK
  <2>. QED
    BY <2>1, <2>2 DEF TypeInv
<1>. QED
  BY <1>1, <1>2, <1>3, <1>4, <1>5, <1>6, <1>7 DEF Next

\* The variables of the commands have the values they are meant to have.
THEOREM ImportTypeCorrect == Spec => []TypeOK
<1>1. TypeInv /\ [Next]_vars => TypeInv'
  BY NextTypes
<1>2. TypeInv => TypeOK
  BY DEF TypeInv
<1>. QED
  BY InitTypes, <1>1, <1>2, PTL DEF Spec

-----------------------------------------------------------------------------
(***************************************************************************)
(* The Modelfile is kept.                                                  *)
(***************************************************************************)

\* A command that generates may write, and the text is what it was unless it
\* was replaced or touched; it is replaced before it is written.
KeptInv ==
  /\ pc \in Generating \/ was.replaced # {} => was.overwrite \/ was.text = Absent
  /\ was.replaced = {} /\ Own \notin was.touched => text = was.text
  /\ pc = "write" => was.replaced # {}

\* Neither the text nor what the history says of it changes.
KeepsText ==
  /\ UNCHANGED text
  /\ was'.text = was.text /\ was'.overwrite = was.overwrite
  /\ was'.replaced = was.replaced /\ was'.touched = was.touched

\* A step that neither writes the Modelfile nor begins a command.
LEMMA KeepsTextKeeps ==
  ASSUME KeptInv, KeepsText, pc' \in Generating => pc \in Generating, pc' = "write" => pc = "write"
  PROVE  KeptInv'
BY DEF KeptInv, KeepsText

LEMMA EndKeepsText ==
  ASSUME TypeInv, NEW r, Leave(r) \/ End(r)
  PROVE  pc' = "idle" /\ was'.text = was.text /\ was'.overwrite = was.overwrite
           /\ was'.replaced = was.replaced /\ was'.touched = was.touched
BY RecallType DEF Leave, End

LEMMA InitKept == Init => KeptInv
BY StartValues DEF Init, KeptInv, Generating

\* A command that begins may write, or is refused.
LEMMA GenerateKept ==
  ASSUME TypeInv, KeptInv, NEW o \in Options, Generate(o) \/ RefuseGenerate(o)
  PROVE  KeptInv'
<1>1. /\ text' = text /\ was'.text = text /\ was'.replaced = {}
      /\ pc' \in Generating => pc' \in {"resolve", "walk"} /\ (was'.overwrite \/ text = Absent)
  <2>1. CASE Generate(o)
    BY <2>1, StartValues DEF Generate, Begin, MayWrite, IsPast
  <2>2. CASE RefuseGenerate(o)
    BY <2>2, StartValues DEF RefuseGenerate, IsPast, Generating
  <2>. QED
    BY <2>1, <2>2
<1>. QED
  BY <1>1 DEF KeptInv, Generating

LEMMA DownloadKept ==
  ASSUME TypeInv, KeptInv, Download \/ (\E url \in Urls : Resolve(url))
  PROVE  KeptInv'
<1>1. CASE ListingFails \/ ToolFails
  <2>1. KeepsText /\ pc' = "idle"
    BY <1>1, EndKeepsText, RecallType DEF ListingFails, ToolFails, KeepsText
  <2>. QED
    BY <2>1, KeepsTextKeeps DEF Generating
<1>2. CASE FetchObject \/ Fetched \/ RunTool \/ \E url \in Urls : Resolve(url)
  <2>1. text' = text /\ was' = was /\ pc \in Generating /\ pc' \in {"fetch", "tool", "walk"}
    BY <1>2 DEF FetchObject, Fetched, RunTool, Resolve, commandVars, Generating
  <2>. QED
    BY <2>1, KeepsTextKeeps DEF KeepsText, Generating
<1>3. CASE LoseObject
  <2>1. /\ text' = text /\ was' = [was EXCEPT !.lost = @ \cup {NextObject}] /\ pc' = pc
    BY <1>3 DEF LoseObject
  <2>2. KeepsText
    BY <2>1 DEF KeepsText, TypeInv, IsPast
  <2>. QED
    BY <2>1, <2>2, KeepsTextKeeps
<1>. QED
  BY <1>1, <1>2, <1>3 DEF Download

LEMMA GenerationKept ==
  ASSUME TypeInv, KeptInv, Generation
  PROVE  KeptInv'
<1>1. CASE WalkFails \/ ReadConfigFails \/ OpenFails
  <2>1. KeepsText /\ pc' = "idle"
    BY <1>1, EndKeepsText DEF WalkFails, ReadConfigFails, OpenFails, KeepsText
  <2>. QED
    BY <2>1, KeepsTextKeeps DEF Generating
<1>2. CASE Walk \/ ReadConfig
  <2>1. /\ text' = text /\ pc \in Generating /\ pc' \in {"config", "open"}
        /\ was' = was \/ was' = [was EXCEPT !.wanted = Wanted]
    BY <1>2 DEF Walk, ReadConfig, Generating
  <2>2. KeepsText
    BY <2>1 DEF KeepsText, TypeInv, IsPast
  <2>. QED
    BY <2>1, <2>2, KeepsTextKeeps
<1>3. CASE Open
  <2>1. pc = "open" /\ pc' = "write" /\ was' = [was EXCEPT !.replaced = {text}]
    BY <1>3 DEF Open
  <2>2. was'.replaced # {} /\ was'.text = was.text /\ was'.overwrite = was.overwrite
    BY <2>1 DEF TypeInv, IsPast
  <2>. QED
    BY <2>1, <2>2 DEF KeptInv, Generating
<1>4. CASE Write \/ WriteFails
  <2>1. pc = "write" /\ pc' = "idle" /\ was'.overwrite = was.overwrite /\ was'.text = was.text
          /\ was'.replaced = was.replaced
    BY <1>4, EndKeepsText DEF Write, WriteFails
  <2>. QED
    BY <2>1 DEF KeptInv, Generating
<1>. QED
  BY <1>1, <1>2, <1>3, <1>4 DEF Generation

LEMMA BuildKept ==
  ASSUME TypeInv, KeptInv, Build \/ ResolveFails \/ Kill
  PROVE  KeptInv'
<1>1. CASE StartBuild
  <2>1. text' = text /\ was'.text = text /\ was'.replaced = {} /\ pc' = "parse"
    BY <1>1, StartValues DEF StartBuild, IsPast
  <2>. QED
    BY <2>1 DEF KeptInv, Generating
<1>2. CASE Parse \/ Process
  <2>1. text' = text /\ was' = was /\ pc' \in {"match", "idle"}
    BY <1>2 DEF Parse, Process, commandVars
  <2>. QED
    BY <2>1, KeepsTextKeeps DEF KeepsText, Generating
<1>3. CASE ParseFails \/ ProcessFails \/ ResolveFails \/ Kill
  <2>1. KeepsText /\ pc' = "idle"
    BY <1>3, EndKeepsText DEF ParseFails, ProcessFails, ResolveFails, Kill, KeepsText
  <2>. QED
    BY <2>1, KeepsTextKeeps DEF Generating
<1>. QED
  BY <1>1, <1>2, <1>3 DEF Build

LEMMA EditKept ==
  ASSUME TypeInv, KeptInv, EditModelfile \/ EditFile
  PROVE  KeptInv'
<1>1. CASE EditModelfile
  <2>1. was' = [was EXCEPT !.touched = @ \cup {Own}] /\ pc' = pc
    BY <1>1 DEF EditModelfile
  <2>2. Own \in was'.touched /\ was'.text = was.text /\ was'.overwrite = was.overwrite
          /\ was'.replaced = was.replaced
    BY <2>1 DEF TypeInv, IsPast
  <2>. QED
    BY <2>1, <2>2 DEF KeptInv
<1>2. CASE EditFile
  <2>1. PICK f \in Added : was' = [was EXCEPT !.touched = @ \cup {f}]
    BY <1>2 DEF EditFile
  <2>2. f # Own /\ pc' = pc /\ text' = text
    BY <1>2, ImportAssumption DEF EditFile
  <2>3. was'.touched = was.touched \cup {f} /\ was'.text = was.text /\ was'.overwrite = was.overwrite
          /\ was'.replaced = was.replaced
    BY <2>1 DEF TypeInv, IsPast
  <2>. QED
    BY <2>2, <2>3 DEF KeptInv
<1>. QED
  BY <1>1, <1>2

LEMMA NextKept ==
  ASSUME TypeInv, KeptInv, [Next]_vars
  PROVE  KeptInv'
<1>1. CASE Next
  BY <1>1, GenerateKept, DownloadKept, GenerationKept, BuildKept, EditKept DEF Next
<1>2. CASE UNCHANGED vars
  BY <1>2 DEF vars, commandVars, KeptInv
<1>. QED
  BY <1>1, <1>2

LEMMA KeptFollows == KeptInv => ModelfileKept
BY DEF KeptInv, ModelfileKept

\* A Modelfile is replaced only with --overwrite or when there was none at
\* first, and no failure before that changes it.
THEOREM ImportKeepsModelfile == Spec => []ModelfileKept
<1>1. Init => TypeInv /\ KeptInv
  BY InitTypes, InitKept
<1>2. TypeInv /\ KeptInv /\ [Next]_vars => TypeInv' /\ KeptInv'
  BY NextTypes, NextKept
<1>. QED
  BY <1>1, <1>2, KeptFollows, PTL DEF Spec

-----------------------------------------------------------------------------
(***************************************************************************)
(* An import is faithful.                                                  *)
(***************************************************************************)

\* Objects that came, and the user left alone.
Sure == Objects[version] \ (was.lost \cup was.touched)

FoundFiles == UNION Range(draft.lists)

\* What may be in the directory.
Known == Objects[version] \cup was.files \cup was.touched

Stored(d, S) == \A f \in S : dir[d][f] = version

DraftFaithful ==
  /\ \A f \in Sure : Chosen(f, opts.filter) <=> f \in FoundFiles
  /\ FoundFiles \subseteq Known

\* The objects that came are stored, and nothing unknown is there when the
\* walk begins; what it found stays right until the Modelfile is written.
ImportInv ==
  /\ result = "generated" => pc = "idle"
  /\ pc = "resolve" => Present(opts.dir) \subseteq was.files \cup was.touched
  /\ version # None =>
       /\ pc \in {"fetch", "tool", "walk"} => Present(opts.dir) \subseteq Known
       /\ pc = "fetch" => Stored(opts.dir, Sure \ todo)
       /\ pc \in {"walk", "config", "open", "write"} => Stored(opts.dir, Sure)
       /\ pc \in {"config", "open", "write"} \/ result = "generated" => DraftFaithful
       /\ result = "generated" /\ opts.dir = "local" => Stored("local", Sure)

LEMMA InitImport == Init => ImportInv
BY DEF Init, ImportInv

\* Nothing is promised of a command that did not import, or failed.
LEMMA ForgetImport ==
  ASSUME version' = None, result' # "generated", pc' # "resolve"
  PROVE  ImportInv'
BY DEF ImportInv

LEMMA EndImport ==
  ASSUME NEW r \in Results \ {"generated"}, Leave(r) \/ End(r)
  PROVE  ImportInv'
BY ForgetImport DEF Leave, End, Forget

LEMMA GenerateImport ==
  ASSUME TypeInv, NEW o \in Options, Generate(o) \/ RefuseGenerate(o)
  PROVE  ImportInv'
<1>1. CASE Generate(o)
  <2>1. /\ version' = None /\ result' = "none" /\ opts' = o /\ text' = text /\ dir' = Clean(dir)
        /\ was' = [NoPast EXCEPT !.text = text, !.overwrite = o.overwrite,
                                 !.files = IF o.dir = "temp" THEN {} ELSE Present(o.dir)]
    BY <1>1 DEF Generate, Begin
  <2>2. was'.files = IF o.dir = "temp" THEN {} ELSE Present(o.dir)
    BY <2>1, StartValues DEF IsPast
  <2>3. dir'["local"] = dir["local"] /\ dir'["temp"] = Empty /\ o.dir \in {"local", "temp"}
    BY <2>1, CleanType, ImportAssumption DEF TypeInv, TypeOK, DirType
  <2>4. Present(opts.dir)' \subseteq was'.files
    <3>1. CASE o.dir = "temp"
      BY <2>1, <2>3, <3>1 DEF Present, Empty
    <3>2. CASE o.dir = "local"
      BY <2>1, <2>2, <2>3, <3>2 DEF Present
    <3>. QED
      BY <2>3, <3>1, <3>2
  <2>. QED
    BY <2>1, <2>4 DEF ImportInv
<1>2. CASE RefuseGenerate(o)
  BY <1>2, ForgetImport DEF RefuseGenerate, Forget
<1>. QED
  BY <1>1, <1>2

LEMMA ResolveImport ==
  ASSUME TypeInv, ImportInv, NEW url \in Urls, Resolve(url)
  PROVE  ImportInv'
<1>1. PICK v : version' = v /\ todo' = Objects[v] /\ pc' \in {"fetch", "tool"}
  BY DEF Resolve
<1>2. pc = "resolve" /\ result # "generated" /\ UNCHANGED <<dir, text, result, opts, was>>
  BY DEF Resolve, ImportInv
<1>3. Present(opts.dir)' = Present(opts.dir)
  BY <1>2 DEF Present
<1>4. Known' = Objects[v] \cup was.files \cup was.touched /\ Sure' \ todo' = {}
  BY <1>1, <1>2 DEF Known, Sure
<1>. QED
  BY <1>1, <1>2, <1>3, <1>4 DEF ImportInv, Stored

\* An object that is stored, or lost, is one of the version.
LEMMA StoresPresent ==
  ASSUME TypeInv, opts \in Options, NEW f \in Files \ {Own}, NEW c \in Contents, Stores(f, c), text' = text,
         opts' = opts
  PROVE  Present(opts.dir)' \subseteq Present(opts.dir) \cup {f}
<1>1. dir'[opts.dir] = [dir[opts.dir] EXCEPT ![f] = c] /\ dir[opts.dir] \in [Files \ {Own} -> Contents]
  BY StoresType, ImportAssumption DEF TypeInv, TypeOK
<1>. QED
  BY <1>1 DEF Present

LEMMA FetchImport ==
  ASSUME TypeInv, ImportInv, FetchObject \/ LoseObject \/ Fetched
  PROVE  ImportInv'
<1>1. pc = "fetch" /\ opts \in Options /\ version \in Versions /\ version # None /\ todo \subseteq Objects[version]
        /\ result # "generated"
  BY ImportAssumption DEF FetchObject, LoseObject, Fetched, TypeInv, Generating, ImportInv
<1>2. Objects[version] \subseteq Files \ {Own} /\ TypeOK /\ opts.dir \in {"local", "temp"}
  BY <1>1, ImportAssumption DEF TypeInv
<1>3. Present(opts.dir) \subseteq Known /\ Stored(opts.dir, Sure \ todo)
  BY <1>1 DEF ImportInv
<1>4. ASSUME todo # {}
      PROVE  NextObject \in todo /\ NextObject \in Files \ {Own}
  BY <1>1, <1>2, <1>4, NextIsTodo
<1>5. CASE FetchObject
  <2>1. /\ todo' = todo \ {NextObject} /\ Stores(NextObject, version) /\ todo # {}
        /\ UNCHANGED <<text, pc, result, opts, version, draft, was>>
    BY <1>5 DEF FetchObject
  <2>2. version \in Contents
    BY <1>1 DEF Contents
  <2>3. Present(opts.dir)' \subseteq Present(opts.dir) \cup {NextObject}
    BY <1>1, <1>4, <2>1, <2>2, StoresPresent
  <2>4. dir'[opts.dir] = [dir[opts.dir] EXCEPT ![NextObject] = version]
    BY <1>1, <1>2, <1>4, <2>1, <2>2, StoresType
  <2>5. Sure' = Sure /\ Known' = Known /\ NextObject \in Known
    BY <1>1, <1>4, <2>1 DEF Sure, Known
  <2>6. Stored(opts.dir, Sure \ todo)'
    <3>1. dir[opts.dir] \in [Files \ {Own} -> Contents]
      BY <1>2 DEF TypeOK
    <3>2. ASSUME NEW f \in Sure \ todo'
          PROVE  dir'[opts.dir][f] = version
      <4>1. f \in Files \ {Own}
        BY <1>2 DEF Sure
      <4>2. CASE f = NextObject
        BY <2>4, <3>1, <4>1, <4>2
      <4>3. CASE f # NextObject
        BY <1>3, <2>1, <2>4, <3>1, <4>1, <4>3 DEF Stored
      <4>. QED
        BY <4>2, <4>3
    <3>. QED
      BY <2>1, <2>5, <3>2 DEF Stored
  <2>. QED
    BY <1>1, <1>3, <2>1, <2>3, <2>5, <2>6 DEF ImportInv
<1>6. CASE LoseObject
  <2>1. /\ todo' = todo \ {NextObject} /\ todo # {} /\ was' = [was EXCEPT !.lost = @ \cup {NextObject}]
        /\ UNCHANGED <<text, pc, result, opts, version, draft>>
    BY <1>6 DEF LoseObject
  <2>2. PICK c \in {None, "part", dir[opts.dir][NextObject]} : Stores(NextObject, c)
    BY <1>6 DEF LoseObject
  <2>3. dir[opts.dir] \in [Files \ {Own} -> Contents]
    BY <1>2 DEF TypeOK
  <2>4. c \in Contents
    BY <1>4, <2>1, <2>2, <2>3 DEF Contents
  <2>5. Present(opts.dir)' \subseteq Present(opts.dir) \cup {NextObject}
    BY <1>1, <1>4, <2>1, <2>2, <2>4, StoresPresent
  <2>6. dir'[opts.dir] = [dir[opts.dir] EXCEPT ![NextObject] = c]
    BY <1>1, <1>2, <1>4, <2>1, <2>2, <2>4, StoresType
  <2>7. was'.lost = was.lost \cup {NextObject} /\ was'.touched = was.touched /\ was'.files = was.files
    BY <2>1 DEF TypeInv, IsPast
  <2>8. Sure' = Sure \ {NextObject} /\ Known' = Known /\ NextObject \in Known
    BY <1>1, <1>4, <2>1, <2>7 DEF Sure, Known
  <2>9. Stored(opts.dir, Sure \ todo)'
    <3>1. ASSUME NEW f \in Sure' \ todo'
          PROVE  dir'[opts.dir][f] = version
      <4>1. f \in Files \ {Own} /\ f # NextObject /\ f \in Sure \ todo
        BY <1>2, <2>1, <2>8 DEF Sure
      <4>. QED
        BY <1>3, <2>3, <2>6, <4>1 DEF Stored
    <3>. QED
      BY <2>1, <3>1 DEF Stored
  <2>. QED
    BY <1>1, <1>3, <2>1, <2>5, <2>8, <2>9 DEF ImportInv
<1>7. CASE Fetched
  <2>1. todo = {} /\ pc' = "walk" /\ UNCHANGED <<dir, text, result, opts, version, draft, was>>
    BY <1>7 DEF Fetched, commandVars, localVars
  <2>2. Sure' = Sure /\ Known' = Known /\ Present(opts.dir)' = Present(opts.dir)
    BY <2>1 DEF Sure, Known, Present
  <2>. QED
    BY <1>1, <1>3, <2>1, <2>2 DEF ImportInv, Stored
<1>. QED
  BY <1>5, <1>6, <1>7

LEMMA ToolImport ==
  ASSUME TypeInv, ImportInv, RunTool \/ ToolFails
  PROVE  ImportInv'
<1>1. CASE RunTool
  <2>. DEFINE old == dir[opts.dir]
              new == [f \in DOMAIN old |-> IF f \in Objects[version] THEN version ELSE old[f]]
  <2>1. /\ pc = "tool" /\ pc' = "walk" /\ todo' = {} /\ dir' = [dir EXCEPT ![opts.dir] = new]
        /\ UNCHANGED <<text, result, opts, version, draft, was>>
    BY <1>1 DEF RunTool
  <2>2. opts.dir \in {"local", "temp"} /\ version \in Versions /\ version # None /\ result # "generated"
          /\ Objects[version] \subseteq Files \ {Own} /\ Present(opts.dir) \subseteq Known
    BY <2>1, ImportAssumption DEF TypeInv, Generating, ImportInv
  <2>3. old \in [Files \ {Own} -> Contents]
    BY <2>2 DEF TypeInv, TypeOK
  <2>4. dir'[opts.dir] = new
    BY <2>1, <2>2 DEF TypeInv, TypeOK
  <2>5. (\A f \in Objects[version] : new[f] = version) /\ DOMAIN new = DOMAIN old
          /\ \A f \in DOMAIN old \ Objects[version] : new[f] = old[f]
    BY <2>2, <2>3
  <2>. HIDE DEF new
  <2>6. Present(opts.dir)' \subseteq Present(opts.dir) \cup Objects[version]
    BY <2>1, <2>4, <2>5 DEF Present
  <2>7. Sure' = Sure /\ Known' = Known /\ Objects[version] \subseteq Known /\ Sure \subseteq Objects[version]
    BY <2>1 DEF Sure, Known
  <2>. QED
    BY <2>1, <2>2, <2>4, <2>5, <2>6, <2>7 DEF ImportInv, Stored
<1>2. CASE ToolFails
  BY <1>2, EndImport DEF ToolFails, Results
<1>. QED
  BY <1>1, <1>2

\* The files of all lists are those that are there and chosen.
LEMMA WantedFiles ==
  ASSUME Present(opts.dir) \in SUBSET Files
  PROVE  UNION Range(Wanted) = {f \in Present(opts.dir) : Chosen(f, opts.filter)}
<1>1. Processed \subseteq Lists
  BY DEF Processed, Lists
<1>2. \A f : InferFileType(f) \in Lists
  BY <1>1, TypeIsListed
<1>. QED
  BY <1>2 DEF Wanted, Range

LEMMA WalkImport ==
  ASSUME TypeInv, ImportInv, Walk
  PROVE  ImportInv'
<1>1. /\ pc = "walk" /\ pc' = "config" /\ Found.ok /\ draft' = [draft EXCEPT !.lists = Found.lists]
      /\ was' = [was EXCEPT !.wanted = Wanted]
      /\ UNCHANGED <<dir, result, opts, version, todo>>
  BY DEF Walk
<1>2. opts \in Options /\ TypeOK /\ result # "generated" /\ opts.dir \in {"local", "temp"}
  BY <1>1, ImportAssumption DEF TypeInv, Generating, ImportInv
<1>3. draft'.lists = Wanted
  BY <1>1, <1>2, FoundIsWanted DEF TypeInv
<1>4. was'.lost = was.lost /\ was'.touched = was.touched /\ was'.files = was.files
  BY <1>1 DEF TypeInv, IsPast
<1>5. Present(opts.dir) \in SUBSET Files
  BY <1>2, PresentAreFiles
<1>6. FoundFiles' = {f \in Present(opts.dir) : Chosen(f, opts.filter)}
  BY <1>3, <1>5, WantedFiles DEF FoundFiles
<1>7. Sure' = Sure /\ Known' = Known
  BY <1>1, <1>4 DEF Sure, Known
<1>8. ASSUME version # None
      PROVE  Stored(opts.dir, Sure)' /\ DraftFaithful'
  <2>1. version \in Versions /\ Stored(opts.dir, Sure) /\ Present(opts.dir) \subseteq Known
    BY <1>1, <1>2, <1>8 DEF ImportInv, TypeOK
  <2>2. \A f \in Sure : f \in Present(opts.dir)
    <3>1. \A f \in Sure : f \in Files \ {Own} /\ dir[opts.dir][f] # None
      BY <1>8, <2>1, ImportAssumption DEF Sure, Stored
    <3>2. DOMAIN dir[opts.dir] = Files \ {Own}
      BY <1>2 DEF TypeOK
    <3>. QED
      BY <3>1, <3>2 DEF Present
  <2>. QED
    BY <1>1, <1>6, <1>7, <2>1, <2>2 DEF DraftFaithful, Stored
<1>. QED
  BY <1>1, <1>2, <1>8 DEF ImportInv

LEMMA WriteImport ==
  ASSUME TypeInv, ImportInv, ReadConfig \/ Open \/ Write \/ WriteFails
  PROVE  ImportInv'
<1>1. CASE WriteFails
  BY <1>1, EndImport DEF WriteFails, Results
<1>2. ASSUME UNCHANGED <<opts, version>>, draft'.lists = draft.lists,
             was'.lost = was.lost, was'.touched = was.touched, was'.files = was.files
      PROVE  Sure' = Sure /\ (DraftFaithful => DraftFaithful')
  BY <1>2 DEF Sure, Known, FoundFiles, DraftFaithful
<1>3. CASE ReadConfig \/ Open
  <2>1. /\ pc \in {"config", "open"} /\ pc' \in {"open", "write"} /\ UNCHANGED <<dir, result, opts, version, todo>>
        /\ was' = was \/ was' = [was EXCEPT !.replaced = {text}]
    BY <1>3 DEF ReadConfig, Open
  <2>2. was'.lost = was.lost /\ was'.touched = was.touched /\ was'.files = was.files
    BY <2>1 DEF TypeInv, IsPast
  <2>3. draft'.lists = draft.lists
    <3>1. CASE ReadConfig
      <4>. DEFINE v == GenerateByConfig(GenerateByModelConfig(Present(opts.dir)), opts.flags, Base[opts.dir])
      <4>1. draft' = [draft EXCEPT !.values = v]
        BY <3>1 DEF ReadConfig
      <4>. HIDE DEF v
      <4>. QED
        BY <4>1 DEF TypeInv
    <3>2. CASE Open
      BY <3>2 DEF Open
    <3>. QED
      BY <1>3, <3>1, <3>2
  <2>. QED
    BY <1>2, <2>1, <2>2, <2>3 DEF ImportInv, Stored
<1>4. CASE Write
  <2>1. /\ pc = "write" /\ pc' = "idle" /\ dir' = Clean(dir) /\ result' = "generated"
        /\ UNCHANGED <<opts, version, todo, draft, was>>
    BY <1>4 DEF Write, End, Leave, localVars
  <2>2. dir'["local"] = dir["local"]
    BY <2>1, CleanType DEF TypeInv, TypeOK, DirType
  <2>. QED
    BY <1>2, <2>1, <2>2 DEF ImportInv, Stored
<1>. QED
  BY <1>1, <1>3, <1>4

LEMMA OthersImport ==
  ASSUME TypeInv, ImportInv,
         \/ ResolveFails \/ ListingFails \/ WalkFails \/ ReadConfigFails \/ OpenFails \/ Kill \/ Build
  PROVE  ImportInv'
<1>1. CASE \/ ResolveFails \/ ListingFails \/ WalkFails \/ ReadConfigFails \/ OpenFails \/ Kill
           \/ ParseFails \/ ProcessFails
  <2>1. PICK r \in Results \ {"generated"} : Leave(r) \/ End(r)
    BY <1>1 DEF ResolveFails, ListingFails, WalkFails, ReadConfigFails, OpenFails, Kill, ParseFails,
      ProcessFails, Results
  <2>. QED
    BY <2>1, EndImport
<1>2. CASE StartBuild
  BY <1>2, ForgetImport DEF StartBuild, Forget
<1>3. CASE Parse \/ Process
  <2>1. pc \in {"parse", "match"} /\ pc' \in {"match", "idle"} /\ result' \in {result, "built"}
    BY <1>3 DEF Parse, Process
  <2>. QED
    BY <2>1 DEF ImportInv
<1>. QED
  BY <1>1, <1>2, <1>3 DEF Build

\* What the user touches is neither sure nor unknown.
LEMMA TouchImport ==
  ASSUME TypeInv, ImportInv, NEW f, UNCHANGED <<pc, result, opts, version, todo, draft>>,
         was'.lost = was.lost, was'.files = was.files, was'.touched = was.touched \cup {f},
         \A d \in {"local", "temp"} : \A g \in Files \ {Own, f} : dir'[d][g] = dir[d][g],
         \A d \in {"local", "temp"} : Present(d)' \subseteq Present(d) \cup {f}
  PROVE  ImportInv'
<1>1. Sure' = Sure \ {f} /\ Known' = Known \cup {f} /\ FoundFiles' = FoundFiles
  BY DEF Sure, Known, FoundFiles
<1>3. pc \in Generating => Present(opts.dir)' \subseteq Present(opts.dir) \cup {f}
  BY ImportAssumption DEF TypeInv
<1>4. ASSUME version # None
      PROVE  /\ Sure \subseteq Files \ {Own}
             /\ pc \in Generating => opts.dir \in {"local", "temp"}
  BY <1>4, ImportAssumption DEF TypeInv, TypeOK, Sure
<1>5. ASSUME version # None, NEW d \in {"local", "temp"}, NEW S, S \subseteq Sure, Stored(d, S)
      PROVE  \A g \in S \ {f} : dir'[d][g] = version'
  BY <1>4, <1>5 DEF Stored
<1>6. ASSUME version # None, DraftFaithful
      PROVE  DraftFaithful'
  BY <1>1, <1>6 DEF DraftFaithful
<1>7. ASSUME pc = "resolve"
      PROVE  Present(opts.dir)' \subseteq was'.files \cup was'.touched
  BY <1>3, <1>7 DEF ImportInv, Generating
<1>8. ASSUME version # None, pc \in {"fetch", "tool", "walk"}
      PROVE  Present(opts.dir)' \subseteq Known'
  BY <1>1, <1>3, <1>8 DEF ImportInv, Generating
<1>9. ASSUME version # None, pc = "fetch"
      PROVE  Stored(opts.dir, Sure \ todo)'
  BY <1>1, <1>4, <1>5, <1>9 DEF ImportInv, Generating, Stored
<1>10. ASSUME version # None, pc \in {"walk", "config", "open", "write"}
       PROVE  Stored(opts.dir, Sure)'
  BY <1>1, <1>4, <1>5, <1>10 DEF ImportInv, Generating, Stored
<1>11. ASSUME version # None, result = "generated" /\ opts.dir = "local"
       PROVE  Stored("local", Sure)'
  BY <1>1, <1>5, <1>11 DEF ImportInv, Stored
<1>. QED
  BY <1>6, <1>7, <1>8, <1>9, <1>10, <1>11 DEF ImportInv

LEMMA EditImport ==
  ASSUME TypeInv, ImportInv, EditModelfile \/ EditFile
  PROVE  ImportInv'
<1>1. UNCHANGED <<pc, result, opts, version, todo, draft>>
  BY DEF EditModelfile, EditFile
<1>2. ASSUME NEW f, was' = [was EXCEPT !.touched = @ \cup {f}]
      PROVE  was'.lost = was.lost /\ was'.files = was.files /\ was'.touched = was.touched \cup {f}
  BY <1>2 DEF TypeInv, IsPast
<1>3. CASE EditModelfile
  <2>1. was' = [was EXCEPT !.touched = @ \cup {Own}] /\ dir' = dir
    BY <1>3 DEF EditModelfile
  <2>2. \A d \in {"local", "temp"} : Present(d)' \subseteq Present(d) \cup {Own}
    BY <2>1 DEF Present
  <2>. QED
    BY <1>1, <1>2, <2>1, <2>2, TouchImport
<1>4. CASE EditFile
  <2>1. PICK f \in Added : /\ dir' = [dir EXCEPT !["local"][f] = IF @ = None THEN "user" ELSE None]
                           /\ was' = [was EXCEPT !.touched = @ \cup {f}]
    BY <1>4 DEF EditFile
  <2>2. text' = text /\ f \in Files \ {Own} /\ dir \in DirType
    BY <1>4, ImportAssumption DEF EditFile, TypeInv, TypeOK, DirType
  <2>3. \A d \in {"local", "temp"} : /\ DOMAIN dir'[d] = DOMAIN dir[d]
                                     /\ \A g \in Files \ {Own, f} : dir'[d][g] = dir[d][g]
    BY <2>1, <2>2 DEF DirType
  <2>4. \A d \in {"local", "temp"} : Present(d)' \subseteq Present(d) \cup {f}
    BY <2>2, <2>3 DEF Present, DirType
  <2>. QED
    BY <1>1, <1>2, <2>1, <2>3, <2>4, TouchImport
<1>. QED
  BY <1>3, <1>4

LEMMA NextImport ==
  ASSUME TypeInv, ImportInv, [Next]_vars
  PROVE  ImportInv'
<1>1. CASE Next
  BY <1>1, GenerateImport, ResolveImport, FetchImport, ToolImport, WalkImport, WriteImport, OthersImport,
    EditImport DEF Next, Download, Generation
<1>2. CASE UNCHANGED vars
  <2>1. UNCHANGED <<dir, text, pc, opts, version, todo, draft, result, was>>
    BY <1>2 DEF vars, commandVars, localVars
  <2>2. Present(opts.dir)' = Present(opts.dir)
    BY <2>1 DEF Present
  <2>. QED
    BY <2>1, <2>2 DEF ImportInv, Sure, Known, FoundFiles, Stored, DraftFaithful
<1>. QED
  BY <1>1, <1>2

LEMMA ImportFollows == ImportInv => ImportFaithful
BY DEF ImportInv, ImportFaithful, DraftFaithful, Stored, Sure, Known, FoundFiles

\* An import that succeeds lists what the flags choose of the version, and has
\* stored it, but for objects that failed and files that the user touched.
THEOREM ImportIsFaithful == Spec => []ImportFaithful
<1>1. Init => TypeInv /\ ImportInv
  BY InitTypes, InitImport
<1>2. TypeInv /\ ImportInv /\ [Next]_vars => TypeInv' /\ ImportInv'
  BY NextTypes, NextImport
<1>. QED
  BY <1>1, <1>2, ImportFollows, PTL DEF Spec

-----------------------------------------------------------------------------
(***************************************************************************)
(* The parser undoes what generate writes.                                 *)
(***************************************************************************)

ScanStates(A) ==
  [args : Seq(Seq(A)), current : Seq(A), inQuotes : BOOLEAN, hadQuotes : BOOLEAN, escape : BOOLEAN]

LEMMA ScanType ==
  ASSUME NEW A, NEW s \in ScanStates(A), NEW c \in A
  PROVE  Scan(s, c) \in ScanStates(A) /\ EndArg(s) \in ScanStates(A)
<1>1. s.current \in Seq(A) /\ s.args \in Seq(Seq(A)) /\ <<>> \in Seq(A)
  BY DEF ScanStates
<1>2. Append(s.current, c) \in Seq(A) /\ Append(s.args, s.current) \in Seq(Seq(A))
  BY <1>1
<1>3. EndArg(s) \in ScanStates(A)
  BY <1>1, <1>2 DEF EndArg, ScanStates
<1>. QED
  BY <1>2, <1>3 DEF Scan, ScanStates, Slash, Quote, Blank

\* The scanners f along a text.
IsScan(t, f) == f[0] = Scanner /\ \A n \in 1..Len(t) : f[n] = Scan(f[n - 1], t[n])

\* The recursive function in Scanned exists.
LEMMA ScannedIs ==
  ASSUME NEW A, NEW t \in Seq(A)
  PROVE  \E f : IsScan(t, f) /\ Scanned(t) = f[Len(t)] /\ f[Len(t)] \in ScanStates(A)
<1>. DEFINE N == Len(t)
            S == ScanStates(A)
            step == [x \in S \X (1..N) |-> Scan(x[1], t[x[2]])]
            F(w) == [n \in 0..N |-> IF n = 0 THEN Scanner ELSE Scan(w[n - 1], t[n])]
<1>1. N \in Nat /\ \A n \in 1..N : t[n] \in A
  OBVIOUS
<1>2. Scanner \in S
  BY DEF Scanner, ScanStates
<1>3. \A s \in S, n \in 1..N : Scan(s, t[n]) \in S
  BY <1>1, ScanType
<1>. HIDE DEF N, S
<1>4. step \in [S \X (1..N) -> S]
  BY <1>3
<1>. HIDE DEF step
<1>5. PICK v \in [0..N -> S] : Recurs(v, Scanner, step, N)
  BY <1>1, <1>2, <1>4, Recursion
<1>6. ASSUME NEW n \in 1..N
      PROVE  v[n] = Scan(v[n - 1], t[n])
  <2>1. n - 1 \in 0..N
    BY <1>1
  <2>2. step[<<v[n - 1], n>>] = Scan(v[n - 1], t[n])
    BY <2>1 DEF step
  <2>. QED
    BY <1>5, <2>2 DEF Recurs
<1>7. v = F(v)
  <2>1. \A n \in 0..N : v[n] = F(v)[n]
    BY <1>1, <1>5, <1>6 DEF Recurs
  <2>. QED
    BY <2>1
<1>. DEFINE w == CHOOSE x : x = F(x)
<1>8. w = F(w)
  BY <1>7
<1>9. Scanned(t) = w[N]
  BY DEF Scanned, N
<1>. HIDE DEF w
<1>10. w[0] = Scanner /\ \A n \in 1..N : w[n] = Scan(w[n - 1], t[n])
  BY <1>1, <1>8
<1>11. \A n \in 0..N : w[n] \in S
  <2>. DEFINE G == {n \in 0..N : w[n] \in S}
  <2>1. 0 \in G /\ \A n \in 1..N : n - 1 \in G => n \in G
    BY <1>1, <1>2, <1>3, <1>10
  <2>. HIDE DEF G
  <2>2. \A n \in 0..N : n \in G
    BY <1>1, <2>1, UpTo
  <2>. QED
    BY <2>2 DEF G
<1>12. w[N] \in S
  BY <1>1, <1>11
<1>. QED
  BY <1>9, <1>10, <1>12 DEF IsScan, N, S

\* The scanner after one more character.
LEMMA ScannedAppend ==
  ASSUME NEW A, NEW t \in Seq(A), NEW c \in A
  PROVE  Scanned(Append(t, c)) = Scan(Scanned(t), c) /\ Scanned(<<>>) = Scanner
           /\ Scanned(t) \in ScanStates(A)
<1>. DEFINE u == Append(t, c)
            N == Len(t)
<1>1. N \in Nat /\ u \in Seq(A) /\ Len(u) = N + 1 /\ u[N + 1] = c /\ \A n \in 1..N : u[n] = t[n]
  OBVIOUS
<1>. HIDE DEF u
<1>2. PICK f : IsScan(t, f) /\ Scanned(t) = f[N] /\ f[N] \in ScanStates(A)
  BY ScannedIs
<1>3. PICK g : IsScan(u, g) /\ Scanned(u) = g[N + 1]
  BY <1>1, ScannedIs
<1>4. \A n \in 0..N : f[n] = g[n]
  <2>. DEFINE G == {n \in 0..N : f[n] = g[n]}
  <2>1. 0 \in G
    BY <1>1, <1>2, <1>3 DEF IsScan
  <2>2. ASSUME NEW n \in 1..N, n - 1 \in G
        PROVE  n \in G
    BY <1>1, <1>2, <1>3, <2>2 DEF IsScan
  <2>. HIDE DEF G
  <2>3. \A n \in 0..N : n \in G
    BY <1>1, <2>1, <2>2, UpTo
  <2>. QED
    BY <2>3 DEF G
<1>5. Scanned(u) = Scan(Scanned(t), c)
  BY <1>1, <1>2, <1>3, <1>4 DEF IsScan
<1>6. Scanned(<<>>) = Scanner
  <2>1. <<>> \in Seq(A) /\ Len(<<>>) = 0
    OBVIOUS
  <2>2. PICK h : IsScan(<<>>, h) /\ Scanned(<<>>) = h[0]
    BY <2>1, ScannedIs
  <2>. QED
    BY <2>2 DEF IsScan
<1>. QED
  BY <1>2, <1>5, <1>6 DEF u

\* A text without spaces at its ends is not trimmed, and one without a space
\* at its start keeps it.
LEMMA TrimKeeps ==
  ASSUME NEW A, NEW t \in Seq(A), t # <<>>, t[1] \notin Spaces
  PROVE  /\ \E n \in 1..Len(t) : TrimSpace(t) = SubSeq(t, 1, n)
         /\ t[Len(t)] \notin Spaces => TrimSpace(t) = t
<1>. DEFINE solid == {i \in DOMAIN t : t[i] \notin Spaces}
            a == CHOOSE i \in solid : \A k \in solid : i <= k
            z == CHOOSE i \in solid : \A k \in solid : k <= i
            N == Len(t)
<1>1. N \in Nat /\ N >= 1 /\ DOMAIN t = 1..N
  BY EmptySeq
<1>2. 1 \in solid /\ solid \subseteq 1..N
  BY <1>1
<1>3. TrimSpace(t) = SubSeq(t, a, z)
  BY <1>2 DEF TrimSpace
<1>. HIDE DEF solid
<1>4. a = 1
  <2>1. \A k \in solid : 1 <= k
    BY <1>2
  <2>2. a \in solid /\ \A k \in solid : a <= k
    BY <1>2, <2>1
  <2>. HIDE DEF a
  <2>. QED
    BY <1>2, <2>2
<1>5. z \in solid /\ \A k \in solid : k <= z
  <2>1. \E i \in solid : \A k \in solid : k <= i
    BY <1>1, <1>2, LargestNumber
  <2>. QED
    BY <2>1
<1>. HIDE DEF a, z
<1>6. z \in 1..N
  BY <1>2, <1>5
<1>7. ASSUME t[N] \notin Spaces
      PROVE  TrimSpace(t) = t
  <2>1. N \in solid
    BY <1>1, <1>7 DEF solid
  <2>2. z = N
    <3>1. N <= z /\ z \in 1..N
      BY <1>5, <1>6, <2>1
    <3>. HIDE DEF N
    <3>. QED
      BY <1>1, <3>1
  <2>. QED
    BY <1>1, <1>3, <1>4, <2>2, SubSeqFull
<1>. QED
  BY <1>3, <1>4, <1>6, <1>7

LEMMA QuoteIsSolid == Quote \notin Spaces
BY DEF Quote, Spaces, Blank, NoBreak

LEMMA TrimEmpty == TrimSpace(<<>>) = <<>>
BY DEF TrimSpace

\* A text and its first elements.
LEMMA FirstElements ==
  ASSUME NEW A, NEW t \in Seq(A), NEW n \in 1..Len(t)
  PROVE  /\ SubSeq(t, 1, n - 1) \in Seq(A) /\ SubSeq(t, 1, n) \in Seq(A)
         /\ SubSeq(t, 1, n) = Append(SubSeq(t, 1, n - 1), t[n])
         /\ Len(SubSeq(t, 1, n)) = n
<1>. DEFINE u == SubSeq(t, 1, n - 1)
            v == SubSeq(t, 1, n)
            w == Append(u, t[n])
<1>1. /\ u \in Seq(A) /\ Len(u) = n - 1 /\ \A i \in 1..(n - 1) : u[i] = t[i]
      /\ v \in Seq(A) /\ Len(v) = n /\ \A i \in 1..n : v[i] = t[i]
  OBVIOUS
<1>. HIDE DEF u, v
<1>2. w \in Seq(A) /\ Len(w) = n /\ w[n] = t[n] /\ \A i \in 1..(n - 1) : w[i] = u[i]
  BY <1>1
<1>. HIDE DEF w
<1>3. \A i \in 1..n : v[i] = w[i]
  BY <1>1, <1>2, SMTT(30)
<1>4. v = w
  BY <1>1, <1>2, <1>3, SeqEqual
<1>. QED
  BY <1>1, <1>4 DEF u, v, w

ScannerFields == {"args", "current", "inQuotes", "hadQuotes", "escape"}

\* The scanner is within the first argument, in quotes or not.
Within(s, current, q) ==
  DOMAIN s = ScannerFields /\ s.args = <<>> /\ s.current = current /\ s.inQuotes = q

\* It is and not after a backslash.
At(s, current, q) == Within(s, current, q) /\ ~s.escape

LEMMA ScannerIsAt == At(Scanner, <<>>, FALSE)
BY DEF At, Within, Scanner, ScannerFields

\* A character with no meaning of its own is added to the argument.
LEMMA ScanAt ==
  ASSUME NEW s, NEW current, NEW q \in BOOLEAN, At(s, current, q), NEW c, c \notin {Quote, Slash}, c = Blank => q
  PROVE  At(Scan(s, c), Append(current, c), q)
BY DEF At, Within, Scan, Quote, Slash, Blank, ScannerFields

\* A quote opens or closes.
LEMMA ScanQuote ==
  ASSUME NEW s, NEW current, NEW q \in BOOLEAN, At(s, current, q)
  PROVE  At(Scan(s, Quote), current, ~q)
BY DEF At, Within, Scan, Quote, Slash, Blank, ScannerFields

\* A backslash has the next character taken as it is.
LEMMA ScanEscape ==
  ASSUME NEW s, NEW current, At(s, current, TRUE), NEW c
  PROVE  /\ Scan(s, Slash).inQuotes
         /\ At(Scan(Scan(s, Slash), c), Append(current, c), TRUE)
<1>. DEFINE x == Scan(s, Slash)
<1>1. Within(x, current, TRUE) /\ x.escape
  BY DEF At, Within, Scan, Quote, Slash, Blank, ScannerFields
<1>. HIDE DEF x
<1>2. At(Scan(x, c), Append(current, c), TRUE)
  BY <1>1 DEF At, Within, Scan, ScannerFields
<1>. QED
  BY <1>1, <1>2 DEF x, Within

\* The end of the line ends it.
LEMMA EndAt ==
  ASSUME NEW s, NEW current, At(s, current, FALSE), current # <<>>
  PROVE  EndArg(s).args = <<current>> /\ ~s.inQuotes
<1>1. EndArg(s) = [s EXCEPT !.args = Append(s.args, current), !.current = <<>>, !.hadQuotes = FALSE]
  BY DEF EndArg, At, Within
<1>. DEFINE a == Append(<<>>, current)
<1>2. a = <<current>>
  OBVIOUS
<1>. HIDE DEF a
<1>3. EndArg(s).args = a
  BY <1>1 DEF a, At, Within, ScannerFields
<1>. QED
  BY <1>2, <1>3 DEF At, Within

\* A text without blanks, quotes and backslashes is scanned as it is.
LEMMA PlainIsScanned ==
  ASSUME NEW A, NEW t \in Seq(A), Range(t) \cap {Blank, Quote, Slash} = {}, t # <<>>
  PROVE  At(Scanned(t), t, FALSE)
<1>. DEFINE N == Len(t)
            Good(n) == At(Scanned(SubSeq(t, 1, n)), SubSeq(t, 1, n), FALSE)
            G == {n \in 0..N : Good(n)}
<1>1. N \in Nat /\ N >= 1 /\ DOMAIN t = 1..N
  BY EmptySeq
<1>2. \A n \in 1..N : t[n] \in A /\ t[n] \notin {Blank, Quote, Slash}
  <2>1. \A n \in 1..N : t[n] \in A /\ t[n] \in Range(t)
    BY <1>1 DEF Range
  <2>. QED
    BY <2>1
<1>3. Good(0)
  <2>1. SubSeq(t, 1, 0) = <<>>
    BY SubSeqEmpty
  <2>2. t[1] \in A
    BY <1>1, <1>2
  <2>3. At(Scanned(<<>>), <<>>, FALSE)
    BY <2>2, ScannedAppend, ScannerIsAt
  <2>. QED
    BY <2>1, <2>3
<1>4. ASSUME NEW n \in 1..N, Good(n - 1)
      PROVE  Good(n)
  <2>. DEFINE u == SubSeq(t, 1, n - 1)
              v == SubSeq(t, 1, n)
  <2>1. u \in Seq(A) /\ v = Append(u, t[n])
    <3>1. n \in 1..Len(t)
      OBVIOUS
    <3>. HIDE DEF N
    <3>. QED
      BY <3>1, FirstElements
  <2>2. At(Scanned(u), u, FALSE)
    BY <1>4
  <2>. HIDE DEF u, v
  <2>3. Scanned(v) = Scan(Scanned(u), t[n])
    BY <1>2, <2>1, ScannedAppend
  <2>4. At(Scanned(v), v, FALSE)
    BY <1>2, <2>1, <2>2, <2>3, ScanAt
  <2>. QED
    BY <2>4 DEF v
<1>. HIDE DEF N, Good
<1>5. 0 \in G /\ \A n \in 1..N : n - 1 \in G => n \in G
  BY <1>1, <1>3, <1>4
<1>. HIDE DEF G
<1>6. N \in G
  <2>1. \A n \in 0..N : n \in G
    BY <1>1, <1>5, UpTo
  <2>. QED
    BY <1>1, <2>1
<1>. QED
  BY <1>6, SubSeqFull DEF G, Good, N

\* It is read as it is when no space is at its ends.
LEMMA PlainIsRead ==
  ASSUME NEW A, NEW t \in Seq(A), Range(t) \cap {Blank, Quote, Slash} = {}, t # <<>>, ~Padded(t)
  PROVE  ParseArgs(t) = <<t>>
<1>1. TrimSpace(t) = t
  BY TrimKeeps DEF Padded
<1>2. At(Scanned(t), t, FALSE)
  BY PlainIsScanned
<1>. QED
  BY <1>1, <1>2, EndAt DEF ParseArgs

\* Every beginning of a text leaves a quote open.
Unclosed(u) == \A n \in 1..Len(u) : Scanned(SubSeq(u, 1, n)).inQuotes

\* A text without a closing quote, with one more character.
LEMMA UnclosedAppend ==
  ASSUME NEW A, NEW u \in Seq(A), NEW c \in A, Unclosed(u), Scanned(Append(u, c)).inQuotes
  PROVE  Unclosed(Append(u, c))
<1>. DEFINE v == Append(u, c)
            N == Len(u)
<1>1. v \in Seq(A) /\ Len(v) = N + 1 /\ N \in Nat
  OBVIOUS
<1>2. ASSUME NEW n \in 1..N
      PROVE  SubSeq(v, 1, n) = SubSeq(u, 1, n)
  OBVIOUS
<1>3. SubSeq(v, 1, N + 1) = v
  BY <1>1, SubSeqFull
<1>. HIDE DEF v
<1>4. ASSUME NEW n \in 1..(N + 1)
      PROVE  Scanned(SubSeq(v, 1, n)).inQuotes
  <2>1. CASE n = N + 1
    BY <1>3, <2>1 DEF v
  <2>2. CASE n # N + 1
    <3>1. n \in 1..N
      BY <1>1, <2>2
    <3>. QED
      BY <1>2, <3>1 DEF Unclosed
  <2>. QED
    BY <2>1, <2>2
<1>5. Unclosed(v)
  BY <1>1, <1>4 DEF Unclosed
<1>. QED
  BY <1>5 DEF v

\* The escaped beginnings e of a text.
IsEscaped(t, e) == e[0] = <<>> /\ \A n \in 1..Len(t) : e[n] = e[n - 1] \o Escaped(t[n])

\* The recursive function in QuoteIfNeeded exists.
LEMMA EscapedIs ==
  ASSUME NEW A, NEW t \in Seq(A), Quote \in A, Slash \in A
  PROVE  \E e \in [0..Len(t) -> Seq(A)] :
           /\ IsEscaped(t, e)
           /\ Blank \in Range(t) => QuoteIfNeeded(t) = <<Quote>> \o e[Len(t)] \o <<Quote>>
<1>. DEFINE N == Len(t)
            S == Seq(A)
            step == [x \in S \X (1..N) |-> x[1] \o Escaped(t[x[2]])]
            F(w) == [n \in 0..N |-> IF n = 0 THEN <<>> ELSE w[n - 1] \o Escaped(t[n])]
<1>1. N \in Nat /\ \A n \in 1..N : t[n] \in A
  OBVIOUS
<1>2. <<>> \in S
  OBVIOUS
<1>3. \A s \in S, n \in 1..N : s \o Escaped(t[n]) \in S
  <2>1. \A n \in 1..N : Escaped(t[n]) \in Seq(A)
    BY <1>1 DEF Escaped
  <2>. QED
    BY <2>1
<1>. HIDE DEF N, S
<1>4. step \in [S \X (1..N) -> S]
  BY <1>3
<1>. HIDE DEF step
<1>5. PICK v \in [0..N -> S] : Recurs(v, <<>>, step, N)
  BY <1>1, <1>2, <1>4, Recursion
<1>6. ASSUME NEW n \in 1..N
      PROVE  v[n] = v[n - 1] \o Escaped(t[n])
  <2>1. n - 1 \in 0..N
    BY <1>1
  <2>2. step[<<v[n - 1], n>>] = v[n - 1] \o Escaped(t[n])
    BY <2>1 DEF step
  <2>. QED
    BY <1>5, <2>2 DEF Recurs
<1>7. v = F(v)
  <2>1. \A n \in 0..N : v[n] = F(v)[n]
    BY <1>1, <1>5, <1>6 DEF Recurs
  <2>. QED
    BY <2>1
<1>. DEFINE w == CHOOSE x : x = F(x)
<1>8. w = F(w)
  BY <1>7
<1>9. Blank \in Range(t) => QuoteIfNeeded(t) = <<Quote>> \o w[N] \o <<Quote>>
  BY DEF QuoteIfNeeded, N
<1>. HIDE DEF w
<1>10. w[0] = <<>> /\ \A n \in 1..N : w[n] = w[n - 1] \o Escaped(t[n])
  BY <1>1, <1>8
<1>11. \A n \in 0..N : w[n] \in S
  <2>. DEFINE G == {n \in 0..N : w[n] \in S}
  <2>1. 0 \in G
    BY <1>1, <1>2, <1>10
  <2>2. ASSUME NEW n \in 1..N, n - 1 \in G
        PROVE  n \in G
    <3>1. w[n - 1] \in S /\ n \in 0..N
      BY <1>1, <2>2
    <3>2. w[n - 1] \o Escaped(t[n]) \in S
      BY <1>3, <3>1
    <3>3. w[n] \in S
      BY <1>10, <3>2
    <3>. QED
      BY <3>1, <3>3
  <2>. HIDE DEF G
  <2>3. \A n \in 0..N : n \in G
    BY <1>1, <2>1, <2>2, UpTo
  <2>. QED
    BY <2>3 DEF G
<1>12. w \in [0..N -> S]
  BY <1>8, <1>11
<1>. QED
  BY <1>9, <1>10, <1>12 DEF IsEscaped, N, S

\* What is written between the quotes is scanned to the text, and no beginning
\* of it closes them.
LEMMA QuotedIsScanned ==
  ASSUME NEW A, NEW t \in Seq(A), Quote \in A, Slash \in A, Slash \notin Range(t), Blank \in Range(t)
  PROVE  \E u \in Seq(A) : /\ QuoteIfNeeded(t) = Append(u, Quote)
                           /\ u # <<>> /\ u[1] = Quote
                           /\ Unclosed(u) /\ At(Scanned(u), t, TRUE)
<1>. DEFINE N == Len(t)
<1>1. PICK e \in [0..N -> Seq(A)] :
        IsEscaped(t, e) /\ QuoteIfNeeded(t) = <<Quote>> \o e[N] \o <<Quote>>
  BY EscapedIs
<1>. DEFINE u(n) == <<Quote>> \o e[n]
            Good(n) == /\ u(n) \in Seq(A) /\ Unclosed(u(n))
                       /\ At(Scanned(u(n)), SubSeq(t, 1, n), TRUE)
            G == {n \in 0..N : Good(n)}
<1>2. N \in Nat /\ DOMAIN t = 1..N
  OBVIOUS
<1>3. \A n \in 0..N : u(n) \in Seq(A) /\ u(n) # <<>> /\ u(n)[1] = Quote
  <2>1. \A x \in Seq(A) : <<Quote>> \o x \in Seq(A) /\ <<Quote>> \o x # <<>> /\ (<<Quote>> \o x)[1] = Quote
    OBVIOUS
  <2>. HIDE DEF N
  <2>. QED
    BY <1>1, <2>1
<1>4. Good(0)
  <2>1. e[0] = <<>> /\ SubSeq(t, 1, 0) = <<>>
    BY <1>1, SubSeqEmpty DEF IsEscaped
  <2>2. <<>> \in Seq(A) /\ Append(<<>>, Quote) = <<Quote>> /\ <<Quote>> \o <<>> = <<Quote>>
    OBVIOUS
  <2>3. u(0) = Append(<<>>, Quote)
    BY <2>1, <2>2
  <2>4. At(Scanned(Append(<<>>, Quote)), <<>>, TRUE)
    <3>1. Scanned(Append(<<>>, Quote)) = Scan(Scanner, Quote)
      BY <2>2, ScannedAppend
    <3>. QED
      BY <3>1, ScannerIsAt, ScanQuote
  <2>5. Unclosed(Append(<<>>, Quote))
    <3>1. Unclosed(<<>>)
      BY DEF Unclosed
    <3>2. Scanned(Append(<<>>, Quote)).inQuotes
      BY <2>4 DEF At, Within
    <3>. QED
      BY <2>2, <3>1, <3>2, UnclosedAppend
  <2>6. Append(<<>>, Quote) \in Seq(A)
    BY <2>2
  <2>7. u(0) \in Seq(A) /\ Unclosed(u(0)) /\ At(Scanned(u(0)), SubSeq(t, 1, 0), TRUE)
    BY <2>1, <2>3, <2>4, <2>5, <2>6
  <2>. QED
    BY <2>7
<1>5. ASSUME NEW n \in 1..N, Good(n - 1)
      PROVE  Good(n)
  <2>. DEFINE p == SubSeq(t, 1, n - 1)
              q == SubSeq(t, 1, n)
              v == u(n - 1)
              w == u(n)
              c == t[n]
  <2>1. p \in Seq(A) /\ q = Append(p, c) /\ c \in A /\ c # Slash
    <3>1. n \in 1..Len(t)
      OBVIOUS
    <3>. HIDE DEF N
    <3>2. c \in A /\ c \in Range(t)
      BY <3>1 DEF Range
    <3>. QED
      BY <3>1, <3>2, FirstElements
  <2>2. v \in Seq(A) /\ Unclosed(v) /\ At(Scanned(v), p, TRUE)
    BY <1>5
  <2>3. w = v \o Escaped(c)
    <3>1. e[n] = e[n - 1] \o Escaped(c) /\ e[n - 1] \in Seq(A) /\ Escaped(c) \in Seq(A)
      <4>1. Escaped(c) \in Seq(A)
        BY <2>1 DEF Escaped
      <4>2. n - 1 \in 0..N
        BY <1>2
      <4>. QED
        BY <1>1, <4>1, <4>2 DEF IsEscaped
    <3>2. \A a, b \in Seq(A) : <<Quote>> \o (a \o b) = (<<Quote>> \o a) \o b
      <4>1. <<Quote>> \in Seq(A)
        OBVIOUS
      <4>. QED
        BY <4>1, ConcatAssociative, SMTT(30)
    <3>3. v = <<Quote>> \o e[n - 1] /\ w = <<Quote>> \o (e[n - 1] \o Escaped(c))
      BY <3>1
    <3>4. <<Quote>> \o (e[n - 1] \o Escaped(c)) = (<<Quote>> \o e[n - 1]) \o Escaped(c)
      BY <3>1, <3>2
    <3>. HIDE DEF v, w
    <3>. QED
      BY <3>3, <3>4
  <2>. HIDE DEF p, q, v, w, c
  <2>4. w \in Seq(A) /\ Unclosed(w) /\ At(Scanned(w), q, TRUE)
    <3>1. CASE c = Quote
      <4>. DEFINE x == Append(v, Slash)
      <4>1. x \in Seq(A) /\ Append(x, Quote) \in Seq(A)
        BY <2>2
      <4>2. w = Append(x, Quote)
        <5>1. v \o <<Slash, Quote>> = Append(Append(v, Slash), Quote)
          BY <2>2
        <5>. QED
          BY <2>3, <3>1, <5>1 DEF Escaped
      <4>3. Scanned(x) = Scan(Scanned(v), Slash)
        BY <2>2, ScannedAppend
      <4>4. Unclosed(x)
        BY <2>2, <4>3, ScanEscape, UnclosedAppend
      <4>. HIDE DEF x
      <4>5. At(Scanned(w), q, TRUE)
        <5>1. Scanned(w) = Scan(Scan(Scanned(v), Slash), Quote)
          BY <4>1, <4>2, <4>3, ScannedAppend
        <5>. QED
          BY <2>1, <2>2, <3>1, <5>1, ScanEscape
      <4>6. Scanned(w).inQuotes
        BY <4>5 DEF At, Within
      <4>. QED
        BY <4>1, <4>2, <4>4, <4>5, <4>6, UnclosedAppend
    <3>2. CASE c # Quote
      <4>1. w = Append(v, c)
        <5>1. v \o <<c>> = Append(v, c)
          BY <2>2
        <5>. QED
          BY <2>3, <3>2, <5>1 DEF Escaped
      <4>2. At(Scanned(w), q, TRUE)
        <5>1. Scanned(w) = Scan(Scanned(v), c)
          BY <2>1, <2>2, <4>1, ScannedAppend
        <5>. QED
          BY <2>1, <2>2, <3>2, <5>1, ScanAt
      <4>3. Scanned(w).inQuotes
        BY <4>2 DEF At, Within
      <4>4. w \in Seq(A)
        BY <2>1, <2>2, <4>1
      <4>. QED
        BY <2>1, <2>2, <4>1, <4>2, <4>3, <4>4, UnclosedAppend
    <3>. QED
      BY <3>1, <3>2
  <2>. QED
    BY <2>4 DEF w, q
<1>. HIDE DEF N, Good
<1>6. 0 \in G /\ \A n \in 1..N : n - 1 \in G => n \in G
  BY <1>2, <1>4, <1>5
<1>. HIDE DEF G
<1>7. N \in G
  <2>1. \A n \in 0..N : n \in G
    BY <1>2, <1>6, UpTo
  <2>. QED
    BY <1>2, <2>1
<1>8. u(N) \in Seq(A) /\ Unclosed(u(N)) /\ At(Scanned(u(N)), t, TRUE)
  <2>1. Good(N)
    BY <1>7 DEF G
  <2>2. SubSeq(t, 1, N) = t
    BY SubSeqFull DEF N
  <2>. HIDE DEF u
  <2>. QED
    BY <2>1, <2>2 DEF Good
<1>9. u(N) # <<>> /\ u(N)[1] = Quote
  BY <1>2, <1>3
<1>10. QuoteIfNeeded(t) = Append(u(N), Quote)
  <2>. HIDE DEF u
  <2>1. u(N) \o <<Quote>> = Append(u(N), Quote)
    BY <1>8
  <2>. QED
    BY <1>1, <2>1 DEF u
<1>. HIDE DEF u
<1>. QED
  BY <1>8, <1>9, <1>10

\* A path that is not misread is read as it was before it was quoted.
THEOREM QuotedIsRead ==
  ASSUME NEW t, IsText(t), t # <<>>, ~Misread(t)
  PROVE  ParseArgs(QuoteIfNeeded(t)) = <<t>>
<1>. DEFINE A == Range(t) \cup {Quote, Slash}
<1>1. t \in Seq(A) /\ Quote \in A /\ Slash \in A
  <2>1. t \in Seq(Range(t))
    BY DEF IsText
  <2>. QED
    BY <2>1, SeqMonotonic
<1>2. Slash \notin Range(t) /\ (Quote \in Range(t) => Blank \in Range(t))
  BY DEF Misread
<1>. HIDE DEF A
<1>3. CASE Blank \notin Range(t)
  <2>1. QuoteIfNeeded(t) = t
    BY <1>3 DEF QuoteIfNeeded
  <2>2. ~Padded(t)
    BY <1>3 DEF Misread
  <2>. QED
    BY <1>1, <1>2, <1>3, <2>1, <2>2, PlainIsRead
<1>4. CASE Blank \in Range(t)
  <2>1. PICK u \in Seq(A) : /\ QuoteIfNeeded(t) = Append(u, Quote)
                            /\ u # <<>> /\ u[1] = Quote /\ At(Scanned(u), t, TRUE)
    BY <1>1, <1>2, <1>4, QuotedIsScanned
  <2>. DEFINE x == Append(u, Quote)
  <2>2. x \in Seq(A) /\ x # <<>> /\ x[1] = Quote /\ x[Len(x)] = Quote
    BY <1>1, <2>1
  <2>3. At(Scanned(x), t, FALSE)
    <3>1. Scanned(x) = Scan(Scanned(u), Quote)
      BY <1>1, <2>1, ScannedAppend
    <3>. QED
      BY <2>1, <3>1, ScanQuote
  <2>. HIDE DEF x
  <2>4. TrimSpace(x) = x
    BY <2>2, TrimKeeps, QuoteIsSolid
  <2>5. ParseArgs(x) = <<t>>
    BY <2>3, <2>4, EndAt DEF ParseArgs
  <2>. QED
    BY <2>1, <2>5 DEF x
<1>. QED
  BY <1>3, <1>4

\* The beginning of a quoted path has no end, so that it is no argument.
LEMMA CutQuote ==
  ASSUME NEW t, IsText(t), ~Misread(t), Blank \in Range(t), NEW k \in 0..(Len(QuoteIfNeeded(t)) - 1)
  PROVE  ParseArgs(SubSeq(QuoteIfNeeded(t), 1, k)) = <<>>
<1>. DEFINE A == Range(t) \cup {Quote, Slash}
<1>1. t \in Seq(A) /\ Quote \in A /\ Slash \in A
  <2>1. t \in Seq(Range(t))
    BY DEF IsText
  <2>. QED
    BY <2>1, SeqMonotonic
<1>2. Slash \notin Range(t)
  BY DEF Misread
<1>. HIDE DEF A
<1>3. PICK u \in Seq(A) : QuoteIfNeeded(t) = Append(u, Quote) /\ u # <<>> /\ u[1] = Quote /\ Unclosed(u)
  BY <1>1, <1>2, QuotedIsScanned
<1>. DEFINE x == SubSeq(u, 1, k)
            N == Len(u)
<1>4. N \in Nat /\ k \in 0..N
  BY <1>1, <1>3
<1>5. SubSeq(QuoteIfNeeded(t), 1, k) = x
  BY <1>1, <1>3, <1>4
<1>6. CASE k = 0
  <2>1. x = <<>>
    BY <1>6, SubSeqEmpty
  <2>2. Scanned(<<>>) = Scanner
    BY <1>1, <1>3, ScannedAppend
  <2>3. EndArg(Scanner).args = <<>>
    BY DEF EndArg, Scanner
  <2>. HIDE DEF x
  <2>. QED
    BY <1>5, <2>1, <2>2, <2>3, TrimEmpty DEF ParseArgs, Scanner
<1>7. CASE k # 0
  <2>1. x \in Seq(A) /\ Len(x) = k /\ x # <<>> /\ x[1] = Quote
    BY <1>3, <1>4, <1>7
  <2>2. \A n \in 1..k : SubSeq(x, 1, n) = SubSeq(u, 1, n)
    BY <1>4, <1>7
  <2>. HIDE DEF x
  <2>3. PICK n \in 1..k : TrimSpace(x) = SubSeq(x, 1, n)
    BY <2>1, TrimKeeps, QuoteIsSolid
  <2>4. n \in 1..N
    BY <1>4, <2>3
  <2>5. Scanned(TrimSpace(x)).inQuotes
    BY <1>3, <2>2, <2>3, <2>4 DEF Unclosed
  <2>. QED
    BY <1>5, <2>5 DEF ParseArgs
<1>. QED
  BY <1>6, <1>7

Texts(values) == \A s \in Singles : IsText(values[s])

LEMMA WordsDiffer == Processed \subseteq Lists /\ Singles \cap Lists = {} /\ (Singles \cup Lists) \cap Ignored = {}
BY DEF Singles, Lists, Processed, Ignored

\* Each line of a generated Modelfile has one argument: a listed file, or the
\* value of its word.
LEMMA ContentIsRead ==
  ASSUME NEW o, o.lists \in [Lists -> SUBSET Files], Texts(o.values), Plain(o),
         NEW l \in ContentLines(o.lists, o.values)
  PROVE  \/ /\ l.word \in Processed
            /\ \E f \in o.lists[l.word] : l.rest = QuoteIfNeeded(f) /\ ParseArgs(l.rest) = <<f>>
         \/ /\ l.word \in Singles /\ l.rest = o.values[l.word]
            /\ l.rest # <<>> /\ ParseArgs(l.rest) = <<l.rest>>
<1>1. CASE \E s \in Singles : l \in FieldLines(s, o.values)
  <2>1. PICK s \in Singles : o.values[s] # <<>> /\ l = Line(s, o.values[s])
    BY <1>1 DEF FieldLines
  <2>2. l.word = s /\ l.rest = o.values[s] /\ l.rest # <<>>
    BY <2>1 DEF Line
  <2>3. IsText(l.rest) /\ ~Unquotable(l.rest)
    BY <2>2 DEF Texts, Plain
  <2>4. ParseArgs(l.rest) = <<l.rest>>
    <3>1. l.rest \in Seq(Range(l.rest)) /\ Range(l.rest) \cap {Blank, Quote, Slash} = {}
            /\ ~Padded(l.rest)
      BY <2>3 DEF IsText, Unquotable
    <3>. QED
      BY <2>2, <3>1, PlainIsRead
  <2>. QED
    BY <2>2, <2>4
<1>2. CASE \E c \in Processed : l \in ListLines(c, o.lists)
  <2>1. PICK c \in Processed : \E f \in o.lists[c] : l = Line(c, QuoteIfNeeded(f))
    BY <1>2 DEF ListLines
  <2>2. PICK f \in o.lists[c] : l = Line(c, QuoteIfNeeded(f))
    BY <2>1
  <2>3. l.word = c /\ l.rest = QuoteIfNeeded(f)
    BY <2>2 DEF Line
  <2>4. c \in Lists /\ f \in Range(Order) /\ ~Misread(f)
    BY WordsDiffer DEF Plain, Files
  <2>5. IsText(f) /\ f # <<>>
    BY <2>4, ModelfileAssumption
  <2>6. ParseArgs(l.rest) = <<f>>
    BY <2>3, <2>4, <2>5, QuotedIsRead
  <2>. QED
    BY <2>3, <2>6
<1>. QED
  BY <1>1, <1>2 DEF ContentLines

\* What the parser makes of the lines, whatever their order.
LEMMA ParsedLines ==
  ASSUME NEW lines, NEW c \in Singles \cup Lists
  PROVE  ParseFile(lines)[c] = {ParseArgs(l.rest)[1] : l \in {x \in Range(lines) : x.word = c}}
BY DEF ParseFile, Range

LEMMA OneElement ==
  ASSUME NEW x
  PROVE  <<x>>[1] = x /\ Len(<<x>>) = 1
OBVIOUS

\* A generated Modelfile is parsed to its lists and values.
LEMMA ContentIsParsed ==
  ASSUME NEW o, o.lists \in [Lists -> SUBSET Files], Texts(o.values), Plain(o)
  PROVE  /\ \A c \in Processed : ParseFile(Content(o.lists, o.values))[c] = o.lists[c]
         /\ \A s \in Singles : ParseFile(Content(o.lists, o.values))[s] = {o.values[s]} \ {<<>>}
<1>. DEFINE C == Content(o.lists, o.values)
            L == ContentLines(o.lists, o.values)
            Args(c) == {ParseArgs(l.rest)[1] : l \in {x \in L : x.word = c}}
<1>1. Range(C) = L
  BY ContentSpells DEF Spells
<1>. HIDE DEF C
<1>2. \A c \in Singles \cup Lists : ParseFile(C)[c] = Args(c)
  BY <1>1, ParsedLines
<1>3. ASSUME NEW c \in Processed
      PROVE  Args(c) = o.lists[c]
  <2>1. c \in Lists /\ c \notin Singles
    BY WordsDiffer
  <2>2. ASSUME NEW l \in L, l.word = c
        PROVE  ParseArgs(l.rest)[1] \in o.lists[c]
    <3>1. PICK f \in o.lists[c] : ParseArgs(l.rest) = <<f>>
      BY <2>1, <2>2, ContentIsRead
    <3>2. ParseArgs(l.rest)[1] = f
      BY <3>1, OneElement
    <3>. QED
      BY <3>2
  <2>3. ASSUME NEW f \in o.lists[c]
        PROVE  \E l \in L : l.word = c /\ ParseArgs(l.rest)[1] = f
    <3>. DEFINE l == Line(c, QuoteIfNeeded(f))
    <3>1. l.word = c /\ l.rest = QuoteIfNeeded(f)
      BY DEF Line
    <3>2. f \in Range(Order) /\ ~Misread(f)
      BY <2>1 DEF Plain, Files
    <3>3. l \in L
      BY <3>2 DEF ContentLines, ListLines
    <3>4. IsText(f) /\ f # <<>>
      BY <3>2, ModelfileAssumption
    <3>5. ParseArgs(l.rest) = <<f>>
      BY <3>1, <3>2, <3>4, QuotedIsRead
    <3>6. ParseArgs(l.rest)[1] = f
      BY <3>5, OneElement
    <3>. HIDE DEF l, L
    <3>. QED
      BY <3>1, <3>3, <3>6
  <2>. HIDE DEF L
  <2>. QED
    BY <2>2, <2>3
<1>4. ASSUME NEW s \in Singles
      PROVE  Args(s) = {o.values[s]} \ {<<>>}
  <2>1. s \notin Processed
    BY WordsDiffer
  <2>2. ASSUME NEW l \in L, l.word = s
        PROVE  ParseArgs(l.rest)[1] = o.values[s] /\ o.values[s] # <<>>
    <3>1. l.rest = o.values[s] /\ l.rest # <<>> /\ ParseArgs(l.rest) = <<l.rest>>
      BY <2>1, <2>2, ContentIsRead
    <3>. QED
      BY <3>1, OneElement
  <2>3. ASSUME o.values[s] # <<>>
        PROVE  \E l \in L : l.word = s
    <3>. DEFINE l == Line(s, o.values[s])
    <3>1. l.word = s /\ l \in L
      BY <2>3 DEF Line, ContentLines, FieldLines
    <3>. HIDE DEF l, L
    <3>. QED
      BY <3>1
  <2>. HIDE DEF L
  <2>. QED
    BY <2>2, <2>3
<1>5. Processed \subseteq Singles \cup Lists
  BY WordsDiffer
<1>. HIDE DEF L, Args
<1>6. \A c \in Processed : ParseFile(C)[c] = o.lists[c]
  BY <1>2, <1>3, <1>5
<1>7. \A s \in Singles : ParseFile(C)[s] = {o.values[s]} \ {<<>>}
  BY <1>2, <1>4
<1>. QED
  BY <1>6, <1>7 DEF C

\* Paths that are not misread have no glob characters.
LEMMA PlainMatchesItself ==
  ASSUME NEW p, ~HasGlob(p), NEW present
  PROVE  Matched(p, present) = {p} /\ (Resolves(p, present) <=> p \in Entries(present))
BY DEF Matched, Resolves

\* Names that are not misread have no characters for globbing.
LEMMA PlainHasNoGlob ==
  ASSUME NEW p, ~Misread(p)
  PROVE  ~HasGlob(p)
BY DEF Misread, HasGlob

\* What a build makes of a generated Modelfile does not depend on what is there.
LEMMA GeneratedLayers ==
  ASSUME NEW o, o.lists \in [Lists -> SUBSET Files], Plain(o),
         NEW patterns, \A c \in Processed : patterns[c] = o.lists[c], NEW present
  PROVE  LayersOf(patterns, present) = Listed(o.lists)
<1>1. ASSUME NEW c \in Processed
      PROVE  UNION {Matched(p, present) : p \in patterns[c]} = o.lists[c]
  <2>1. \A p \in patterns[c] : Matched(p, present) = {p}
    BY WordsDiffer, PlainHasNoGlob, PlainMatchesItself DEF Plain
  <2>. QED
    BY <2>1
<1>. QED
  BY <1>1 DEF LayersOf, Listed

-----------------------------------------------------------------------------
(***************************************************************************)
(* Builds.                                                                 *)
(***************************************************************************)

\* What the lines are that o says the origin of.
OfOrigin(lines, o) ==
  /\ o.lists \in [Lists -> SUBSET Files] /\ Texts(o.values)
  /\ o.by = "generate" => lines = Content(o.lists, o.values)
  /\ o.by = "cut" => lines = <<>> \/ lines \in Cuts(Content(o.lists, o.values))

\* The draft of a command is what the flags choose.
DraftInv ==
  /\ pc \in {"config", "open", "write"} => draft.lists = was.wanted
  /\ pc \in {"open", "write"} => Texts(draft.values)
  /\ pc = "write" => origin = Wrote("cut")

\* A build has read lines of the origin it says, and its layers come from them.
MfInv ==
  /\ pc \in {"parse", "match"} => result = "none"
  /\ result = "built" \/ pc = "match" =>
       \E lines : Parses(lines) /\ mf.patterns = ParseFile(lines) /\ OfOrigin(lines, mf.origin)
  /\ result = "built" => \E present : layers = LayersOf(mf.patterns, present)

BuildInv == OfOrigin(text, origin) /\ DraftInv /\ MfInv

LEMMA NoTexts == Texts(NoDraft.values) /\ NoDraft.values = NoOrigin.values /\ NoOrigin.by = "user"
                   /\ NoOrigin.lists = NoLists
<1>1. IsText(<<>>)
  <2>1. <<>> \in Seq(Range(<<>>))
    BY DEF Range
  <2>. QED
    BY <2>1 DEF IsText
<1>. QED
  BY <1>1 DEF Texts, NoDraft, NoOrigin

\* A user may have written any lines.
LEMMA UserOrigin ==
  ASSUME NEW lines
  PROVE  OfOrigin(lines, NoOrigin)
BY NoTexts, StartValues DEF OfOrigin

LEMMA InitBuild == Init => BuildInv
BY UserOrigin DEF Init, BuildInv, DraftInv, MfInv

\* The values of the configuration files and the flags are texts.
LEMMA ConfigTexts ==
  ASSUME NEW o \in Options, NEW d \in {"local", "temp"}, NEW present
  PROVE  Texts(GenerateByConfig(GenerateByModelConfig(present), o.flags, Base[d]))
<1>1. IsText(<<>>) /\ IsText(<<"transformer">>)
  <2>1. <<>> \in Seq(Range(<<>>)) /\ <<"transformer">> \in Seq(Range(<<"transformer">>))
    BY DEF Range
  <2>. QED
    BY <2>1 DEF IsText
<1>2. ASSUME NEW key
      PROVE  IsText(KeyOr(present, key))
  <2>. DEFINE having == Declaring(present, key)
              i      == CHOOSE k \in having : \A m \in having : m <= k
  <2>1. CASE having = {}
    BY <1>1, <2>1 DEF KeyOr
  <2>2. CASE having # {}
    <3>1. having \subseteq DOMAIN ConfigFiles /\ \A k \in having : key \in DOMAIN Declares[ConfigFiles[k]]
      BY DEF Declaring
    <3>2. DOMAIN ConfigFiles = 1..Len(ConfigFiles) /\ Len(ConfigFiles) \in Nat
      BY ModelfileAssumption
    <3>3. KeyOr(present, key) = Declares[ConfigFiles[i]][key]
      BY <2>2 DEF KeyOr
    <3>. HIDE DEF having
    <3>4. \E k \in having : \A m \in having : m <= k
      BY <2>2, <3>1, <3>2, LargestNumber
    <3>5. i \in having
      BY <3>4
    <3>. HIDE DEF i
    <3>6. ConfigFiles[i] \in Range(ConfigFiles)
      BY <3>1, <3>5 DEF Range
    <3>. QED
      BY <3>1, <3>3, <3>5, <3>6, ModelfileAssumption
  <2>. QED
    BY <2>1, <2>2
<1>3. \A s \in Singles : IsText(GenerateByModelConfig(present)[s])
  BY <1>1, <1>2 DEF GenerateByModelConfig
<1>4. IsText(Base[d]) /\ \A s \in DOMAIN o.flags : IsText(o.flags[s])
  BY ImportAssumption
<1>. QED
  BY <1>3, <1>4 DEF GenerateByConfig, Texts

\* A step that leaves alone what a build has read and made.
LEMMA MfKept ==
  ASSUME MfInv, UNCHANGED <<mf, layers, result>>, pc' = pc \/ pc' \notin {"parse", "match"}
  PROVE  MfInv'
BY DEF MfInv

\* A step after which no build has read anything.
LEMMA MfReset ==
  ASSUME result' # "built", pc' # "match", pc' = "parse" => result' = "none"
  PROVE  MfInv'
BY DEF MfInv

\* A step that leaves the Modelfile alone.
LEMMA TextKept ==
  ASSUME OfOrigin(text, origin), UNCHANGED <<text, origin>>
  PROVE  OfOrigin(text, origin)'
BY DEF OfOrigin

\* Commands that fail forget what they found.
LEMMA EndBuild ==
  ASSUME NEW r \in Results \ {"generated", "built"}, Leave(r) \/ End(r)
  PROVE  DraftInv' /\ MfInv'
BY MfReset DEF Leave, End, DraftInv

\* A command begins, or is refused.
LEMMA BeginBuild ==
  ASSUME TypeInv, BuildInv, \/ \E o \in Options : Generate(o) \/ RefuseGenerate(o)
                            \/ StartBuild
  PROVE  BuildInv'
<1>1. /\ UNCHANGED <<text, origin>> /\ result' \in {"none", "refused"}
      /\ pc' \in {"resolve", "walk", "idle"} \/ (pc' = "parse" /\ result' = "none")
  <2>1. CASE \E o \in Options : Generate(o)
    BY <2>1 DEF Generate, Begin
  <2>2. CASE \E o \in Options : RefuseGenerate(o)
    <3>1. PICK o \in Options : RefuseGenerate(o)
      BY <2>2
    <3>2. pc = "idle" /\ pc' = pc /\ result' = "refused" /\ UNCHANGED <<text, origin>>
      BY <3>1 DEF RefuseGenerate
    <3>. QED
      BY <3>2
  <2>3. CASE StartBuild
    BY <2>3 DEF StartBuild
  <2>. QED
    BY <2>1, <2>2, <2>3
<1>. QED
  BY <1>1, TextKept, MfReset DEF BuildInv, DraftInv

LEMMA DownloadBuild ==
  ASSUME TypeInv, BuildInv, \/ \E url \in Urls : Resolve(url)
                            \/ FetchObject \/ LoseObject \/ Fetched \/ RunTool
  PROVE  BuildInv'
<1>1. UNCHANGED <<text, origin, mf, layers, result>> /\ pc' \in {"fetch", "tool", "walk"}
  <2>1. CASE \E url \in Urls : Resolve(url)
    BY <2>1 DEF Resolve, buildVars
  <2>2. CASE FetchObject \/ LoseObject \/ Fetched \/ RunTool
    BY <2>2 DEF FetchObject, LoseObject, Fetched, RunTool, buildVars
  <2>. QED
    BY <2>1, <2>2
<1>. QED
  BY <1>1, TextKept, MfKept DEF BuildInv, DraftInv

\* A command fails.
LEMMA FailBuild ==
  ASSUME BuildInv,
         \/ ResolveFails \/ ListingFails \/ ToolFails \/ WalkFails \/ ReadConfigFails \/ OpenFails
         \/ ParseFails \/ ProcessFails \/ Kill
  PROVE  BuildInv'
<1>1. UNCHANGED <<text, origin>>
  BY DEF ResolveFails, ListingFails, ToolFails, WalkFails, ReadConfigFails, OpenFails, ParseFails,
    ProcessFails, Kill
<1>2. PICK r \in Results \ {"generated", "built"} : Leave(r) \/ End(r)
  BY DEF ResolveFails, ListingFails, ToolFails, WalkFails, ReadConfigFails, OpenFails, ParseFails,
    ProcessFails, Kill, Results
<1>3. DraftInv' /\ MfInv'
  BY <1>2, EndBuild
<1>. QED
  BY <1>1, <1>3, TextKept DEF BuildInv

\* The draft is read.
LEMMA ReadBuild ==
  ASSUME TypeInv, BuildInv, Walk \/ ReadConfig
  PROVE  BuildInv'
<1>1. UNCHANGED <<text, origin, mf, layers, result>> /\ opts \in Options /\ TypeOK
        /\ pc' \in {"config", "open"}
  BY DEF Walk, ReadConfig, buildVars, TypeInv, Generating
<1>2. DraftInv'
  <2>1. CASE Walk
    <3>1. /\ draft' = [draft EXCEPT !.lists = Found.lists] /\ was' = [was EXCEPT !.wanted = Wanted]
          /\ pc' = "config" /\ Found.ok
      BY <2>1 DEF Walk
    <3>2. Found.lists = Wanted
      BY <1>1, <3>1, FoundIsWanted
    <3>3. draft'.lists = Found.lists /\ was'.wanted = Wanted
      BY <3>1 DEF TypeInv, IsPast
    <3>. QED
      BY <3>1, <3>2, <3>3 DEF DraftInv
  <2>2. CASE ReadConfig
    <3>. DEFINE v == GenerateByConfig(GenerateByModelConfig(Present(opts.dir)), opts.flags, Base[opts.dir])
    <3>1. draft' = [draft EXCEPT !.values = v] /\ was' = was /\ pc = "config" /\ pc' = "open"
      BY <2>2 DEF ReadConfig
    <3>2. Texts(v)
      BY <1>1, ConfigTexts, ImportAssumption
    <3>. HIDE DEF v
    <3>3. draft'.values = v /\ draft'.lists = draft.lists
      BY <3>1 DEF TypeInv
    <3>4. draft.lists = was.wanted
      BY <3>1 DEF BuildInv, DraftInv
    <3>. QED
      BY <3>1, <3>2, <3>3, <3>4 DEF DraftInv
  <2>. QED
    BY <2>1, <2>2
<1>. QED
  BY <1>1, <1>2, TextKept, MfKept DEF BuildInv

LEMMA WroteFields ==
  ASSUME NEW by
  PROVE  Wrote(by).by = by /\ Wrote(by).lists = was.wanted /\ Wrote(by).values = draft.values
BY DEF Wrote

\* The text is written.
LEMMA WriteBuild ==
  ASSUME TypeInv, BuildInv, Open \/ Write \/ WriteFails
  PROVE  BuildInv'
<1>. DEFINE C == Content(draft.lists, draft.values)
<1>1. was.wanted \in [Lists -> SUBSET Files] /\ Texts(draft.values) /\ draft.lists = was.wanted
  BY DEF Open, Write, WriteFails, TypeInv, BuildInv, DraftInv
<1>2. CASE Open
  <2>1. /\ text' = <<>> /\ origin' = Wrote("cut") /\ pc' = "write" /\ was' = [was EXCEPT !.replaced = {text}]
        /\ UNCHANGED <<draft, mf, layers, result>>
    BY <1>2 DEF Open, buildVars
  <2>2. was'.wanted = was.wanted
    BY <2>1 DEF TypeInv, IsPast
  <2>3. OfOrigin(text, origin)'
    BY <1>1, <2>1, WroteFields DEF OfOrigin
  <2>4. DraftInv'
    BY <1>1, <2>1, <2>2 DEF DraftInv, Wrote
  <2>. QED
    BY <2>1, <2>3, <2>4, MfKept DEF BuildInv
<1>3. CASE Write
  <2>1. text = <<>> /\ Writes(C) /\ origin' = Wrote("generate") /\ pc' = "idle" /\ result' = "generated"
    BY <1>3 DEF Write, End, Leave, TypeInv
  <2>2. text' = C
    <3>1. IsLines(C)
      BY ContentIsLines
    <3>. HIDE DEF C
    <3>. QED
      BY <2>1, <3>1, WritesNew
  <2>3. OfOrigin(text, origin)'
    BY <1>1, <2>1, <2>2, WroteFields DEF OfOrigin
  <2>. QED
    BY <2>1, <2>3, MfReset DEF BuildInv, DraftInv
<1>4. CASE WriteFails
  <2>1. text = <<>> /\ origin' = origin /\ origin = Wrote("cut") /\ End("failed")
    BY <1>4 DEF WriteFails, TypeInv, BuildInv, DraftInv
  <2>2. PICK cut \in Cuts(C) : Writes(cut)
    BY <1>4 DEF WriteFails
  <2>3. text' = cut
    <3>1. IsLines(C)
      BY ContentIsLines
    <3>. HIDE DEF C
    <3>. QED
      BY <2>1, <2>2, <3>1, CutIsLines, WritesNew
  <2>4. OfOrigin(text, origin)'
    BY <1>1, <2>1, <2>2, <2>3, WroteFields DEF OfOrigin
  <2>. QED
    BY <2>1, <2>4, EndBuild DEF BuildInv, Results
<1>. QED
  BY <1>2, <1>3, <1>4

\* A build reads the text and makes layers of it.
LEMMA ParseBuild ==
  ASSUME TypeInv, BuildInv, Parse \/ Process
  PROVE  BuildInv'
<1>1. CASE Parse
  <2>1. /\ mf' = [patterns |-> ParseFile(text), origin |-> origin] /\ pc = "parse" /\ pc' = "match"
        /\ Parses(text) /\ UNCHANGED <<text, origin, result>>
    BY <1>1 DEF Parse
  <2>2. mf'.patterns = ParseFile(text) /\ mf'.origin = origin /\ result' = "none" /\ OfOrigin(text, origin)
    BY <2>1 DEF BuildInv, MfInv
  <2>3. MfInv'
    BY <2>1, <2>2 DEF MfInv
  <2>. QED
    BY <2>1, <2>2, <2>3, TextKept DEF BuildInv, DraftInv
<1>2. CASE Process
  <2>1. /\ layers' = LayersOf(mf.patterns, Present("local")) /\ pc = "match" /\ pc' = "idle"
        /\ result' = "built" /\ UNCHANGED <<text, origin, mf>>
    BY <1>2 DEF Process
  <2>2. MfInv'
    BY <2>1 DEF BuildInv, MfInv
  <2>. QED
    BY <2>1, <2>2, TextKept DEF BuildInv, DraftInv
<1>. QED
  BY <1>1, <1>2

LEMMA EditBuild ==
  ASSUME TypeInv, BuildInv, EditModelfile \/ EditFile
  PROVE  BuildInv'
<1>1. UNCHANGED <<pc, result, draft, mf, layers>>
  BY DEF EditModelfile, EditFile, buildVars
<1>2. PICK f : was' = [was EXCEPT !.touched = @ \cup {f}]
  BY DEF EditModelfile, EditFile
<1>3. was'.wanted = was.wanted
  BY <1>2 DEF TypeInv, IsPast
<1>4. OfOrigin(text, origin)'
  <2>1. CASE EditModelfile
    BY <2>1, UserOrigin DEF EditModelfile
  <2>2. CASE EditFile
    BY <2>2, TextKept DEF EditFile, BuildInv
  <2>. QED
    BY <2>1, <2>2
<1>5. DraftInv'
  <2>1. pc = "write" => origin' = origin
    BY DEF EditModelfile, EditFile
  <2>. QED
    BY <1>1, <1>3, <2>1 DEF BuildInv, DraftInv, Wrote
<1>. QED
  BY <1>1, <1>4, <1>5, MfKept DEF BuildInv

LEMMA NextBuild ==
  ASSUME TypeInv, BuildInv, [Next]_vars
  PROVE  BuildInv'
<1>1. CASE Next
  BY <1>1, BeginBuild, DownloadBuild, FailBuild, ReadBuild, WriteBuild, ParseBuild, EditBuild
    DEF Next, Download, Generation, Build
<1>2. CASE UNCHANGED vars
  <2>1. UNCHANGED <<text, origin, pc, draft, was, mf, layers, result>>
    BY <1>2 DEF vars, commandVars, localVars, buildVars
  <2>2. DraftInv'
    BY <2>1 DEF BuildInv, DraftInv, Wrote
  <2>. QED
    BY <2>1, <2>2, TextKept, MfKept DEF BuildInv
<1>. QED
  BY <1>1, <1>2

LEMMA BuildFollows == BuildInv => BuildFaithful
<1>. SUFFICES ASSUME BuildInv, result = "built", mf.origin.by = "generate", Plain(mf.origin)
              PROVE  /\ layers = Listed(mf.origin.lists)
                     /\ \A s \in Singles : mf.patterns[s] = {mf.origin.values[s]} \ {<<>>}
  BY DEF BuildFaithful
<1>. DEFINE o == mf.origin
<1>1. PICK lines : mf.patterns = ParseFile(lines) /\ OfOrigin(lines, o)
  BY DEF BuildInv, MfInv
<1>2. PICK present : layers = LayersOf(mf.patterns, present)
  BY DEF BuildInv, MfInv
<1>3. mf.patterns = ParseFile(Content(o.lists, o.values)) /\ o.lists \in [Lists -> SUBSET Files] /\ Texts(o.values)
  BY <1>1 DEF OfOrigin
<1>4. /\ \A c \in Processed : mf.patterns[c] = o.lists[c]
      /\ \A s \in Singles : mf.patterns[s] = {o.values[s]} \ {<<>>}
  BY <1>3, ContentIsParsed
<1>5. layers = Listed(o.lists)
  BY <1>2, <1>3, <1>4, GeneratedLayers
<1>. QED
  BY <1>4, <1>5

\* A build from a generated Modelfile has the files that the flags choose,
\* under their commands, and the values found.
THEOREM BuildIsFaithful == Spec => []BuildFaithful
<1>1. Init => TypeInv /\ BuildInv
  BY InitTypes, InitBuild
<1>2. TypeInv /\ BuildInv /\ [Next]_vars => TypeInv' /\ BuildInv'
  BY NextTypes, NextBuild
<1>. QED
  BY <1>1, <1>2, BuildFollows, PTL DEF Spec

-----------------------------------------------------------------------------
(***************************************************************************)
(* A Modelfile that was cut short.                                         *)
(***************************************************************************)

\* A line of a cut is one of the text, or the beginning of one.
LEMMA CutLines ==
  ASSUME NEW lines, IsLines(lines), NEW cut \in Cuts(lines), NEW x \in Range(cut)
  PROVE  \/ x \in Range(lines)
         \/ \E l \in Range(lines) : \E k \in 0..(Len(l.rest) - 1) :
              x.word = l.word /\ x.rest = SubSeq(l.rest, 1, k)
<1>1. lines \in Seq(Range(lines)) /\ Len(lines) \in Nat /\ DOMAIN lines = 1..Len(lines)
  BY DEF IsLines, IsText
<1>2. \A m \in 0..Len(lines) : /\ SubSeq(lines, 1, m) \in Seq(Range(lines))
                               /\ Range(SubSeq(lines, 1, m)) \subseteq Range(lines)
  <2>1. \A m \in 0..Len(lines) : SubSeq(lines, 1, m) \in Seq(Range(lines))
    BY <1>1
  <2>2. \A s \in Seq(Range(lines)) : Range(s) \subseteq Range(lines)
    BY DEF Range
  <2>. QED
    BY <2>1, <2>2
<1>3. CASE \E m \in 0..(Len(lines) - 1) : cut = SubSeq(lines, 1, m)
  BY <1>1, <1>2, <1>3
<1>4. ASSUME NEW n \in DOMAIN lines, NEW k \in 0..(Len(lines[n].rest) - 1),
             cut = Append(SubSeq(lines, 1, n - 1), [lines[n] EXCEPT !.rest = SubSeq(@, 1, k)])
      PROVE  \/ x \in Range(lines)
             \/ \E l \in Range(lines) : \E i \in 0..(Len(l.rest) - 1) :
                  x.word = l.word /\ x.rest = SubSeq(l.rest, 1, i)
  <2>. DEFINE s == SubSeq(lines, 1, n - 1)
              l == lines[n]
              z == [l EXCEPT !.rest = SubSeq(@, 1, k)]
  <2>1. s \in Seq(Range(lines)) /\ Range(s) \subseteq Range(lines)
    BY <1>1, <1>2
  <2>2. l \in Range(lines) /\ l = Line(l.word, l.rest)
    BY DEF Range, IsLines
  <2>3. z.word = l.word /\ z.rest = SubSeq(l.rest, 1, k)
    BY <2>2 DEF Line
  <2>. HIDE DEF s, l, z
  <2>4. cut = Append(s, z)
    BY <1>4 DEF s, l, z
  <2>5. \A i \in DOMAIN Append(s, z) : Append(s, z)[i] \in Range(s) \/ Append(s, z)[i] = z
    BY <2>1 DEF Range
  <2>6. x \in Range(s) \/ x = z
    BY <2>4, <2>5 DEF Range
  <2>7. k \in 0..(Len(l.rest) - 1)
    BY DEF l
  <2>. QED
    BY <2>1, <2>2, <2>3, <2>6, <2>7
<1>. QED
  BY <1>3, <1>4 DEF Cuts

\* The first elements of a text are a beginning of it, and another text.
LEMMA FirstAreBeginning ==
  ASSUME NEW t, IsText(t), NEW k \in 0..(Len(t) - 1)
  PROVE  /\ IsStrictPrefix(SubSeq(t, 1, k), t)
         /\ IsText(SubSeq(t, 1, k)) /\ Range(SubSeq(t, 1, k)) \subseteq Range(t)
<1>. DEFINE A == Range(t)
            s == SubSeq(t, 1, k)
<1>1. t \in Seq(A) /\ Len(t) \in Nat
  BY DEF IsText
<1>. HIDE DEF A
<1>2. s \in Seq(A) /\ Len(s) = k /\ SubSeq(s, 1, k) = s
  <2>1. s \in Seq(A) /\ Len(s) = k
    BY <1>1
  <2>. HIDE DEF s
  <2>. QED
    BY <2>1, SubSeqFull
<1>3. IsPrefix(s, t)
  BY <1>1, <1>2 DEF IsPrefix
<1>4. s # t
  BY <1>1, <1>2
<1>. HIDE DEF s
<1>5. s \in Seq(Range(s))
  BY <1>2, SeqOfRange
<1>6. Range(s) \subseteq A
  BY <1>2 DEF Range
<1>. QED
  BY <1>3, <1>4, <1>5, <1>6 DEF IsStrictPrefix, IsText, s, A

\* The one argument of a line that was cut is the beginning of an unquoted path.
LEMMA CutPath ==
  ASSUME NEW f, IsText(f), ~Misread(f), NEW k \in 0..(Len(QuoteIfNeeded(f)) - 1),
         OneArgument(ParseArgs(SubSeq(QuoteIfNeeded(f), 1, k)))
  PROVE  /\ Blank \notin Range(f)
         /\ IsStrictPrefix(ParseArgs(SubSeq(QuoteIfNeeded(f), 1, k))[1], f)
         /\ ~HasGlob(ParseArgs(SubSeq(QuoteIfNeeded(f), 1, k))[1])
<1>1. Blank \notin Range(f)
  BY CutQuote DEF OneArgument
<1>2. /\ QuoteIfNeeded(f) = f /\ ~Padded(f)
      /\ Range(f) \cap {Blank, Quote, Slash} = {} /\ Range(f) \cap Globs = {}
  BY <1>1 DEF QuoteIfNeeded, Misread
<1>3. Len(f) \in Nat /\ k \in 0..(Len(f) - 1) /\ f \in Seq(Range(f))
  BY <1>2 DEF IsText
<1>4. k # 0
  <2>1. ParseArgs(<<>>) = <<>>
    <3>1. Scanned(<<>>) = Scanner
      BY ScannedAppend, EmptySeq
    <3>2. EndArg(Scanner).args = <<>>
      BY DEF EndArg, Scanner
    <3>. QED
      BY <3>1, <3>2, TrimEmpty DEF ParseArgs, Scanner
  <2>2. ~OneArgument(<<>>)
    BY DEF OneArgument
  <2>3. ASSUME k = 0
        PROVE  FALSE
    <3>1. SubSeq(QuoteIfNeeded(f), 1, k) = <<>>
      BY <2>3, SubSeqEmpty
    <3>. QED
      BY <2>1, <2>2, <3>1
  <2>. QED
    BY <2>3
<1>5. f # <<>> /\ f[1] \notin Spaces
  <2>1. f # <<>>
    BY <1>3, <1>4, EmptySeq
  <2>. QED
    BY <1>2, <2>1 DEF Padded
<1>. DEFINE s == SubSeq(f, 1, k)
<1>6. s \in Seq(Range(f)) /\ Len(s) = k /\ s # <<>> /\ s[1] = f[1]
  BY <1>3, <1>4
<1>7. \A n \in 1..k : SubSeq(s, 1, n) = SubSeq(f, 1, n)
  BY <1>3, <1>4
<1>. HIDE DEF s
<1>8. PICK n \in 1..k : TrimSpace(s) = SubSeq(s, 1, n)
  BY <1>5, <1>6, TrimKeeps
<1>. DEFINE r == SubSeq(f, 1, n)
<1>9. n \in 0..(Len(f) - 1) /\ TrimSpace(s) = r
  BY <1>3, <1>7, <1>8
<1>10. IsStrictPrefix(r, f) /\ IsText(r) /\ Range(r) \subseteq Range(f)
  BY <1>9, FirstAreBeginning
<1>11. r # <<>>
  BY <1>3, <1>9
<1>. HIDE DEF r
<1>12. At(Scanned(r), r, FALSE)
  BY <1>2, <1>10, <1>11, PlainIsScanned DEF IsText
<1>13. ParseArgs(s) = <<r>>
  <2>1. ~Scanned(r).inQuotes /\ EndArg(Scanned(r)).args = <<r>>
    BY <1>11, <1>12, EndAt
  <2>. QED
    BY <1>9, <2>1 DEF ParseArgs
<1>14. ParseArgs(s)[1] = r /\ ~HasGlob(r)
  BY <1>2, <1>10, <1>13, OneElement DEF HasGlob
<1>. QED
  BY <1>1, <1>2, <1>10, <1>14 DEF s

\* The patterns of a cut are listed paths, or the beginning of unquoted ones.
LEMMA CutIsParsed ==
  ASSUME NEW o, o.lists \in [Lists -> SUBSET Files], Texts(o.values), Plain(o),
         NEW lines, lines = <<>> \/ lines \in Cuts(Content(o.lists, o.values)), Parses(lines),
         NEW c \in Processed, NEW p \in ParseFile(lines)[c]
  PROVE  /\ ~HasGlob(p)
         /\ p \in o.lists[c] \/ \E f \in o.lists[c] : Blank \notin Range(f) /\ IsStrictPrefix(p, f)
<1>. DEFINE C == Content(o.lists, o.values)
<1>1. c \in Lists /\ c \notin Singles /\ c \in Singles \cup Lists /\ c \notin Ignored
  BY WordsDiffer
<1>2. PICK x \in Range(lines) : x.word = c /\ p = ParseArgs(x.rest)[1]
  BY <1>1, ParsedLines
<1>3. lines \in Cuts(C)
  <2>1. Range(<<>>) = {}
    BY DEF Range
  <2>. QED
    BY <1>2, <2>1
<1>4. OneArgument(ParseArgs(x.rest))
  <2>1. PICK i \in DOMAIN lines : x = lines[i]
    BY <1>2 DEF Range
  <2>. QED
    BY <1>1, <1>2, <2>1 DEF Parses, Valid
<1>5. \A f \in o.lists[c] : IsText(f) /\ f # <<>> /\ ~Misread(f)
  BY <1>1, ModelfileAssumption DEF Plain, Files
<1>6. ASSUME NEW l \in Range(C), l.word = c
      PROVE  \E f \in o.lists[c] : l.rest = QuoteIfNeeded(f) /\ ParseArgs(l.rest) = <<f>>
  <2>1. l \in ContentLines(o.lists, o.values)
    BY ContentSpells DEF Spells
  <2>. QED
    BY <1>1, <1>6, <2>1, ContentIsRead
<1>7. CASE x \in Range(C)
  <2>1. PICK f \in o.lists[c] : ParseArgs(x.rest) = <<f>>
    BY <1>2, <1>6, <1>7
  <2>2. p = f
    BY <1>2, <2>1, OneElement
  <2>. QED
    BY <1>5, <2>2, PlainHasNoGlob
<1>8. CASE x \notin Range(C)
  <2>1. PICK l \in Range(C) :
          \E k \in 0..(Len(l.rest) - 1) : x.word = l.word /\ x.rest = SubSeq(l.rest, 1, k)
    <3>1. IsLines(C)
      BY ContentIsLines
    <3>. HIDE DEF C
    <3>. QED
      BY <1>2, <1>3, <1>8, <3>1, CutLines
  <2>2. PICK k \in 0..(Len(l.rest) - 1) : x.word = l.word /\ x.rest = SubSeq(l.rest, 1, k)
    BY <2>1
  <2>3. PICK f \in o.lists[c] : l.rest = QuoteIfNeeded(f)
    BY <1>2, <1>6, <2>2
  <2>4. Blank \notin Range(f) /\ IsStrictPrefix(p, f) /\ ~HasGlob(p)
    BY <1>2, <1>4, <1>5, <2>2, <2>3, CutPath
  <2>. QED
    BY <2>4
<1>. QED
  BY <1>7, <1>8

LEMMA CutFollows == BuildInv => CutSafe
<1>. SUFFICES ASSUME BuildInv, result = "built", mf.origin.by = "cut", Plain(mf.origin), NEW l \in layers
              PROVE  \/ l \in Listed(mf.origin.lists)
                     \/ \E f \in mf.origin.lists[l[1]] : Blank \notin Range(f) /\ IsStrictPrefix(l[2], f)
  BY DEF CutSafe
<1>. DEFINE o == mf.origin
<1>1. PICK lines : Parses(lines) /\ mf.patterns = ParseFile(lines) /\ OfOrigin(lines, o)
  BY DEF BuildInv, MfInv
<1>2. PICK present : layers = LayersOf(mf.patterns, present)
  BY DEF BuildInv, MfInv
<1>3. /\ o.lists \in [Lists -> SUBSET Files] /\ Texts(o.values)
      /\ lines = <<>> \/ lines \in Cuts(Content(o.lists, o.values))
  BY <1>1 DEF OfOrigin
<1>4. PICK c \in Processed : \E p \in mf.patterns[c] : \E f \in Matched(p, present) : l = <<c, f>>
  BY <1>2 DEF LayersOf
<1>5. PICK p \in mf.patterns[c] : \E f \in Matched(p, present) : l = <<c, f>>
  BY <1>4
<1>6. /\ ~HasGlob(p)
      /\ p \in o.lists[c] \/ \E f \in o.lists[c] : Blank \notin Range(f) /\ IsStrictPrefix(p, f)
  BY <1>1, <1>3, CutIsParsed
<1>7. l = <<c, p>>
  BY <1>5, <1>6, PlainMatchesItself
<1>8. l[1] = c /\ l[2] = p /\ (p \in o.lists[c] => l \in Listed(o.lists))
  BY <1>7 DEF Listed
<1>. QED
  BY <1>6, <1>8

\* A Modelfile that was cut short adds no files to a build, but for one whose
\* name is the beginning of a chosen one.
THEOREM CutIsSafe == Spec => []CutSafe
<1>1. Init => TypeInv /\ BuildInv
  BY InitTypes, InitBuild
<1>2. TypeInv /\ BuildInv /\ [Next]_vars => TypeInv' /\ BuildInv'
  BY NextTypes, NextBuild
<1>. QED
  BY <1>1, <1>2, CutFollows, PTL DEF Spec

-----------------------------------------------------------------------------
(***************************************************************************)
(* A build that fails.                                                     *)
(***************************************************************************)

\* Lines with words of W, of which the single ones come once.
Once(s, W) ==
  /\ s \in Seq(Range(s))
  /\ \A i \in DOMAIN s : s[i].word \in W
  /\ \A i, k \in DOMAIN s : s[i].word \in Singles /\ s[k].word = s[i].word => i = k

LEMMA OnceConcat ==
  ASSUME NEW s, NEW t, NEW W, NEW V, Once(s, W), Once(t, V), W \cap V \cap Singles = {}
  PROVE  Once(s \o t, W \cup V)
<1>. DEFINE A == Range(s) \cup Range(t)
            u == s \o t
            m == Len(s)
            n == Len(t)
<1>1. s \in Seq(A) /\ t \in Seq(A)
  BY SeqMonotonic DEF Once
<1>. HIDE DEF A
<1>2. m \in Nat /\ n \in Nat /\ DOMAIN s = 1..m /\ DOMAIN t = 1..n
  BY <1>1
<1>3. u \in Seq(A) /\ Len(u) = m + n /\ DOMAIN u = 1..(m + n)
  BY <1>1
<1>4. \A i \in 1..(m + n) : u[i] = IF i <= m THEN s[i] ELSE t[i - m]
  BY <1>1
<1>. HIDE DEF u, m, n
<1>5. \A i \in 1..(m + n) : (i <= m => i \in DOMAIN s) /\ (~(i <= m) => i - m \in DOMAIN t)
  BY <1>2
<1>6. \A i \in 1..(m + n) : u[i].word \in IF i <= m THEN W ELSE V
  BY <1>4, <1>5 DEF Once
<1>7. ASSUME NEW i \in 1..(m + n), NEW k \in 1..(m + n), u[i].word \in Singles, u[k].word = u[i].word
      PROVE  i = k
  <2>1. CASE i <= m /\ k <= m
    BY <1>4, <1>5, <1>7, <2>1 DEF Once
  <2>2. CASE ~(i <= m) /\ ~(k <= m)
    <3>1. i - m = k - m
      BY <1>4, <1>5, <1>7, <2>2 DEF Once
    <3>. QED
      BY <1>2, <3>1
  <2>3. CASE (i <= m /\ ~(k <= m)) \/ (~(i <= m) /\ k <= m)
    BY <1>6, <1>7, <2>3
  <2>. QED
    BY <2>1, <2>2, <2>3
<1>8. u \in Seq(Range(u))
  BY <1>3, SeqOfRange
<1>. QED
  BY <1>3, <1>6, <1>7, <1>8 DEF Once, u

LEMMA FieldIsOnce ==
  ASSUME NEW s, NEW values
  PROVE  Once(WriteField(s, values), {s})
<1>1. Once(<<>>, {s})
  BY DEF Once, Range
<1>2. Once(<<Line(s, values[s])>>, {s})
  BY DEF Once, Range, Line
<1>. QED
  BY <1>1, <1>2 DEF WriteField

LEMMA MultiFieldIsOnce ==
  ASSUME NEW c \in Processed, NEW lists
  PROVE  Once(WriteMultiField(c, lists), {c})
<1>. DEFINE w == WriteMultiField(c, lists)
<1>1. w \in Seq(Range(w)) /\ Range(w) = ListLines(c, lists)
  BY MultiFieldSpells DEF Spells
<1>. HIDE DEF w
<1>2. \A i \in DOMAIN w : w[i].word = c
  BY <1>1 DEF Range, ListLines, Line
<1>3. c \notin Singles
  BY WordsDiffer
<1>. QED
  BY <1>1, <1>2, <1>3 DEF Once, w

LEMMA ContentIsOnce ==
  ASSUME NEW lists, NEW values
  PROVE  \E W : Once(Content(lists, values), W)
<1>. DEFINE f(s) == WriteField(s, values)
            l(c) == WriteMultiField(c, lists)
            s3 == f("NAME") \o f("ARCH") \o f("FAMILY")
            S3 == {"NAME"} \cup {"ARCH"} \cup {"FAMILY"}
            s5 == s3 \o f("FORMAT") \o f("PARAMSIZE")
            S5 == S3 \cup {"FORMAT"} \cup {"PARAMSIZE"}
            s7 == s5 \o f("PRECISION") \o f("QUANTIZATION")
            S7 == S5 \cup {"PRECISION"} \cup {"QUANTIZATION"}
            s9 == s7 \o l("CONFIG") \o l("CODE")
            S9 == S7 \cup {"CONFIG"} \cup {"CODE"}
            s11 == s9 \o l("MODEL") \o l("DOC")
            S11 == S9 \cup {"MODEL"} \cup {"DOC"}
<1>1. (\A s : Once(f(s), {s})) /\ \A c \in Processed : Once(l(c), {c})
  BY FieldIsOnce, MultiFieldIsOnce
<1>2. s11 = Content(lists, values)
  BY DEF Content
<1>3. \A c \in {"CONFIG", "CODE", "MODEL", "DOC"} : c \in Processed
  BY DEF Processed
<1>. HIDE DEF f, l
<1>4. Once(s3, S3)
  <2>1. Once(f("NAME") \o f("ARCH"), {"NAME"} \cup {"ARCH"})
    BY <1>1, OnceConcat
  <2>. QED
    BY <1>1, <2>1, OnceConcat
<1>. HIDE DEF s3
<1>5. Once(s5, S5)
  <2>1. Once(s3 \o f("FORMAT"), S3 \cup {"FORMAT"})
    BY <1>1, <1>4, OnceConcat
  <2>. QED
    BY <1>1, <2>1, OnceConcat
<1>. HIDE DEF s5
<1>6. Once(s7, S7)
  <2>1. Once(s5 \o f("PRECISION"), S5 \cup {"PRECISION"})
    BY <1>1, <1>5, OnceConcat
  <2>. QED
    BY <1>1, <2>1, OnceConcat
<1>. HIDE DEF s7
<1>7. Once(s9, S9)
  <2>1. Once(s7 \o l("CONFIG"), S7 \cup {"CONFIG"})
    BY <1>1, <1>3, <1>6, OnceConcat
  <2>. QED
    BY <1>1, <1>3, <2>1, OnceConcat
<1>. HIDE DEF s9
<1>8. Once(s11, S11)
  <2>1. Once(s9 \o l("MODEL"), S9 \cup {"MODEL"})
    BY <1>1, <1>3, <1>7, OnceConcat
  <2>. QED
    BY <1>1, <1>3, <2>1, OnceConcat
<1>. QED
  BY <1>2, <1>8

\* A generated Modelfile of plain names parses.
LEMMA ContentParses ==
  ASSUME NEW o, o.lists \in [Lists -> SUBSET Files], Texts(o.values), Plain(o)
  PROVE  Parses(Content(o.lists, o.values))
<1>. DEFINE C == Content(o.lists, o.values)
<1>1. ASSUME NEW i \in DOMAIN C
      PROVE  Valid(C[i])
  <2>1. C[i] \in ContentLines(o.lists, o.values)
    BY ContentSpells DEF Spells, Range
  <2>. HIDE DEF C
  <2>2. CASE /\ C[i].word \in Processed
             /\ \E f \in o.lists[C[i].word] : ParseArgs(C[i].rest) = <<f>>
    <3>1. PICK f \in o.lists[C[i].word] : ParseArgs(C[i].rest) = <<f>>
      BY <2>2
    <3>2. f # <<>>
      BY <2>2, WordsDiffer, ModelfileAssumption DEF Files
    <3>. QED
      BY <2>2, <3>1, <3>2, OneElement, WordsDiffer DEF Valid, OneArgument
  <2>3. CASE C[i].word \in Singles /\ C[i].rest # <<>> /\ ParseArgs(C[i].rest) = <<C[i].rest>>
    BY <2>3, OneElement DEF Valid, OneArgument
  <2>. QED
    BY <2>1, <2>2, <2>3, ContentIsRead
<1>2. \E W : Once(C, W)
  BY ContentIsOnce
<1>. HIDE DEF C
<1>3. Parses(C)
  BY <1>1, <1>2 DEF Parses, Once
<1>. QED
  BY <1>3 DEF C

\* Only these steps end a build without an artifact.
LEMMA Unbuilt ==
  ASSUME BuildInv, [Next]_vars, pc \in {"parse", "match"}, result' = "unbuilt"
  PROVE  ParseFails \/ ProcessFails
<1>. SUFFICES ASSUME ~ParseFails, ~ProcessFails
              PROVE  FALSE
  OBVIOUS
<1>1. result = "none"
  BY DEF BuildInv, MfInv
<1>2. CASE \/ \E o \in Options : Generate(o) \/ RefuseGenerate(o)
           \/ \E url \in Urls : Resolve(url)
           \/ ResolveFails
  <2>1. pc \in {"idle", "resolve"}
    BY <1>2 DEF Generate, RefuseGenerate, Resolve, ResolveFails
  <2>. QED
    BY <2>1
<1>3. CASE Download
  <2>1. pc \in {"fetch", "tool"}
    BY <1>3 DEF Download, FetchObject, LoseObject, ListingFails, Fetched, RunTool, ToolFails
  <2>. QED
    BY <2>1
<1>4. CASE Generation
  <2>1. pc \in {"walk", "config", "open", "write"}
    BY <1>4 DEF Generation, Walk, WalkFails, ReadConfig, ReadConfigFails, Open, OpenFails, Write, WriteFails
  <2>. QED
    BY <2>1
<1>5. CASE StartBuild \/ Parse \/ Process \/ Kill \/ EditModelfile \/ EditFile \/ UNCHANGED vars
  <2>1. result' \in {"none", "built", "killed"} \/ result' = result
    BY <1>5 DEF StartBuild, Parse, Process, Kill, Leave, EditModelfile, EditFile, vars
  <2>. QED
    BY <1>1, <2>1
<1>. QED
  BY <1>2, <1>3, <1>4, <1>5 DEF Next, Build

\* A failing build has a reason.
LEMMA UnbuiltIsExplained ==
  ASSUME BuildInv, TypeInv, ParseFails \/ ProcessFails
  PROVE  /\ pc = "parse" => Unbuildable(origin)
         /\ pc = "match" => Unbuildable(mf.origin)
<1>1. CASE ParseFails
  <2>1. pc = "parse" /\ (text = Absent \/ ~Parses(text))
    BY <1>1 DEF ParseFails
  <2>2. ASSUME text # Absent, origin.by = "generate", Plain(origin)
        PROVE  FALSE
    <3>1. text = Content(origin.lists, origin.values) /\ origin.lists \in [Lists -> SUBSET Files]
            /\ Texts(origin.values)
      BY <2>2 DEF BuildInv, OfOrigin
    <3>. QED
      BY <2>1, <2>2, <3>1, ContentParses
  <2>. QED
    BY <2>1, <2>2 DEF Unbuildable
<1>2. CASE ProcessFails
  <2>. DEFINE o    == mf.origin
              here == Present("local")
  <2>1. pc = "match" /\ ~Buildable(mf.patterns, here)
    BY <1>2 DEF ProcessFails, Match1
  <2>2. PICK lines : mf.patterns = ParseFile(lines) /\ OfOrigin(lines, o)
    BY <2>1 DEF BuildInv, MfInv
  <2>3. ASSUME o.by = "generate", Plain(o)
        PROVE  \E l \in Listed(o.lists) : l[2] \notin here
    <3>1. o.lists \in [Lists -> SUBSET Files] /\ \A c \in Processed : mf.patterns[c] = o.lists[c]
      BY <2>2, <2>3, ContentIsParsed DEF OfOrigin
    <3>2. PICK c \in Processed : \E p \in o.lists[c] : ~(Resolves(p, here) /\ Matched(p, here) \cap Dirs = {})
      BY <2>1, <3>1 DEF Buildable
    <3>3. PICK p \in o.lists[c] : ~(Resolves(p, here) /\ Matched(p, here) \cap Dirs = {})
      BY <3>2
    <3>4. p \in Files /\ ~Misread(p)
      BY <2>3, <3>1, WordsDiffer DEF Plain
    <3>5. Matched(p, here) = {p} /\ (Resolves(p, here) <=> p \in Entries(here))
      BY <3>4, PlainHasNoGlob, PlainMatchesItself
    <3>6. p \notin here
      BY <3>3, <3>4, <3>5 DEF Files, Entries
    <3>7. <<c, p>> \in Listed(o.lists)
      BY DEF Listed
    <3>. QED
      BY <3>6, <3>7
  <2>. QED
    BY <2>1, <2>3 DEF Unbuildable
<1>. QED
  BY <1>1, <1>2

\* A generated Modelfile fails to build only for a name that it cannot express
\* or a listed file that is not there.
THEOREM BuildIsExplained == Spec => BuildExplained
<1>1. Init => TypeInv /\ BuildInv
  BY InitTypes, InitBuild
<1>2. TypeInv /\ BuildInv /\ [Next]_vars => TypeInv' /\ BuildInv'
  BY NextTypes, NextBuild
<1>3. TypeInv /\ BuildInv /\ [Next]_vars =>
        [ /\ pc = "parse" /\ result' = "unbuilt" => Unbuildable(origin)
          /\ pc = "match" /\ result' = "unbuilt" => Unbuildable(mf.origin) ]_vars
  BY Unbuilt, UnbuiltIsExplained
<1>. QED
  BY <1>1, <1>2, <1>3, PTL DEF Spec, BuildExplained
=============================================================================
