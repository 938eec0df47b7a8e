------------------------- MODULE OutputFile_proofs --------------------------
(***************************************************************************)
(* Theorems about OutputFile, for any versions of the file of any size.    *)
(***************************************************************************)
EXTENDS OutputFile, TLAPS

USE SizeAssumption, NoneAssumption

-----------------------------------------------------------------------------
(* Type correctness, for any number of workers.                            *)

\* A write keeps the file a sequence of blocks and grows it to the offset.
LEMMA WriteAtType ==
  ASSUME content \in Seq(Blocks), NEW i \in Nat \ {0}, NEW b \in Blocks
  PROVE  WriteAt(i, b) \in Seq(Blocks)
<1>. DEFINE n == IF i > Len(content) THEN i ELSE Len(content)
<1>1. n \in Nat
  OBVIOUS
<1>2. \A j \in 1..n : WriteAt(i, b)[j] \in Blocks
  BY DEF WriteAt, Blocks, Junk
<1>3. WriteAt(i, b) \in [1..n -> Blocks]
  BY <1>2 DEF WriteAt
<1>. QED
  BY <1>1, <1>3

LEMMA StepTypeOK ==
  ASSUME TypeOK, [Next]_vars
  PROVE  TypeOK'
<1>. USE DEF TypeOK, Steps, Goes, fileVars, workerVars, history, vars
<1>1. ASSUME NEW w \in Workers, NEW d \in Layers, NEW r \in BOOLEAN, Start(w, d, r)
      PROVE  TypeOK'
  BY <1>1 DEF Start
<1>2. ASSUME NEW w \in Workers, Check(w) \/ Restore(w) \/ Accept(w) \/ Retry(w)
      PROVE  TypeOK'
  BY <1>2 DEF Check, Restore, Accept, Retry
<1>3. ASSUME NEW w \in Workers, Create(w)
      PROVE  TypeOK'
  BY <1>3 DEF Create
<1>4. ASSUME NEW w \in Workers, NEW good \in BOOLEAN, Copy(w, good)
      PROVE  TypeOK'
  <2>. DEFINE i == copied[w] + 1
              b == IF good THEN <<layer[w], i>> ELSE <<"wrong", 0>>
  <2>1. layer[w] \in Layers /\ i \in Nat \ {0}
    BY <1>4 DEF Copy
  <2>2. b \in Blocks
    BY <2>1 DEF Blocks, Junk
  <2>3. WriteAt(i, b) \in Seq(Blocks)
    BY <2>1, <2>2, WriteAtType
  <2>. QED
    BY <1>4, <2>1, <2>3 DEF Copy
<1>5. ASSUME NEW w \in Workers, EndCopy(w)
      PROVE  TypeOK'
  BY <1>5 DEF EndCopy
<1>6. ASSUME NEW w \in Workers, StampSize(w) \/ StampDigest(w)
      PROVE  TypeOK'
  BY <1>6 DEF StampSize, StampDigest
<1>7. ASSUME NEW w \in Workers, StampFails(w) \/ Reject(w) \/ Fail(w)
      PROVE  TypeOK'
  BY <1>7 DEF StampFails, Reject, Fail, Harm, Replacing
<1>8. ASSUME NEW w \in Workers, Return(w) \/ Kill(w)
      PROVE  TypeOK'
  <2>1. Leaves(w) /\ (UNCHANGED spoiled \/ spoiled' = (spoiled \/ Harm(w)))
    BY <1>8 DEF Return, Kill
  <2>2. spoiled' \in BOOLEAN
    BY <2>1
  <2>3. crew' \subseteq Workers \X Layers
    BY <2>1 DEF Leaves
  <2>4. \A v \in Workers : st'[v] # "idle" => layer'[v] \in Layers
    BY <2>1 DEF Leaves
  <2>5. /\ UNCHANGED <<exists, content, size, digest, remote, copied, intact>>
        /\ st' \in [Workers -> Steps] /\ layer' \in [Workers -> Layers \cup {None}]
    BY <2>1 DEF Leaves
  <2>6. /\ exists' \in BOOLEAN /\ content' \in Seq(Blocks)
        /\ size' \in Nat \cup {None} /\ digest' \in Layers \cup {None}
    BY <2>5
  <2>7. /\ remote' \in [Workers -> BOOLEAN] /\ intact' \in [Workers -> BOOLEAN]
        /\ copied' \in [Workers -> Nat]
    BY <2>5
  <2>. QED
    BY <2>2, <2>3, <2>4, <2>5, <2>6, <2>7, Zenon
<1>9. CASE UNCHANGED vars
  BY <1>9
<1>. HIDE DEF TypeOK, Steps, Goes, vars
<1>10. ASSUME NEW w \in Workers, Worker(w)
       PROVE  TypeOK'
  BY <1>1, <1>2, <1>3, <1>4, <1>5, <1>6, <1>7, <1>8, <1>10 DEF Worker
<1>. QED
  BY <1>9, <1>10 DEF Next

\* The variables keep their types (TypeOK of OutputFile).
THEOREM OutputTypeCorrect == Spec => []TypeOK
<1>1. Init => TypeOK
  <2>1. ASSUME Init
        PROVE  content \in Seq(Blocks)
    <3>1. <<"foreign", 0>> \in Blocks
      BY DEF Blocks, Junk
    <3>2. <<<<"foreign", 0>>>> \in Seq(Blocks) /\ <<>> \in Seq(Blocks)
      BY <3>1
    <3>3. content = <<>> \/ content = <<<<"foreign", 0>>>>
      BY <2>1 DEF Init
    <3>. QED
      BY <3>2, <3>3
  <2>2. ASSUME Init
        PROVE  /\ exists \in BOOLEAN /\ spoiled \in BOOLEAN
               /\ remote \in [Workers -> BOOLEAN] /\ intact \in [Workers -> BOOLEAN]
    BY <2>2 DEF Init
  <2>3. ASSUME Init
        PROVE  /\ size \in Nat \cup {None} /\ digest \in Layers \cup {None}
               /\ st \in [Workers -> Steps] /\ layer \in [Workers -> Layers \cup {None}]
               /\ \A w \in Workers : st[w] # "idle" => layer[w] \in Layers
               /\ copied \in [Workers -> Nat] /\ crew \subseteq Workers \X Layers
    BY <2>3 DEF Init, Steps
  <2>. QED
    BY <2>1, <2>2, <2>3 DEF TypeOK
<1>. QED
  BY <1>1, StepTypeOK, PTL DEF Spec

-----------------------------------------------------------------------------
(* What success means, for any number of workers.                          *)

\* A worker that has truncated the file and is not finished.
Busy(w) == st[w] \in {"copy", "restore", "stampSize", "stampDigest", "validate"}

\* Nobody has received a byte that is not the layer's.
Sound == \A w \in Workers : Busy(w) => intact[w]

\* The file has no blocks but those of d, and holes.
Pieces(d) ==
  /\ Len(content) <= SizeOf[d]
  /\ \A j \in 1..Len(content) : content[j] \in {<<d, j>>, <<"hole", 0>>}

\* What u has written since it truncated the file is there.
Covers(u) ==
  /\ copied[u] <= Len(content)
  /\ \A j \in 1..copied[u] : content[j] = <<layer[u], j>>

\* The file is whole, or will be when a worker that is still copying, the one
\* that truncated it last, has come to the end.
Backed(d) == content = ContentOf(d) \/ \E u \in Workers : st[u] = "copy" /\ Covers(u)

\* Who is at work, and on what.
OneLayer ==
  /\ \A w \in Workers : st[w] # "idle" => <<w, layer[w]>> \in crew
  /\ \A x, y \in crew : x[2] = y[2]
  /\ (\A w \in Workers : st[w] = "idle") => crew = {}

\* What each worker knows of itself.
WorkerInv(w) ==
  /\ ~remote[w] => intact[w]
  /\ st[w] = "copy" => copied[w] <= SizeOf[layer[w]]
  /\ st[w] = "copy" /\ crew = {<<w, layer[w]>>} /\ intact[w] => content = Prefix(layer[w], copied[w])
  /\ st[w] = "validate" => digest \in {None, layer[w]}

\* While somebody is busy, the file is made of what it should be made of and
\* will be whole; when nobody is, attributes that describe it tell the truth.
FileInv ==
  /\ \A w \in Workers : Busy(w) /\ Sound => Pieces(layer[w]) /\ Backed(layer[w])
  /\ (\A w \in Workers : ~Busy(w)) =>
       /\ \A d \in Layers : UpToDate(d) => content = ContentOf(d)
       /\ \A w \in Workers : st[w] = "done" => content = ContentOf(layer[w])

Orderly == OneLayer /\ (\A w \in Workers : WorkerInv(w)) /\ FileInv

CrewInv == TypeOK /\ (~spoiled => Orderly)

\* A file of the layer's own blocks that is as long as the layer is the layer.
LEMMA WholePrefix ==
  ASSUME NEW d \in Layers, NEW n \in Nat, Len(Prefix(d, n)) = SizeOf[d]
  PROVE  Prefix(d, n) = ContentOf(d)
BY DEF Prefix, ContentOf

\* The next block of the layer at the end of its prefix.
LEMMA PrefixGrows ==
  ASSUME NEW d \in Layers, NEW n \in Nat, content = Prefix(d, n)
  PROVE  WriteAt(n + 1, <<d, n + 1>>) = Prefix(d, n + 1)
<1>1. Len(content) = n
  BY DEF Prefix
<1>. QED
  BY <1>1 DEF WriteAt, Prefix

\* A step that leaves no mark has left none before.
LEMMA SpoiledStays ==
  ASSUME TypeOK, Next, ~spoiled'
  PROVE  ~spoiled
BY DEF TypeOK, Next, Worker, Start, Check, Create, Copy, EndCopy, Restore, StampSize, StampDigest,
       StampFails, Accept, Reject, Fail, Retry, Return, Kill, Leaves, history

\* Those at work are at work on one layer.
LEMMA SameLayer ==
  ASSUME OneLayer, NEW v \in Workers, NEW w \in Workers, st[v] # "idle", st[w] # "idle"
  PROVE  layer[v] = layer[w]
<1>1. <<v, layer[v]>> \in crew /\ <<w, layer[w]>> \in crew
  BY DEF OneLayer
<1>2. <<v, layer[v]>>[2] = <<w, layer[w]>>[2]
  BY <1>1 DEF OneLayer
<1>. QED
  BY <1>2

\* A worker that does no harm by stopping is the only one.
LEMMA HarmlessIsAlone ==
  ASSUME OneLayer, NEW w \in Workers, st[w] # "idle", ~Harm(w)
  PROVE  /\ crew = {<<w, layer[w]>>}
         /\ \A v \in Workers \ {w} : st[v] = "idle"
         /\ intact[w] /\ digest \in {None, layer[w]}
<1>1. <<w, layer[w]>> \in crew /\ \A x, y \in crew : x = y
  BY DEF OneLayer, Harm
<1>2. crew = {<<w, layer[w]>>}
  BY <1>1
<1>3. ASSUME NEW v \in Workers \ {w}
      PROVE  st[v] = "idle"
  BY <1>2 DEF OneLayer
<1>. QED
  BY <1>2, <1>3 DEF Harm, Replacing

\* A file made of the layer's blocks, all of which are there, is the layer.
LEMMA CoveredIsWhole ==
  ASSUME content \in Seq(Blocks), NEW u \in Workers, layer[u] \in Layers,
         Pieces(layer[u]), Covers(u), copied[u] = SizeOf[layer[u]]
  PROVE  content = ContentOf(layer[u])
<1>1. Len(content) = SizeOf[layer[u]] /\ SizeOf[layer[u]] \in Nat
  BY DEF Pieces, Covers
<1>2. \A j \in 1..Len(content) : content[j] = <<layer[u], j>>
  BY <1>1 DEF Covers
<1>3. content = [j \in 1..Len(content) |-> content[j]]
  OBVIOUS
<1>. QED
  BY <1>1, <1>2, <1>3 DEF ContentOf, Prefix

\* What a worker that stops without harm leaves behind.
LEMMA LeftBehind ==
  ASSUME TypeOK, OneLayer, \A v \in Workers : WorkerInv(v), FileInv,
         NEW w \in Workers, st[w] \notin {"idle", "done", "failed"}, ~Harm(w),
         NEW d \in Layers, UpToDate(d)
  PROVE  content = ContentOf(d)
<1>1. /\ crew = {<<w, layer[w]>>} /\ intact[w] /\ digest \in {None, layer[w]}
      /\ \A v \in Workers \ {w} : st[v] = "idle"
  BY HarmlessIsAlone
<1>2. d = layer[w] /\ Len(content) = SizeOf[d]
  BY <1>1 DEF UpToDate
<1>3. CASE st[w] = "copy"
  <2>1. content = Prefix(d, copied[w]) /\ copied[w] \in Nat
    BY <1>1, <1>2, <1>3 DEF WorkerInv, TypeOK
  <2>. QED
    BY <1>2, <2>1, WholePrefix
<1>4. CASE Busy(w) /\ st[w] # "copy"
  <2>1. Sound
    BY <1>1, <1>4 DEF Sound, Busy
  <2>2. ~\E u \in Workers : st[u] = "copy"
    BY <1>1, <1>4
  <2>3. Backed(d)
    BY <1>2, <1>4, <2>1 DEF FileInv
  <2>. QED
    BY <2>2, <2>3 DEF Backed
<1>5. CASE ~Busy(w) /\ st[w] # "copy"
  <2>1. \A v \in Workers : ~Busy(v)
    BY <1>1, <1>5 DEF Busy
  <2>. QED
    BY <2>1 DEF FileInv
<1>. QED
  BY <1>3, <1>4, <1>5

\* A worker's step outside of the copying leaves the file to those who copy.
LEMMA BusyKept ==
  ASSUME TypeOK, TypeOK', FileInv, NEW w \in Workers, content' = content, st[w] # "copy",
         \A v \in Workers \ {w} : /\ st'[v] = st[v] /\ layer'[v] = layer[v]
                                  /\ copied'[v] = copied[v] /\ intact'[v] = intact[v],
         Busy(w)' => Busy(w) /\ layer'[w] = layer[w],
         Busy(w) => intact[w] \/ (Busy(w)' /\ intact'[w] = intact[w])
  PROVE  \A v \in Workers : Busy(v)' /\ Sound' => Pieces(layer[v])' /\ Backed(layer[v])'
<1>1. ASSUME Sound'
      PROVE  Sound
  <2>1. \A v \in Workers \ {w} : Busy(v) => Busy(v)' /\ intact'[v] = intact[v]
    BY DEF Busy
  <2>2. \A v \in Workers : Busy(v)' => intact'[v]
    BY <1>1 DEF Sound
  <2>. QED
    BY <2>1, <2>2 DEF Sound
<1>2. ASSUME NEW v \in Workers, Busy(v)', Sound'
      PROVE  Pieces(layer[v])' /\ Backed(layer[v])'
  <2>1. Busy(v) /\ layer'[v] = layer[v]
    BY <1>2 DEF Busy
  <2>2. Pieces(layer[v]) /\ Backed(layer[v])
    BY <1>1, <1>2, <2>1 DEF FileInv
  <2>3. Pieces(layer[v])'
    BY <2>1, <2>2 DEF Pieces
  <2>4. ASSUME NEW u \in Workers, st[u] = "copy", Covers(u)
        PROVE  st'[u] = "copy" /\ Covers(u)'
    BY <2>4 DEF Covers
  <2>5. Backed(layer[v])'
    BY <2>1, <2>2, <2>4 DEF Backed
  <2>. QED
    BY <2>3, <2>5
<1>. QED
  BY <1>2

\* When nobody else is busy, the file is not touched and attributes that
\* describe it tell the truth, the rest of FileInv follows.
LEMMA QuietKept ==
  ASSUME TypeOK, FileInv, NEW w \in Workers, UNCHANGED fileVars, ~Busy(w), ~Busy(w)',
         \A v \in Workers \ {w} : st'[v] = st[v] /\ layer'[v] = layer[v],
         st'[w] = "done" => st[w] = "check" /\ layer'[w] = layer[w] /\ UpToDate(layer[w]),
         \A v \in Workers : ~Busy(v)'
  PROVE  /\ \A d \in Layers : UpToDate(d)' => content' = ContentOf(d)
         /\ \A v \in Workers : st'[v] = "done" => content' = ContentOf(layer'[v])
<1>1. \A v \in Workers : ~Busy(v)
  BY DEF Busy
<1>2. /\ \A d \in Layers : UpToDate(d) => content = ContentOf(d)
      /\ \A v \in Workers : st[v] = "done" => content = ContentOf(layer[v])
  BY <1>1 DEF FileInv
<1>3. \A d \in Layers : UpToDate(d)' <=> UpToDate(d)
  BY DEF UpToDate, fileVars
<1>4. content' = content
  BY DEF fileVars
<1>5. ASSUME NEW v \in Workers, st'[v] = "done"
      PROVE  content' = ContentOf(layer'[v])
  <2>1. CASE v = w
    <3>1. layer[w] \in Layers
      BY <1>5, <2>1 DEF TypeOK
    <3>. QED
      BY <1>2, <1>4, <1>5, <2>1, <3>1
  <2>2. CASE v # w
    BY <1>2, <1>4, <1>5, <2>2
  <2>. QED
    BY <2>1, <2>2
<1>. QED
  BY <1>2, <1>3, <1>4, <1>5

\* A command starts; if it is for another version than those at work, it
\* leaves a mark.
LEMMA StartOrderly ==
  ASSUME TypeOK, TypeOK', Orderly, NEW w \in Workers, NEW d \in Layers, NEW r \in BOOLEAN,
         Start(w, d, r), ~spoiled'
  PROVE  Orderly'
<1>. USE DEF Goes
<1>1. /\ st[w] = "idle" /\ st'[w] = "check" /\ layer'[w] = d /\ intact'[w] = TRUE
      /\ \A v \in Workers \ {w} : /\ st'[v] = st[v] /\ layer'[v] = layer[v] /\ remote'[v] = remote[v]
                                  /\ copied'[v] = copied[v] /\ intact'[v] = intact[v]
      /\ UNCHANGED fileVars /\ crew' = crew \cup {<<w, d>>} /\ \A x \in crew : x[2] = d
  BY DEF Start, TypeOK
<1>2. OneLayer'
  <2>1. \A v \in Workers : st'[v] # "idle" => <<v, layer'[v]>> \in crew'
    BY <1>1 DEF Orderly, OneLayer
  <2>2. \A x \in crew' : x[2] = d
    BY <1>1
  <2>. QED
    BY <1>1, <2>1, <2>2 DEF OneLayer
<1>3. ASSUME NEW v \in Workers
      PROVE  WorkerInv(v)'
  <2>1. CASE v = w
    BY <1>1, <2>1 DEF WorkerInv
  <2>2. CASE v # w
    <3>1. crew' # {<<v, layer'[v]>>}
      <4>1. <<w, d>> \in crew'
        BY <1>1
      <4>2. <<w, d>> # <<v, layer'[v]>>
        BY <2>2
      <4>. QED
        BY <4>1, <4>2, Zenon
    <3>2. WorkerInv(v) /\ digest' = digest
      BY <1>1 DEF Orderly, fileVars
    <3>. QED
      BY <1>1, <2>2, <3>1, <3>2 DEF WorkerInv
  <2>. QED
    BY <2>1, <2>2
<1>4. FileInv'
  <2>1. ~Busy(w) /\ ~Busy(w)' /\ FileInv /\ content' = content
    BY <1>1 DEF Busy, Orderly, fileVars
  <2>2. \A v \in Workers : Busy(v)' /\ Sound' => Pieces(layer[v])' /\ Backed(layer[v])'
    BY <1>1, <2>1, BusyKept
  <2>. QED
    BY <1>1, <2>1, <2>2, QuietKept DEF FileInv
<1>. QED
  BY <1>2, <1>3, <1>4 DEF Orderly

\* A worker w moves on, the crew stays or breaks up: who it is at work on
\* what, for all steps but the first.
LEMMA OneLayerKept ==
  ASSUME TypeOK, OneLayer, NEW w \in Workers, st[w] # "idle",
         \A v \in Workers \ {w} : st'[v] = st[v] /\ layer'[v] = layer[v],
         st'[w] # "idle" => layer'[w] = layer[w] /\ crew' = crew,
         st'[w] = "idle" => crew' = IF \A v \in Workers \ {w} : st[v] = "idle" THEN {} ELSE crew
  PROVE  OneLayer'
<1>1. CASE st'[w] # "idle"
  BY <1>1 DEF OneLayer
<1>2. CASE st'[w] = "idle" /\ \A v \in Workers \ {w} : st[v] = "idle"
  BY <1>2 DEF OneLayer
<1>3. CASE st'[w] = "idle" /\ ~\A v \in Workers \ {w} : st[v] = "idle"
  BY <1>3 DEF OneLayer
<1>. QED
  BY <1>1, <1>2, <1>3

\* The steps around the copying that leave the file as it is: the check, the
\* end of a command, another attempt.
LEMMA RestOrderly ==
  ASSUME TypeOK, TypeOK', Orderly, NEW w \in Workers, Check(w) \/ Retry(w) \/ Return(w)
  PROVE  Orderly'
<1>. USE DEF Goes
<1>1. /\ st[w] \in {"check", "done", "failed"} /\ st'[w] \in {"check", "create", "done", "idle"}
      /\ \A v \in Workers \ {w} : /\ st'[v] = st[v] /\ layer'[v] = layer[v] /\ remote'[v] = remote[v]
                                  /\ copied'[v] = copied[v] /\ intact'[v] = intact[v]
      /\ UNCHANGED <<fileVars, remote, intact>>
  BY DEF Check, Retry, Return, Leaves, TypeOK
<1>2. /\ st'[w] # "idle" => layer'[w] = layer[w] /\ crew' = crew
      /\ st'[w] = "idle" => crew' = IF \A v \in Workers \ {w} : st[v] = "idle" THEN {} ELSE crew
      /\ st'[w] = "done" => st[w] = "check" /\ layer'[w] = layer[w] /\ UpToDate(layer[w])
  BY DEF Check, Retry, Return, Leaves, TypeOK, history
<1>3. OneLayer'
  BY <1>1, <1>2, OneLayerKept DEF Orderly
<1>4. ASSUME NEW v \in Workers
      PROVE  WorkerInv(v)'
  <2>1. WorkerInv(v) /\ digest' = digest /\ content' = content
    BY <1>1 DEF Orderly, fileVars
  <2>2. CASE v = w
    BY <1>1, <2>1, <2>2 DEF WorkerInv
  <2>3. CASE v # w
    <3>1. crew' \in {crew, {}}
      BY <1>2
    <3>. QED
      BY <1>1, <2>1, <2>3, <3>1 DEF WorkerInv
  <2>. QED
    BY <2>2, <2>3
<1>5. FileInv'
  <2>1. ~Busy(w) /\ ~Busy(w)' /\ FileInv /\ content' = content
    BY <1>1 DEF Busy, Orderly, fileVars
  <2>2. \A v \in Workers : Busy(v)' /\ Sound' => Pieces(layer[v])' /\ Backed(layer[v])'
    BY <1>1, <2>1, BusyKept
  <2>. QED
    BY <1>1, <1>2, <2>1, <2>2, QuietKept DEF FileInv
<1>. QED
  BY <1>3, <1>4, <1>5 DEF Orderly

\* The file is truncated: the worker that did it has written all of nothing.
LEMMA CreateOrderly ==
  ASSUME TypeOK, TypeOK', Orderly, NEW w \in Workers, Create(w)
  PROVE  Orderly'
<1>. USE DEF Goes
<1>1. /\ st[w] = "create" /\ st'[w] = "copy" /\ copied'[w] = 0 /\ intact'[w] = TRUE
      /\ \A v \in Workers \ {w} : st'[v] = st[v] /\ copied'[v] = copied[v] /\ intact'[v] = intact[v]
      /\ content' = <<>> /\ UNCHANGED <<size, digest, layer, remote, crew>>
  BY DEF Create, TypeOK, history
<1>2. OneLayer'
  BY <1>1, OneLayerKept DEF Orderly
<1>3. ASSUME NEW v \in Workers
      PROVE  WorkerInv(v)'
  <2>1. WorkerInv(v)
    BY DEF Orderly
  <2>2. CASE v = w
    <3>1. SizeOf[layer[w]] \in Nat /\ Prefix(layer[w], 0) = <<>>
      BY <1>1 DEF TypeOK, Prefix
    <3>. QED
      BY <1>1, <2>1, <2>2, <3>1 DEF WorkerInv
  <2>3. CASE v # w
    <3>1. st[w] # "idle" => <<w, layer[w]>> \in crew
      BY DEF Orderly, OneLayer
    <3>2. crew' # {<<v, layer'[v]>>}
      BY <1>1, <2>3, <3>1
    <3>. QED
      BY <1>1, <2>1, <2>3, <3>2 DEF WorkerInv
  <2>. QED
    BY <2>2, <2>3
<1>4. FileInv'
  <2>1. ASSUME NEW v \in Workers, Busy(v)'
        PROVE  Pieces(layer[v])' /\ Backed(layer[v])'
    <3>1. SizeOf[layer'[v]] \in Nat
      BY <2>1 DEF TypeOK, Busy
    <3>2. Covers(w)'
      BY <1>1 DEF Covers
    <3>. QED
      BY <1>1, <3>1, <3>2 DEF Pieces, Backed
  <2>2. Busy(w)'
    BY <1>1 DEF Busy
  <2>. QED
    BY <2>1, <2>2 DEF FileInv
<1>. QED
  BY <1>2, <1>3, <1>4 DEF Orderly

\* A good block at a place where the file has it, or has not come to, adds to
\* the pieces, and leaves what others have written.
LEMMA GoodBlock ==
  ASSUME content \in Seq(Blocks), NEW d \in Layers, NEW i \in 1..SizeOf[d], Pieces(d),
         content' = WriteAt(i, <<d, i>>)
  PROVE  /\ Pieces(d)'
         /\ Len(content') >= Len(content) /\ Len(content') >= i /\ content'[i] = <<d, i>>
         /\ \A j \in 1..Len(content) : content'[j] = content[j] \/ content'[j] = <<d, j>>
         /\ content = ContentOf(d) => content' = ContentOf(d)
<1>. DEFINE n == IF i > Len(content) THEN i ELSE Len(content)
<1>1. n \in Nat /\ n >= Len(content) /\ n >= i /\ n <= SizeOf[d] /\ Len(content) \in Nat
      /\ SizeOf[d] \in Nat
  BY DEF Pieces
<1>2. Len(content') = n
  BY <1>1 DEF WriteAt
<1>3. \A j \in 1..n : content'[j] = IF j = i THEN <<d, i>>
                                    ELSE IF j <= Len(content) THEN content[j] ELSE <<"hole", 0>>
  BY DEF WriteAt
<1>. HIDE DEF n
<1>4. /\ content'[i] = <<d, i>>
      /\ \A j \in 1..n : j # i /\ j <= Len(content) => content'[j] = content[j]
      /\ \A j \in 1..n : j # i /\ ~(j <= Len(content)) => content'[j] = <<"hole", 0>>
  <2>1. i \in 1..n
    BY <1>1
  <2>. QED
    BY <1>3, <2>1, Zenon
<1>5. /\ \A j \in 1..n : content'[j] \in {<<d, j>>, <<"hole", 0>>}
      /\ \A j \in 1..Len(content) : content'[j] = content[j] \/ content'[j] = <<d, j>>
  <2>1. \A j \in 1..Len(content) : j \in 1..n /\ j <= Len(content)
    BY <1>1
  <2>2. \A j \in 1..n : j <= Len(content) => j \in 1..Len(content)
    BY <1>1
  <2>3. \A j \in 1..Len(content) : content[j] \in {<<d, j>>, <<"hole", 0>>}
    BY DEF Pieces
  <2>4. ASSUME NEW j \in 1..n
        PROVE  content'[j] \in {<<d, j>>, <<"hole", 0>>}
    <3>1. CASE j = i
      BY <1>4, <3>1, Zenon
    <3>2. CASE j # i /\ j <= Len(content)
      <4>1. content'[j] = content[j] /\ j \in 1..Len(content)
        BY <1>4, <2>2, <3>2
      <4>. QED
        BY <2>3, <4>1, Zenon
    <3>3. CASE j # i /\ ~(j <= Len(content))
      BY <1>4, <3>3, Zenon
    <3>. QED
      BY <3>1, <3>2, <3>3
  <2>5. ASSUME NEW j \in 1..Len(content)
        PROVE  content'[j] = content[j] \/ content'[j] = <<d, j>>
    <3>1. CASE j = i
      BY <1>4, <3>1, Zenon
    <3>2. CASE j # i
      BY <1>4, <2>1, <3>2, Zenon
    <3>. QED
      BY <3>1, <3>2
  <2>. QED
    BY <2>4, <2>5
<1>6. ASSUME content = ContentOf(d)
      PROVE  content' = ContentOf(d)
  <2>1. Len(content) = SizeOf[d] /\ \A j \in 1..SizeOf[d] : content[j] = <<d, j>>
    BY <1>1, <1>6 DEF ContentOf, Prefix
  <2>2. n = SizeOf[d]
    BY <1>1, <2>1
  <2>3. \A j \in 1..n : content'[j] = <<d, j>>
    BY <1>5, <2>1, <2>2, Zenon
  <2>4. content' = [j \in 1..n |-> content'[j]]
    BY DEF WriteAt, n
  <2>. QED
    BY <2>2, <2>3, <2>4 DEF ContentOf, Prefix
<1>7. Pieces(d)'
  BY <1>1, <1>2, <1>5 DEF Pieces
<1>. QED
  BY <1>1, <1>2, <1>4, <1>5, <1>6, <1>7

\* A block is copied: the layer's own, at its place, or one that the registry
\* got wrong.
LEMMA CopyOrderly ==
  ASSUME TypeOK, TypeOK', Orderly, NEW w \in Workers, NEW good \in BOOLEAN, Copy(w, good)
  PROVE  Orderly'
<1>0. PICK d \in Layers, i \in Nat : d = layer[w] /\ i = copied[w] + 1
  BY DEF Copy, TypeOK
<1>1. /\ st[w] = "copy" /\ st' = st /\ layer' = layer /\ crew' = crew /\ remote' = remote
      /\ UNCHANGED <<size, digest>>
      /\ copied'[w] = i /\ (intact'[w] <=> intact[w] /\ good) /\ (~good => remote[w])
      /\ \A v \in Workers \ {w} : copied'[v] = copied[v] /\ intact'[v] = intact[v]
      /\ (good => content' = WriteAt(i, <<d, i>>))
  <2>1. intact'[w] <=> intact[w] /\ good
    <3>1. intact' = [intact EXCEPT ![w] = intact[w] /\ good] /\ intact \in [Workers -> BOOLEAN]
      BY DEF Copy, TypeOK
    <3>. QED
      BY <3>1
  <2>2. ASSUME good
        PROVE  content' = WriteAt(i, <<d, i>>)
    <3>1. content' = WriteAt(copied[w] + 1, IF good THEN <<layer[w], copied[w] + 1>> ELSE <<"wrong", 0>>)
      BY DEF Copy
    <3>. QED
      BY <1>0, <2>2, <3>1, Zenon
  <2>3. /\ st[w] = "copy" /\ st' = st /\ layer' = layer /\ crew' = crew /\ remote' = remote
        /\ UNCHANGED <<size, digest>> /\ (~good => remote[w])
    BY DEF Copy, history
  <2>4. copied'[w] = i /\ \A v \in Workers \ {w} : copied'[v] = copied[v]
    BY <1>0 DEF Copy, TypeOK
  <2>5. \A v \in Workers \ {w} : intact'[v] = intact[v]
    BY DEF Copy, TypeOK
  <2>. QED
    BY <2>1, <2>2, <2>3, <2>4, <2>5
<1>2. i \in 1..SizeOf[d] /\ copied[w] \in Nat /\ SizeOf[d] \in Nat
  BY <1>0 DEF Copy, TypeOK
<1>3. OneLayer'
  BY <1>1 DEF OneLayer, Orderly
<1>4. ASSUME NEW v \in Workers
      PROVE  WorkerInv(v)'
  <2>1. WorkerInv(v)
    BY DEF Orderly
  <2>2. CASE v = w
    <3>1. ASSUME crew = {<<w, d>>}, intact'[w]
          PROVE  content' = Prefix(d, i)
      <4>1. good /\ intact[w]
        BY <1>1, <3>1
      <4>2. content = Prefix(d, copied[w])
        BY <1>0, <1>1, <2>1, <2>2, <3>1, <4>1 DEF WorkerInv
      <4>. QED
        BY <1>0, <1>1, <1>2, <4>1, <4>2, PrefixGrows
    <3>. QED
      BY <1>0, <1>1, <1>2, <2>1, <2>2, <3>1 DEF WorkerInv
  <2>3. CASE v # w
    <3>1. <<w, layer[w]>> \in crew
      BY <1>1 DEF Orderly, OneLayer
    <3>2. <<w, layer[w]>> # <<v, layer[v]>>
      BY <2>3
    <3>3. crew # {<<v, layer[v]>>}
      BY <3>1, <3>2, Zenon
    <3>. QED
      BY <1>1, <2>1, <2>3, <3>3 DEF WorkerInv
  <2>. QED
    BY <2>2, <2>3
<1>5. FileInv'
  <2>1. Busy(w) /\ Busy(w)' /\ \A v \in Workers : Busy(v)' <=> Busy(v)
    BY <1>1 DEF Busy
  <2>2. ASSUME NEW v \in Workers, Busy(v)', Sound'
        PROVE  Pieces(layer[v])' /\ Backed(layer[v])'
    <3>1. good /\ Sound
      <4>1. intact'[w] /\ \A u \in Workers : Busy(u) => intact'[u]
        BY <2>1, <2>2 DEF Sound
      <4>. QED
        BY <1>1, <4>1 DEF Sound
    <3>2. layer'[v] = d /\ layer[v] = d
      <4>1. st[v] # "idle" /\ st[w] # "idle"
        BY <1>1, <2>1, <2>2 DEF Busy
      <4>. QED
        BY <1>0, <1>1, <4>1, SameLayer DEF Orderly
    <3>3. Pieces(d) /\ Backed(d)
      BY <1>0, <2>1, <3>1 DEF Orderly, FileInv
    <3>4. content' = WriteAt(i, <<d, i>>) /\ content \in Seq(Blocks)
      BY <1>1, <3>1 DEF TypeOK
    <3>5. /\ Pieces(d)'
          /\ Len(content') >= Len(content) /\ Len(content') >= i /\ content'[i] = <<d, i>>
          /\ \A j \in 1..Len(content) : content'[j] = content[j] \/ content'[j] = <<d, j>>
          /\ content = ContentOf(d) => content' = ContentOf(d)
      BY <1>2, <3>3, <3>4, GoodBlock
    <3>6. ASSUME NEW u \in Workers, st[u] = "copy", Covers(u)
          PROVE  st'[u] = "copy" /\ Covers(u)'
      <4>1. layer[u] = d /\ layer'[u] = d
        <5>1. st[u] # "idle" /\ st[w] # "idle"
          BY <1>1, <3>6
        <5>. QED
          BY <1>0, <1>1, <5>1, SameLayer DEF Orderly
      <4>2. /\ copied[u] \in Nat /\ Len(content) \in Nat /\ Len(content') \in Nat
            /\ copied[u] <= Len(content) /\ \A j \in 1..copied[u] : content[j] = <<d, j>>
        BY <3>6, <4>1 DEF Covers, TypeOK
      <4>3. \A j \in 1..copied[u] : content'[j] = <<d, j>>
        <5>1. \A j \in 1..copied[u] : j \in 1..Len(content)
          BY <4>2
        <5>. QED
          BY <3>5, <4>2, <5>1, Zenon
      <4>4. copied'[u] <= Len(content') /\ \A j \in 1..copied'[u] : content'[j] = <<d, j>>
        <5>1. CASE u = w
          <6>1. copied'[u] = i /\ i = copied[u] + 1
            BY <1>0, <1>1, <5>1
          <6>2. \A j \in 1..i : j = i \/ j \in 1..copied[u]
            BY <4>2, <6>1
          <6>3. \A j \in 1..i : content'[j] = <<d, j>>
            BY <3>5, <4>3, <6>2, Zenon
          <6>. QED
            BY <3>5, <6>1, <6>3
        <5>2. CASE u # w
          BY <1>1, <3>5, <4>2, <4>3, <5>2
        <5>. QED
          BY <5>1, <5>2
      <4>. QED
        BY <1>1, <3>6, <4>1, <4>4 DEF Covers
    <3>7. Backed(d)'
      BY <3>3, <3>5, <3>6 DEF Backed, ContentOf, Prefix
    <3>. QED
      BY <3>2, <3>5, <3>7 DEF Pieces, Backed
  <2>. QED
    BY <2>1, <2>2 DEF FileInv
<1>. QED
  BY <1>3, <1>4, <1>5 DEF Orderly

\* The copying ends: with all blocks, or with a stream that was cut short,
\* which is remembered.
LEMMA EndCopyOrderly ==
  ASSUME TypeOK, TypeOK', Orderly, NEW w \in Workers, EndCopy(w)
  PROVE  Orderly'
<1>. USE DEF Goes
<1>1. /\ st[w] = "copy" /\ st'[w] = "restore"
      /\ (intact'[w] <=> intact[w] /\ copied[w] = SizeOf[layer[w]])
      /\ (copied[w] < SizeOf[layer[w]] => remote[w])
      /\ \A v \in Workers \ {w} : st'[v] = st[v] /\ intact'[v] = intact[v]
      /\ UNCHANGED <<fileVars, layer, remote, copied, crew>>
  <2>1. intact'[w] <=> intact[w] /\ copied[w] = SizeOf[layer[w]]
    <3>1. /\ intact' = [intact EXCEPT ![w] = intact[w] /\ copied[w] = SizeOf[layer[w]]]
          /\ intact \in [Workers -> BOOLEAN]
      BY DEF EndCopy, TypeOK
    <3>. QED
      BY <3>1
  <2>. QED
    BY <2>1 DEF EndCopy, TypeOK, history
<1>2. layer[w] \in Layers /\ copied[w] \in Nat /\ SizeOf[layer[w]] \in Nat
  BY <1>1 DEF TypeOK
<1>3. OneLayer'
  BY <1>1, OneLayerKept DEF Orderly
<1>4. ASSUME NEW v \in Workers
      PROVE  WorkerInv(v)'
  <2>1. WorkerInv(v) /\ content' = content /\ digest' = digest
    BY <1>1 DEF Orderly, fileVars
  <2>2. CASE v = w
    BY <1>1, <1>2, <2>1, <2>2 DEF WorkerInv
  <2>3. CASE v # w
    BY <1>1, <2>1, <2>3 DEF WorkerInv
  <2>. QED
    BY <2>2, <2>3
<1>5. FileInv'
  <2>1. Busy(w) /\ Busy(w)' /\ \A v \in Workers : Busy(v)' <=> Busy(v)
    BY <1>1 DEF Busy
  <2>2. ASSUME NEW v \in Workers, Busy(v)', Sound'
        PROVE  Pieces(layer[v])' /\ Backed(layer[v])'
    <3>1. Sound /\ copied[w] = SizeOf[layer[w]]
      <4>1. intact'[w] /\ \A u \in Workers : Busy(u) => intact'[u]
        BY <2>1, <2>2 DEF Sound
      <4>. QED
        BY <1>1, <4>1 DEF Sound
    <3>2. Pieces(layer[v]) /\ Backed(layer[v]) /\ content' = content /\ layer'[v] = layer[v]
      BY <1>1, <2>1, <2>2, <3>1 DEF Orderly, FileInv, fileVars
    <3>3. layer[v] = layer[w]
      <4>1. st[v] # "idle" /\ st[w] # "idle"
        BY <1>1, <2>1, <2>2 DEF Busy
      <4>. QED
        BY <4>1, SameLayer DEF Orderly
    <3>4. ASSUME NEW u \in Workers, st[u] = "copy", Covers(u)
          PROVE  Backed(layer[v])'
      <4>1. CASE u = w
        <5>1. content = ContentOf(layer[w])
          BY <1>2, <3>1, <3>2, <3>3, <3>4, <4>1, CoveredIsWhole DEF TypeOK
        <5>. QED
          BY <1>1, <3>2, <3>3, <5>1 DEF Backed, ContentOf, Prefix
      <4>2. CASE u # w
        <5>1. st'[u] = "copy" /\ Covers(u)'
          BY <1>1, <3>2, <3>4, <4>2 DEF Covers
        <5>. QED
          BY <5>1 DEF Backed
      <4>. QED
        BY <4>1, <4>2
    <3>5. Backed(layer[v])'
      BY <3>2, <3>4 DEF Backed, ContentOf, Prefix
    <3>. QED
      BY <3>2, <3>5 DEF Pieces
  <2>. QED
    BY <2>1, <2>2 DEF FileInv
<1>. QED
  BY <1>3, <1>4, <1>5 DEF Orderly

\* The steps between the copying and the end: the file stays as it is, its
\* attributes are set to the layer's, or not.
LEMMA StampOrderly ==
  ASSUME TypeOK, TypeOK', Orderly, NEW w \in Workers, ~spoiled',
         Restore(w) \/ StampSize(w) \/ StampDigest(w) \/ StampFails(w)
  PROVE  Orderly'
<1>. USE DEF Goes
<1>1. /\ st[w] \in {"restore", "stampSize", "stampDigest"}
      /\ st'[w] \in {"stampSize", "stampDigest", "validate"}
      /\ \A v \in Workers \ {w} : st'[v] = st[v]
      /\ UNCHANGED <<exists, content, layer, remote, copied, intact, crew>>
  BY DEF Restore, StampSize, StampDigest, StampFails, TypeOK, fileVars, history
<1>2. /\ digest' \in {digest, layer[w]}
      /\ st'[w] = "validate" => digest' \in {None, layer[w]}
  BY DEF Restore, StampSize, StampDigest, StampFails, TypeOK, Replacing, fileVars
<1>3. OneLayer'
  BY <1>1, OneLayerKept DEF Orderly
<1>4. ASSUME NEW v \in Workers
      PROVE  WorkerInv(v)'
  <2>1. WorkerInv(v)
    BY DEF Orderly
  <2>2. CASE v = w
    BY <1>1, <1>2, <2>1, <2>2 DEF WorkerInv
  <2>3. CASE v # w
    <3>1. st[v] = "validate" => layer[v] = layer[w]
      BY <1>1, SameLayer DEF Orderly
    <3>. QED
      BY <1>1, <1>2, <2>1, <2>3, <3>1 DEF WorkerInv
  <2>. QED
    BY <2>2, <2>3
<1>5. FileInv'
  <2>1. Busy(w) /\ Busy(w)' /\ FileInv
    BY <1>1 DEF Busy, Orderly
  <2>2. \A v \in Workers : Busy(v)' /\ Sound' => Pieces(layer[v])' /\ Backed(layer[v])'
    BY <1>1, <2>1, BusyKept
  <2>. QED
    BY <2>1, <2>2 DEF FileInv
<1>. QED
  BY <1>3, <1>4, <1>5 DEF Orderly

\* A worker succeeds.  With the last one that is busy the file is whole: the
\* one that truncated it last is among those that are finished.
LEMMA AcceptOrderly ==
  ASSUME TypeOK, TypeOK', Orderly, NEW w \in Workers, Accept(w)
  PROVE  Orderly'
<1>. USE DEF Goes
<1>1. /\ st[w] = "validate" /\ st'[w] = "done"
      /\ \A v \in Workers \ {w} : st'[v] = st[v]
      /\ UNCHANGED <<fileVars, layer, remote, copied, intact, crew>>
  BY DEF Accept, TypeOK, history
<1>2. intact[w]
  BY DEF Accept, Orderly, WorkerInv
<1>3. OneLayer'
  BY <1>1, OneLayerKept DEF Orderly
<1>4. ASSUME NEW v \in Workers
      PROVE  WorkerInv(v)'
  <2>1. WorkerInv(v) /\ content' = content /\ digest' = digest
    BY <1>1 DEF Orderly, fileVars
  <2>2. CASE v = w
    BY <1>1, <2>1, <2>2 DEF WorkerInv
  <2>3. CASE v # w
    BY <1>1, <2>1, <2>3 DEF WorkerInv
  <2>. QED
    BY <2>2, <2>3
<1>5. FileInv'
  <2>1. Busy(w) /\ ~Busy(w)' /\ FileInv /\ content' = content
    BY <1>1 DEF Busy, Orderly, fileVars
  <2>2. \A v \in Workers : Busy(v)' /\ Sound' => Pieces(layer[v])' /\ Backed(layer[v])'
    BY <1>1, <1>2, <2>1, BusyKept
  <2>3. ASSUME \A v \in Workers : ~Busy(v)'
        PROVE  /\ \A d \in Layers : UpToDate(d)' => content' = ContentOf(d)
               /\ \A v \in Workers : st'[v] = "done" => content' = ContentOf(layer'[v])
    <3>1. Sound /\ ~\E u \in Workers : st[u] = "copy"
      BY <1>1, <1>2, <2>3 DEF Sound, Busy
    <3>2. content = ContentOf(layer[w])
      BY <2>1, <3>1 DEF FileInv, Backed
    <3>3. \A d \in Layers : UpToDate(d)' => d = layer[w]
      BY <1>1 DEF Orderly, WorkerInv, UpToDate, fileVars
    <3>4. ASSUME NEW v \in Workers, st'[v] = "done"
          PROVE  layer'[v] = layer[w]
      <4>1. st[v] # "idle" /\ st[w] # "idle"
        BY <1>1, <3>4
      <4>. QED
        BY <1>1, <4>1, SameLayer DEF Orderly
    <3>. QED
      BY <2>1, <3>2, <3>3, <3>4
  <2>. QED
    BY <2>2, <2>3 DEF FileInv
<1>. QED
  BY <1>3, <1>4, <1>5 DEF Orderly

\* A worker fails or is killed and leaves no mark.
LEMMA StopOrderly ==
  ASSUME TypeOK, TypeOK', Orderly, NEW w \in Workers, Fail(w) \/ Kill(w), ~spoiled'
  PROVE  Orderly'
<1>. USE DEF Goes
<1>1. /\ st[w] \notin {"idle", "done", "failed"} /\ st'[w] \in {"idle", "failed"} /\ ~Harm(w)
      /\ \A v \in Workers \ {w} : st'[v] = st[v] /\ layer'[v] = layer[v]
      /\ UNCHANGED <<fileVars, remote, copied, intact>>
  BY DEF Fail, Kill, Leaves, TypeOK
<1>2. /\ st'[w] # "idle" => layer'[w] = layer[w] /\ crew' = crew
      /\ st'[w] = "idle" => crew' = IF \A v \in Workers \ {w} : st[v] = "idle" THEN {} ELSE crew
  BY DEF Fail, Kill, Leaves, TypeOK
<1>3. OneLayer'
  BY <1>1, <1>2, OneLayerKept DEF Orderly
<1>4. \A v \in Workers \ {w} : st'[v] = "idle"
  BY <1>1, HarmlessIsAlone DEF Orderly
<1>5. \A v \in Workers : WorkerInv(v)'
  BY <1>1, <1>4 DEF Orderly, WorkerInv
<1>6. FileInv'
  <2>1. \A v \in Workers : ~Busy(v)' /\ st'[v] # "done"
    BY <1>1, <1>4 DEF Busy
  <2>2. \A d \in Layers : UpToDate(d)' => UpToDate(d) /\ content' = content
    BY <1>1 DEF UpToDate, fileVars
  <2>3. \A d \in Layers : UpToDate(d) => content = ContentOf(d)
    BY <1>1, LeftBehind DEF Orderly
  <2>. QED
    BY <2>1, <2>2, <2>3 DEF FileInv
<1>. QED
  BY <1>3, <1>5, <1>6 DEF Orderly

\* A rejected transfer leaves a mark.
LEMMA RejectMarks ==
  ASSUME NEW w \in Workers, Reject(w)
  PROVE  spoiled'
BY DEF Reject, Harm

LEMMA StepOrderly ==
  ASSUME CrewInv, TypeOK', Next, ~spoiled'
  PROVE  Orderly'
<1>1. TypeOK /\ Orderly
  BY SpoiledStays DEF CrewInv
<1>2. PICK w \in Workers : Worker(w)
  BY DEF Next
<1>3. CASE \E d \in Layers, r \in BOOLEAN : Start(w, d, r)
  BY <1>1, <1>3, StartOrderly
<1>4. CASE Check(w) \/ Retry(w) \/ Return(w)
  BY <1>1, <1>4, RestOrderly
<1>5. CASE Create(w)
  BY <1>1, <1>5, CreateOrderly
<1>6. CASE \E good \in BOOLEAN : Copy(w, good)
  BY <1>1, <1>6, CopyOrderly
<1>7. CASE EndCopy(w)
  BY <1>1, <1>7, EndCopyOrderly
<1>8. CASE Restore(w) \/ StampSize(w) \/ StampDigest(w) \/ StampFails(w)
  BY <1>1, <1>8, StampOrderly
<1>9. CASE Accept(w)
  BY <1>1, <1>9, AcceptOrderly
<1>10. CASE Fail(w) \/ Kill(w)
  BY <1>1, <1>10, StopOrderly
<1>11. CASE Reject(w)
  BY <1>11, RejectMarks
<1>. QED
  BY <1>2, <1>3, <1>4, <1>5, <1>6, <1>7, <1>8, <1>9, <1>10, <1>11 DEF Worker

\* Success means that the file holds the layer, for any number of goroutines
\* and commands on it, any versions and sizes, and whatever earlier ones left
\* behind, except after the events that SuccessIsRight names.
THEOREM SuccessMeansTheLayer == Spec => []SuccessIsRight
<1>1. Init /\ TypeOK => CrewInv
  <2>1. ASSUME Init, TypeOK
        PROVE  Orderly
    <3>1. OneLayer
      BY <2>1 DEF Init, OneLayer
    <3>2. \A w \in Workers : WorkerInv(w)
      BY <2>1 DEF Init, WorkerInv
    <3>3. FileInv
      BY <2>1 DEF Init, FileInv, Busy, UpToDate
    <3>. QED
      BY <3>1, <3>2, <3>3 DEF Orderly
  <2>. QED
    BY <2>1 DEF CrewInv
<1>2. CrewInv /\ TypeOK' /\ [Next]_vars => CrewInv'
  <2>1. ASSUME CrewInv, TypeOK', Next
        PROVE  CrewInv'
    BY <2>1, StepOrderly DEF CrewInv
  <2>2. ASSUME CrewInv, TypeOK', UNCHANGED vars
        PROVE  CrewInv'
    <3>1. Orderly => Orderly'
      BY <2>2 DEF Orderly, OneLayer, WorkerInv, FileInv, Busy, Sound, Pieces, Backed, Covers, UpToDate,
                  ContentOf, Prefix, vars, fileVars, workerVars, history
    <3>. QED
      BY <2>2, <3>1 DEF CrewInv, vars, history
  <2>. QED
    BY <2>1, <2>2
<1>3. CrewInv => SuccessIsRight
  <2>1. ASSUME CrewInv, ~spoiled, NEW w \in Workers, st[w] = "done", LeftTo(w)
        PROVE  content = ContentOf(layer[w])
    <3>1. \A v \in Workers : ~Busy(v)
      BY <2>1 DEF LeftTo, Busy
    <3>. QED
      BY <2>1, <3>1 DEF CrewInv, Orderly, FileInv
  <2>. QED
    BY <2>1 DEF SuccessIsRight
<1>. QED
  BY <1>1, <1>2, <1>3, OutputTypeCorrect, PTL DEF Spec
=============================================================================
