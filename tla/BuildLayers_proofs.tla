------------------------- MODULE BuildLayers_proofs -------------------------
(***************************************************************************)
(* Theorems about BuildLayers, for any builds, files, limits and bounds.   *)
(***************************************************************************)
EXTENDS BuildLayers, TLAPS

\* A job is a build and a place in its list of files; the file is one of the
\* workspace.
LEMMA JobShape ==
  \A j \in Jobs : j[1] \in Builds /\ Path(j) \in Paths
<1>. SUFFICES ASSUME NEW j \in Jobs
     PROVE  j[1] \in Builds /\ Path(j) \in Paths
  OBVIOUS
<1>1. PICK b \in Builds : j \in {b} \X DOMAIN Files[b]
  BY DEF Jobs
<1>2. Files[b] \in Seq(Paths)
  BY <1>1, BuildAssumption
<1>3. j[1] = b /\ j[2] \in DOMAIN Files[b]
  BY <1>1
<1>. QED
  BY <1>2, <1>3 DEF Path

\* What a goroutine outputs is a blob of its target.
LEMMA BlobShape ==
  ASSUME NEW j \in Jobs, NEW d \in Versions
  PROVE  Blob(j, d) \in Blobs
<1>1. (j[1] \in Remote) \in BOOLEAN
  OBVIOUS
<1>2. Path(j) \in Paths
  BY JobShape
<1>. QED
  BY <1>1, <1>2 DEF Blob, Blobs

-----------------------------------------------------------------------------
(***************************************************************************)
(* The invariant behind type correctness and LayerIsCurrent: the version a *)
(* goroutine saw is one the file has had, and every digest it holds or the *)
(* cache holds is between the version seen with it and the present one.    *)
(***************************************************************************)

Hashed == {"put", "load", "truncate", "write", "output"}

\* The digest of a cache item is no older than its time and not of the future.
Right(x) == x.mtime <= x.digest /\ x.digest <= version[x.path]

JobCurrent(j) ==
  /\ at[j] \notin {"queued", "done", "failed"} => 1 <= mtime[j] /\ mtime[j] <= version[Path(j)]
  /\ at[j] \in Hashed => mtime[j] <= digest[j] /\ digest[j] <= version[Path(j)]
  /\ \A x \in items[j] : Right(x)

CurrentInv ==
  /\ \A j \in Jobs : JobCurrent(j)
  /\ \A x \in cacheFile : Right(x)

USE DEF cache, jobVars, Goes, AtStep

LEMMA InitInv == Init => TypeOK /\ CurrentInv
<1>. SUFFICES ASSUME Init PROVE TypeOK /\ CurrentInv
  OBVIOUS
<1>1. TypeOK
  <2>1. 1 \in Versions /\ 0 \in 0..Attempts /\ 0 \in 0..MaxVersion /\ 0 \in 0..MaxFailures
    BY BuildAssumption DEF Versions
  <2>. QED
    BY <2>1 DEF Init, TypeOK, Steps
<1>2. \A j \in Jobs : at[j] = "queued" /\ items[j] = {}
  BY DEF Init
<1>3. CurrentInv
  BY <1>2 DEF Init, CurrentInv, JobCurrent, Hashed
<1>. QED
  BY <1>1, <1>3

-----------------------------------------------------------------------------
(* Type correctness, action by action. *)

LEMMA BuildLayerTypeOK ==
  ASSUME TypeOK, NEW j \in Jobs, BuildLayer(j)
  PROVE  /\ at' \in [Jobs -> Steps]
         /\ mtime' \in [Jobs -> 0..MaxVersion]
         /\ digest' \in [Jobs -> 0..MaxVersion]
BY JobShape, BuildAssumption DEF TypeOK, BuildLayer, Steps, Versions

LEMMA CacheTypeOK ==
  ASSUME TypeOK, CurrentInv, NEW j \in Jobs, UseCache(j)
  PROVE  TypeOK'
<1>. USE DEF TypeOK, Steps, Critical
<1>1. j[1] \in Builds /\ Path(j) \in Paths
  BY JobShape
<1>2. CASE LockForGet(j) \/ LockForPut(j)
  BY <1>1, <1>2 DEF LockForGet, LockForPut, Lock
<1>3. CASE LeaveCache(j)
  BY <1>3 DEF LeaveCache
<1>4. CASE Lookup(j)
  <2>1. \A x \in Fresh(j) : x.digest \in 0..MaxVersion
    BY DEF Fresh, Items, Versions
  <2>2. digest' \in [Jobs -> 0..MaxVersion]
    BY <1>4, <2>1 DEF Lookup
  <2>. QED
    BY <1>1, <1>4, <2>2 DEF Lookup, Unlock
<1>5. CASE Load(j)
  BY <1>1, <1>5, ZenonT(60) DEF Load, Unlock
<1>6. CASE Truncate(j)
  BY <1>6 DEF Truncate
<1>7. CASE Write(j)
  <2>1. mtime[j] \in Versions /\ digest[j] \in Versions
    BY <1>1, <1>7 DEF Write, CurrentInv, JobCurrent, Hashed, Versions
  <2>2. NewItem(j) \in Items
    BY <1>1, <2>1 DEF NewItem, Items
  <2>3. cacheFile' \subseteq Items
    BY <1>7, <2>2 DEF Write
  <2>. QED
    BY <1>1, <1>7, <2>3 DEF Write, Unlock
<1>. QED
  BY <1>2, <1>3, <1>4, <1>5, <1>6, <1>7 DEF UseCache

LEMMA TypeStep ==
  ASSUME TypeOK, CurrentInv, [Next]_vars
  PROVE  TypeOK'
<1>1. ASSUME NEW j \in Jobs, Advance(j)
      PROVE  TypeOK'
  <2>. USE JobShape, BuildAssumption DEF TypeOK
  <2>1. version[Path(j)] \in Versions /\ Versions \subseteq 0..MaxVersion
    BY DEF Versions
  <2>2. CASE Dispatch(j)
    BY <2>2, BuildLayerTypeOK, SMTT(30) DEF Dispatch
  <2>3. CASE UseCache(j)
    BY <1>1, <2>3, CacheTypeOK
  <2>4. CASE Hash(j)
    BY <2>1, <2>4 DEF Hash, Steps
  <2>5. CASE OutputLocal(j)
    <3>1. stored' \subseteq Blobs
      BY <2>1, <2>5, BlobShape DEF OutputLocal
    <3>2. digest' \in [Jobs -> 0..MaxVersion]
      BY <2>1, <2>5 DEF OutputLocal
    <3>. QED
      BY <2>5, <3>1, <3>2 DEF OutputLocal, Forgets, Steps
  <2>6. CASE OutputRemote(j)
    <3>1. at[j] = "output"
      BY <2>6 DEF OutputRemote
    <3>2. 1 <= digest[j] /\ digest[j] <= MaxVersion
      <4>1. JobCurrent(j)
        BY DEF CurrentInv
      <4>2. 1 <= mtime[j] /\ mtime[j] <= digest[j] /\ digest[j] <= version[Path(j)]
        BY <3>1, <4>1 DEF JobCurrent, Hashed
      <4>. QED
        BY <2>1, <4>2 DEF Versions
    <3>3. digest[j] \in Versions
      BY <3>2 DEF Versions
    <3>. QED
      BY <2>6, <3>3, BlobShape DEF OutputRemote, Forgets, Steps
  <2>7. CASE Retry(j)
    <3>1. tries' \in [Jobs -> 0..Attempts]
      BY <2>7 DEF Retry
    <3>2. failures' \in 0..MaxFailures
      BY <2>7 DEF Retry, Fails
    <3>. QED
      BY <2>7, <3>1, <3>2, BuildLayerTypeOK DEF Retry
  <2>8. CASE GiveUp(j)
    <3>1. failures' \in 0..MaxFailures
      BY <2>8 DEF GiveUp, Fails
    <3>. QED
      BY <2>8, <3>1 DEF GiveUp, Forgets, Steps
  <2>. QED
    BY <1>1, <2>2, <2>3, <2>4, <2>5, <2>6, <2>7, <2>8 DEF Advance
<1>2. ASSUME NEW b \in Builds, Return(b)
      PROVE  TypeOK'
  BY <1>2 DEF TypeOK, Return, Cancelled
<1>3. ASSUME NEW b \in Builds, Kill(b)
      PROVE  TypeOK'
  <2>1. garbled' \in BOOLEAN
    BY <1>3 DEF TypeOK, Kill
  <2>2. 0 \in 0..MaxVersion /\ 0 \in 0..Attempts
    BY BuildAssumption
  <2>3. /\ at' \in [Jobs -> Steps] /\ tries' \in [Jobs -> 0..Attempts]
        /\ mtime' \in [Jobs -> 0..MaxVersion] /\ digest' \in [Jobs -> 0..MaxVersion]
        /\ items' \in [Jobs -> SUBSET Items]
    BY <1>3, <2>2 DEF TypeOK, Kill, Steps
  <2>4. group' \in [Builds -> {"running", "ok", "error", "killed"}] /\ locked' \in [Builds -> BOOLEAN]
    BY <1>3 DEF TypeOK, Kill
  <2>. QED
    BY <1>3, <2>1, <2>3, <2>4 DEF TypeOK, Kill
<1>4. ASSUME NEW p \in Paths, Edit(p)
      PROVE  TypeOK'
  <2>1. version' \in [Paths -> Versions]
    BY <1>4, BuildAssumption DEF TypeOK, Edit, Versions
  <2>. QED
    BY <1>4, <2>1 DEF TypeOK, Edit
<1>5. CASE UNCHANGED vars
  BY <1>5 DEF TypeOK, vars
<1>. QED
  BY <1>1, <1>2, <1>3, <1>4, <1>5 DEF Next, Work

-----------------------------------------------------------------------------
(* CurrentInv, action by action. *)

\* What a goroutine holds stays current while only versions grow.
LEMMA JobStaysCurrent ==
  ASSUME TypeOK, NEW k \in Jobs, JobCurrent(k),
         at'[k] = at[k], mtime'[k] = mtime[k], digest'[k] = digest[k], items'[k] = items[k],
         version' = version
  PROVE  JobCurrent(k)'
BY DEF JobCurrent, Right, Path

\* A step of one goroutine that keeps the versions and the cache only has to
\* show that it is current itself.
LEMMA OneJobMoves ==
  ASSUME TypeOK, CurrentInv, NEW j \in Jobs, JobCurrent(j)',
         version' = version, \A x \in cacheFile' : Right(x),
         \A k \in Jobs \ {j} : /\ at'[k] = at[k] /\ mtime'[k] = mtime[k]
                              /\ digest'[k] = digest[k] /\ items'[k] = items[k]
  PROVE  CurrentInv'
<1>1. ASSUME NEW k \in Jobs \ {j} PROVE JobCurrent(k)'
  BY JobStaysCurrent DEF CurrentInv
<1>2. \A x \in cacheFile' : Right(x)'
  BY DEF Right
<1>. QED
  BY <1>1, <1>2 DEF CurrentInv

\* BuildLayer begins a new attempt with the present version.
LEMMA BuildLayerCurrent ==
  ASSUME TypeOK, CurrentInv, NEW j \in Jobs, BuildLayer(j),
         UNCHANGED <<version, cacheFile, items>>
  PROVE  CurrentInv'
<1>1. version[Path(j)] \in Nat /\ 1 <= version[Path(j)]
  BY JobShape DEF TypeOK, Versions
<1>2. at'[j] \in {"get", "hash"} /\ mtime'[j] = version[Path(j)]
  BY DEF TypeOK, BuildLayer
<1>3. JobCurrent(j)'
  BY <1>1, <1>2 DEF CurrentInv, JobCurrent, Hashed, Right, Path
<1>4. \A x \in cacheFile' : Right(x)
  BY DEF CurrentInv
<1>. QED
  BY <1>3, <1>4, OneJobMoves DEF TypeOK, BuildLayer

LEMMA CacheCurrent ==
  ASSUME TypeOK, CurrentInv, NEW j \in Jobs, UseCache(j)
  PROVE  CurrentInv'
<1>. USE DEF TypeOK
<1>1. JobCurrent(j) /\ \A x \in cacheFile : Right(x)
  BY DEF CurrentInv
<1>2. CASE LockForGet(j) \/ LockForPut(j)
  <2>1. JobCurrent(j)'
    BY <1>1, <1>2 DEF LockForGet, LockForPut, Lock, JobCurrent, Hashed, Right, Path
  <2>. QED
    BY <1>1, <1>2, <2>1, OneJobMoves DEF LockForGet, LockForPut, Lock
<1>3. CASE LeaveCache(j)
  <2>1. JobCurrent(j)'
    BY <1>1, <1>3 DEF LeaveCache, JobCurrent, Hashed, Right, Path
  <2>. QED
    BY <1>1, <1>3, <2>1, OneJobMoves DEF LeaveCache
<1>4. CASE Lookup(j)
  <2>1. \A x \in Fresh(j) : mtime[j] <= x.digest /\ x.digest <= version[Path(j)]
    BY <1>1 DEF Fresh, Right
  <2>2. JobCurrent(j)'
    BY <1>1, <1>4, <2>1 DEF Lookup, JobCurrent, Hashed, Right, Path
  <2>. QED
    BY <1>1, <1>4, <2>2, OneJobMoves DEF Lookup
<1>5. CASE Load(j)
  <2>1. JobCurrent(j)'
    BY <1>1, <1>5 DEF Load, JobCurrent, Hashed, Right, Path
  <2>. QED
    BY <1>1, <1>5, <2>1, OneJobMoves DEF Load
<1>6. CASE Truncate(j)
  <2>1. JobCurrent(j)'
    BY <1>1, <1>6 DEF Truncate, JobCurrent, Hashed, Right, Path
  <2>. QED
    BY <1>6, <2>1, OneJobMoves DEF Truncate
<1>7. CASE Write(j)
  <2>1. Right(NewItem(j))
    BY <1>1, <1>7 DEF Write, NewItem, JobCurrent, Hashed, Right
  <2>2. \A x \in cacheFile' : Right(x)
    BY <1>1, <1>7, <2>1 DEF Write, JobCurrent
  <2>3. JobCurrent(j)'
    BY <1>1, <1>7 DEF Write, JobCurrent, Hashed, Right, Path
  <2>. QED
    BY <1>7, <2>2, <2>3, OneJobMoves DEF Write
<1>. QED
  BY <1>2, <1>3, <1>4, <1>5, <1>6, <1>7 DEF UseCache

LEMMA CurrentStep ==
  ASSUME TypeOK, CurrentInv, [Next]_vars
  PROVE  CurrentInv'
<1>. USE DEF TypeOK
<1>1. ASSUME NEW j \in Jobs, Advance(j)
      PROVE  CurrentInv'
  <2>1. JobCurrent(j) /\ \A x \in cacheFile : Right(x)
    BY DEF CurrentInv
  <2>2. CASE Dispatch(j)
    BY <2>2, BuildLayerCurrent DEF Dispatch
  <2>3. CASE UseCache(j)
    BY <2>3, CacheCurrent
  <2>4. CASE Hash(j)
    <3>1. version[Path(j)] \in Nat
      BY JobShape DEF Versions
    <3>2. JobCurrent(j)'
      BY <2>1, <2>4, <3>1 DEF Hash, JobCurrent, Hashed, Right, Path
    <3>. QED
      BY <2>1, <2>4, <3>2, OneJobMoves DEF Hash
  <2>5. CASE OutputLocal(j)
    <3>1. JobCurrent(j)'
      BY <2>1, <2>5 DEF OutputLocal, Forgets, JobCurrent, Hashed, Right, Path
    <3>. QED
      BY <2>1, <2>5, <3>1, OneJobMoves DEF OutputLocal, Forgets
  <2>6. CASE OutputRemote(j)
    <3>1. JobCurrent(j)'
      BY <2>1, <2>6 DEF OutputRemote, Forgets, JobCurrent, Hashed, Right, Path
    <3>. QED
      BY <2>1, <2>6, <3>1, OneJobMoves DEF OutputRemote, Forgets
  <2>7. CASE Retry(j)
    BY <2>7, BuildLayerCurrent DEF Retry
  <2>8. CASE GiveUp(j)
    <3>1. JobCurrent(j)'
      BY <2>1, <2>8 DEF GiveUp, Forgets, JobCurrent, Hashed, Right, Path
    <3>. QED
      BY <2>1, <2>8, <3>1, OneJobMoves DEF GiveUp, Forgets
  <2>. QED
    BY <1>1, <2>2, <2>3, <2>4, <2>5, <2>6, <2>7, <2>8 DEF Advance
<1>2. ASSUME NEW b \in Builds, Return(b)
      PROVE  CurrentInv'
  BY <1>2 DEF Return, CurrentInv, JobCurrent, Right, Path
<1>3. ASSUME NEW b \in Builds, Kill(b)
      PROVE  CurrentInv'
  <2>1. ASSUME NEW k \in Jobs PROVE JobCurrent(k)'
    <3>1. CASE k[1] = b
      BY <1>3, <3>1 DEF Kill, JobCurrent, Hashed
    <3>2. CASE k[1] # b
      BY <1>3, <3>2, JobStaysCurrent DEF Kill, CurrentInv
    <3>. QED
      BY <3>1, <3>2
  <2>. QED
    BY <1>3, <2>1 DEF Kill, CurrentInv, Right
<1>4. ASSUME NEW p \in Paths, Edit(p)
      PROVE  CurrentInv'
  <2>1. \A q \in Paths : version[q] \in Nat /\ version'[q] \in Nat /\ version[q] <= version'[q]
    BY <1>4, BuildAssumption DEF Edit, Versions
  <2>2. \A x \in Items : Right(x) => Right(x)'
    BY <2>1 DEF Right, Items, Versions
  <2>3. ASSUME NEW k \in Jobs PROVE JobCurrent(k)'
    <3>1. JobCurrent(k) /\ Path(k) \in Paths /\ items[k] \subseteq Items
      BY JobShape DEF CurrentInv
    <3>2. mtime[k] \in Nat /\ digest[k] \in Nat
      BY BuildAssumption
    <3>. QED
      BY <1>4, <2>1, <2>2, <3>1, <3>2 DEF Edit, JobCurrent, Path
  <2>. QED
    BY <1>4, <2>2, <2>3 DEF Edit, CurrentInv
<1>5. CASE UNCHANGED vars
  BY <1>5 DEF vars, CurrentInv, JobCurrent, Right, Path
<1>. QED
  BY <1>1, <1>2, <1>3, <1>4, <1>5 DEF Next, Work

\* The invariant holds in every reachable state.
THEOREM BuildInvariant == Spec => [](TypeOK /\ CurrentInv)
<1>1. Init => TypeOK /\ CurrentInv
  BY InitInv
<1>2. TypeOK /\ CurrentInv /\ [Next]_vars => (TypeOK /\ CurrentInv)'
  BY TypeStep, CurrentStep
<1>. QED
  BY <1>1, <1>2, PTL DEF Spec

\* Every variable of the build keeps its type.
THEOREM BuildTypeCorrect == Spec => []TypeOK
BY BuildInvariant, PTL

\* The digest a layer is output with is never one from before the attempt
\* that builds it, for any number of builds that share the cache file and
\* however it was damaged.
THEOREM LayersAreCurrent == Spec => []LayerIsCurrent
<1>1. CurrentInv => LayerIsCurrent
  BY DEF CurrentInv, JobCurrent, Hashed, LayerIsCurrent
<1>. QED
  BY <1>1, BuildInvariant, PTL

-----------------------------------------------------------------------------
(* Use of the lock. *)

\* Locked is released by whoever ends its use of the cache file, and a group
\* does not return while a goroutine uses it.
LEMMA LockStep ==
  ASSUME TypeOK, LockInUse, [Next]_vars
  PROVE  LockInUse'
<1>. USE DEF TypeOK
<1>1. ASSUME NEW j \in Jobs, Advance(j)
      PROVE  LockInUse'
  <2>. SUFFICES ASSUME NEW b \in Builds, locked'[b]
                PROVE  /\ group'[b] = "running"
                       /\ \E k \in JobsOf(b) : at'[k] \in Critical
    BY DEF LockInUse, JobsOf
  <2>. USE DEF JobsOf, Critical
  <2>1. group' = group
    BY <1>1 DEF Advance, UseCache, Dispatch, LockForGet, LockForPut, Lock, LeaveCache, Lookup,
                Load, Truncate, Write, Hash, OutputLocal, OutputRemote, Retry, GiveUp
  <2>2. CASE LockForGet(j) \/ LockForPut(j)
    <3>1. CASE b = j[1]
      BY <2>2, <3>1 DEF LockForGet, LockForPut, Lock
    <3>2. CASE b # j[1]
      BY <2>2, <3>2 DEF LockForGet, LockForPut, Lock, LockInUse
    <3>. QED
      BY <3>1, <3>2
  <2>3. CASE Lookup(j) \/ Write(j) \/ (Load(j) /\ locked' # locked)
    <3>1. b # j[1] /\ locked[b]
      BY <2>3 DEF Lookup, Write, Load, Unlock
    <3>2. \A k \in Jobs \ {j} : at'[k] = at[k]
      BY <2>3 DEF Lookup, Write, Load
    <3>. QED
      BY <2>1, <3>1, <3>2 DEF LockInUse
  <2>4. CASE Load(j) /\ locked' = locked
    BY <2>1, <2>4 DEF Load, Unlock, LockInUse
  <2>5. CASE Truncate(j)
    BY <2>5 DEF Truncate, LockInUse
  <2>6. CASE \/ Dispatch(j) \/ LeaveCache(j) \/ Hash(j)
             \/ OutputLocal(j) \/ OutputRemote(j) \/ Retry(j) \/ GiveUp(j)
    <3>1. locked' = locked /\ at[j] \notin Critical /\ \A k \in Jobs \ {j} : at'[k] = at[k]
      BY <2>6 DEF Dispatch, BuildLayer, LeaveCache, Hash, OutputLocal, OutputRemote, Retry,
                  GiveUp, Fails, Refused
    <3>. QED
      BY <2>1, <3>1 DEF LockInUse
  <2>. QED
    BY <1>1, <2>2, <2>3, <2>4, <2>5, <2>6 DEF Advance, UseCache
<1>2. ASSUME NEW b \in Builds, Return(b)
      PROVE  LockInUse'
  <2>1. \A k \in JobsOf(b) : at[k] \notin Critical
    BY <1>2 DEF Return, Busy, Ended, Critical
  <2>2. ~locked[b]
    BY <2>1 DEF LockInUse
  <2>. QED
    BY <1>2, <2>2 DEF Return, LockInUse, JobsOf
<1>3. ASSUME NEW b \in Builds, Kill(b)
      PROVE  LockInUse'
  BY <1>3 DEF Kill, LockInUse, JobsOf
<1>4. ASSUME NEW p \in Paths, Edit(p)
      PROVE  LockInUse'
  BY <1>4 DEF Edit, LockInUse, JobsOf
<1>5. CASE UNCHANGED vars
  BY <1>5 DEF vars, LockInUse, JobsOf
<1>. QED
  BY <1>1, <1>2, <1>3, <1>4, <1>5 DEF Next, Work

\* No process keeps the file lock when none of its goroutines uses the cache
\* file, whatever errors and kills came in between.
THEOREM LockOnlyInUse == Spec => []LockInUse
<1>1. Init => LockInUse
  BY DEF Init, LockInUse
<1>2. TypeOK /\ LockInUse /\ [Next]_vars => LockInUse'
  BY LockStep
<1>. QED
  BY <1>1, <1>2, BuildTypeCorrect, PTL DEF Spec

-----------------------------------------------------------------------------
(* Complete groups. *)

\* A goroutine that is done has stored its blob, and a group that reported
\* success has no other goroutines.
StoredInv ==
  /\ \A j \in Jobs : at[j] = "done" => Blob(j, digest[j]) \in stored
  /\ \A b \in Builds : group[b] = "ok" => \A j \in JobsOf(b) : at[j] = "done"

LEMMA StoredStep ==
  ASSUME TypeOK, StoredInv, [Next]_vars
  PROVE  StoredInv'
<1>. USE DEF TypeOK, JobsOf
<1>1. ASSUME NEW j \in Jobs, Advance(j)
      PROVE  StoredInv'
  <2>1. /\ group' = group /\ group[j[1]] = "running" /\ stored \subseteq stored'
        /\ \A k \in Jobs \ {j} : at'[k] = at[k] /\ digest'[k] = digest[k]
    BY <1>1 DEF Advance, UseCache, Dispatch, BuildLayer, LockForGet, LockForPut, Lock,
                LeaveCache, Lookup, Load, Truncate, Write, Hash, OutputLocal, OutputRemote,
                Retry, GiveUp, Fails, Refused
  <2>2. at'[j] = "done" => Blob(j, digest'[j]) \in stored'
    BY <1>1 DEF Advance, UseCache, Dispatch, BuildLayer, LockForGet, LockForPut, Lock,
                LeaveCache, Lookup, Load, Truncate, Write, Hash, OutputLocal, OutputRemote,
                Retry, GiveUp, Blob, Path
  <2>. QED
    BY <2>1, <2>2 DEF StoredInv, Blob, Path
<1>2. ASSUME NEW b \in Builds, Return(b)
      PROVE  StoredInv'
  <2>1. group'[b] = "ok" => \A k \in JobsOf(b) : at[k] = "done"
    BY <1>2 DEF Return, Cancelled, Ended
  <2>. QED
    BY <1>2, <2>1 DEF Return, StoredInv, Blob, Path
<1>3. ASSUME NEW b \in Builds, Kill(b)
      PROVE  StoredInv'
  BY <1>3 DEF Kill, StoredInv, Blob, Path
<1>4. ASSUME NEW p \in Paths, Edit(p)
      PROVE  StoredInv'
  BY <1>4 DEF Edit, StoredInv, Blob, Path
<1>5. CASE UNCHANGED vars
  BY <1>5 DEF vars, StoredInv, Blob, Path
<1>. QED
  BY <1>1, <1>2, <1>3, <1>4, <1>5 DEF Next, Work

\* A build that reports success has stored a blob for each of its files.
THEOREM GroupsAreComplete == Spec => []GroupComplete
<1>1. Init => StoredInv
  BY DEF Init, StoredInv
<1>2. TypeOK /\ StoredInv /\ [Next]_vars => StoredInv'
  BY StoredStep
<1>3. StoredInv => GroupComplete
  BY DEF StoredInv, GroupComplete, JobsOf
<1>. QED
  BY <1>1, <1>2, <1>3, BuildTypeCorrect, PTL DEF Spec
=============================================================================
