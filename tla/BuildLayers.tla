---------------------------- MODULE BuildLayers ----------------------------
(***************************************************************************)
(* How build, attach and upload make layers from the files of a workspace  *)
(* (pkg/backend/processor/base.go, pkg/backend/build/builder.go): a group  *)
(* of goroutines, one per matched file and at most Concurrency at a time,  *)
(* each retried up to Attempts times, with the digests of raw weights kept *)
(* in a cache file that all modctl processes of the machine share          *)
(* (internal/cache/cache.go).  Files may be edited while they are built.   *)
(*                                                                         *)
(* The cache file is guarded by a file lock.  The lock object belongs to   *)
(* the process: a goroutine that asks for it while another goroutine of    *)
(* the same process has it is told that it is locked, and the first of the *)
(* two to finish unlocks it for both.                                      *)
(***************************************************************************)
EXTENDS FiniteSets, Naturals, Sequences

CONSTANTS
  Builds,       \* modctl processes
  Paths,        \* files of the workspace
  Files,        \* per build, the files its patterns match, sorted; a file
                \* that two patterns match is there twice
  RawWeights,   \* builds whose files are raw weights: only they use the cache
  Remote,       \* builds with --output-remote (and upload)
  Killable,     \* builds that may be killed
  Concurrency,  \* the limit of the group
  Attempts,     \* of retry.Do, 6 in the code
  MaxVersion,   \* bound on the edits of a file
  MaxFailures   \* bound on the failing reads and outputs

ASSUME BuildAssumption ==
  /\ Files \in [Builds -> Seq(Paths)]
  /\ RawWeights \subseteq Builds /\ Remote \subseteq Builds /\ Killable \subseteq Builds
  /\ Concurrency \in Nat \ {0}
  /\ Attempts \in Nat \ {0}
  /\ MaxVersion \in Nat \ {0}
  /\ MaxFailures \in Nat

Jobs     == UNION {{b} \X DOMAIN Files[b] : b \in Builds}
Path(j)  == Files[j[1]][j[2]]
Versions == 1..MaxVersion
Items    == [path : Paths, mtime : Versions, digest : Versions]

VARIABLES
  version,      \* of each file; stands for its modification time and content
  stored,       \* the versions of files that the local storage (FALSE) and the registry
                \* (TRUE) have as blobs
  cacheFile,    \* the items of the cache file
  garbled,      \* it does not parse
  locked,       \* whether a process's lock object holds the file lock
  group,        \* per build: running, or how it ended
  at,           \* the step of each goroutine
  tries,        \* the attempts it has begun
  mtime,        \* the version it saw with os.Stat
  digest,       \* the version it computed or looked up the digest of
  items,        \* the cache items it has read
  failures      \* so far

jobVars == <<at, tries, mtime, digest, items>>
cache   == <<cacheFile, garbled>>
vars    == <<version, stored, cache, locked, group, jobVars, failures>>

Critical == {"lookup", "load", "truncate", "write"}   \* between Lock and Unlock
Steps    == Critical \cup {"queued", "get", "hash", "put", "output", "done", "failed"}

Blobs == BOOLEAN \X Paths \X Versions

TypeOK ==
  /\ version \in [Paths -> Versions]
  /\ stored \subseteq Blobs
  /\ cacheFile \subseteq Items
  /\ garbled \in BOOLEAN
  /\ locked \in [Builds -> BOOLEAN]
  /\ group \in [Builds -> {"running", "ok", "error", "killed"}]
  /\ at \in [Jobs -> Steps]
  /\ tries \in [Jobs -> 0..Attempts]
  /\ mtime \in [Jobs -> 0..MaxVersion]
  /\ digest \in [Jobs -> 0..MaxVersion]
  /\ items \in [Jobs -> SUBSET Items]
  /\ failures \in 0..MaxFailures

Init ==
  /\ version = [p \in Paths |-> 1]
  /\ stored = {}
  /\ cacheFile = {}
  /\ garbled = FALSE
  /\ locked = [b \in Builds |-> FALSE]
  /\ group = [b \in Builds |-> "running"]
  /\ at = [j \in Jobs |-> "queued"]
  /\ tries = [j \in Jobs |-> 0]
  /\ mtime = [j \in Jobs |-> 0]
  /\ digest = [j \in Jobs |-> 0]
  /\ items = [j \in Jobs |-> {}]
  /\ failures = 0

-----------------------------------------------------------------------------
JobsOf(b)    == {j \in Jobs : j[1] = b}
Ended(j)     == at[j] \in {"done", "failed"}
Busy(b)      == {j \in JobsOf(b) : at[j] # "queued" /\ ~Ended(j)}
Cancelled(b) == \E j \in JobsOf(b) : at[j] = "failed"

\* The goroutine is alive and at step s.
AtStep(j, s) == group[j[1]] = "running" /\ at[j] = s
Goes(j, s) == at' = [at EXCEPT ![j] = s]

\* BuildLayer: os.Stat and Encode, then the digest.
BuildLayer(j) ==
  /\ mtime' = [mtime EXCEPT ![j] = version[Path(j)]]
  /\ digest' = [digest EXCEPT ![j] = 0]
  /\ Goes(j, IF j[1] \in RawWeights THEN "get" ELSE "hash")

\* The loop over the matched files: in order, blocking at the limit, left
\* when a file has failed.
Dispatch(j) ==
  /\ AtStep(j, "queued")
  /\ \A k \in JobsOf(j[1]) : k[2] < j[2] => at[k] # "queued"
  /\ Cardinality(Busy(j[1])) < Concurrency
  /\ ~Cancelled(j[1])
  /\ BuildLayer(j)
  /\ tries' = [tries EXCEPT ![j] = 1]
  /\ UNCHANGED <<version, stored, cache, locked, group, items, failures>>

\* TryLockContext answers at once when this process has the lock, and polls
\* while another one has it.
Available(b) == \A c \in Builds \ {b} : ~locked[c]

Lock(j, from, to) ==
  /\ AtStep(j, from)
  /\ Available(j[1])
  /\ locked' = [locked EXCEPT ![j[1]] = TRUE]
  /\ Goes(j, to)
  /\ UNCHANGED <<version, stored, cache, group, tries, mtime, digest, items, failures>>

LockForGet(j) == Lock(j, "get", "lookup")
LockForPut(j) == Lock(j, "put", "load")

\* The group's context is cancelled: the cache answers with an error, which
\* counts as a miss.
LeaveCache(j) ==
  /\ Cancelled(j[1])
  /\ \/ AtStep(j, "get") /\ Goes(j, "hash")
     \/ AtStep(j, "put") /\ Goes(j, "output")
  /\ UNCHANGED <<version, stored, cache, locked, group, tries, mtime, digest, items, failures>>

Unlock(j) == locked' = [locked EXCEPT ![j[1]] = FALSE]

\* Wrong variant: the item is used whatever its modification time.
AnyAge(j) == {x \in cacheFile : x.path = Path(j)}

\* The items that make a hit.
Fresh(j) == {x \in cacheFile : x.path = Path(j) /\ x.mtime = mtime[j]}

\* Get: an item older than its TTL is not found, and a file that does not
\* parse is an error, which the builder takes for a miss.
Lookup(j) ==
  /\ AtStep(j, "lookup")
  /\ \/ /\ ~garbled
        /\ \E x \in Fresh(j) : digest' = [digest EXCEPT ![j] = x.digest]
        /\ Goes(j, "output")
     \/ Goes(j, "hash") /\ UNCHANGED digest
  /\ Unlock(j)
  /\ UNCHANGED <<version, stored, cache, group, tries, mtime, items, failures>>

\* The content is read; a tar stream is encoded a second time afterwards.
Hash(j) ==
  /\ AtStep(j, "hash")
  /\ digest' = [digest EXCEPT ![j] = version[Path(j)]]
  /\ Goes(j, IF j[1] \in RawWeights THEN "put" ELSE "output")
  /\ UNCHANGED <<version, stored, cache, locked, group, tries, mtime, items, failures>>

-----------------------------------------------------------------------------
(***************************************************************************)
(* Put: read the items, truncate the file, write them back with the new    *)
(* one and without the expired ones.                                       *)
(***************************************************************************)

\* Wrong variant: the error return is taken with the lock held.
LoadKeepsLock(j) ==
  /\ AtStep(j, "load")
  /\ IF garbled
     THEN Goes(j, "output") /\ UNCHANGED <<locked, items>>
     ELSE /\ items' = [items EXCEPT ![j] = cacheFile]
          /\ Goes(j, "truncate")
          /\ UNCHANGED locked
  /\ UNCHANGED <<version, stored, cache, group, tries, mtime, digest, failures>>

Load(j) ==
  /\ AtStep(j, "load")
  /\ IF garbled
     THEN Goes(j, "output") /\ Unlock(j) /\ UNCHANGED items
     ELSE /\ items' = [items EXCEPT ![j] = cacheFile]
          /\ Goes(j, "truncate")
          /\ UNCHANGED locked
  /\ UNCHANGED <<version, stored, cache, group, tries, mtime, digest, failures>>

\* os.WriteFile opens the file with O_TRUNC, ...
Truncate(j) ==
  /\ AtStep(j, "truncate")
  /\ cacheFile' = {}
  /\ garbled' = FALSE
  /\ Goes(j, "write")
  /\ UNCHANGED <<version, stored, locked, group, tries, mtime, digest, items, failures>>

NewItem(j) == [path |-> Path(j), mtime |-> mtime[j], digest |-> digest[j]]

\* ... then writes from the start: over what somebody has written since, the
\* tail of which remains if it was longer.
Write(j) ==
  /\ AtStep(j, "write")
  /\ \E live \in SUBSET {x \in items[j] : x.path # Path(j)} :
       cacheFile' = live \cup {NewItem(j)}
  /\ garbled' \in {FALSE, garbled \/ cacheFile # {}}
  /\ items' = [items EXCEPT ![j] = {}]
  /\ Unlock(j)
  /\ Goes(j, "output")
  /\ UNCHANGED <<version, stored, group, tries, mtime, digest, failures>>

-----------------------------------------------------------------------------
\* A goroutine that ends leaves nothing but its descriptor.
Forgets(j) ==
  /\ tries' = [tries EXCEPT ![j] = 0]
  /\ mtime' = [mtime EXCEPT ![j] = 0]

\* The blob of a goroutine with digest d, where its build outputs to.
Blob(j, d) == <<j[1] \in Remote, Path(j), d>>

\* Local output stores whatever the file contains now, under its own digest.
OutputLocal(j) ==
  /\ AtStep(j, "output")
  /\ j[1] \notin Remote
  /\ digest' = [digest EXCEPT ![j] = version[Path(j)]]
  /\ stored' = stored \cup {Blob(j, version[Path(j)])}
  /\ Goes(j, "done")
  /\ Forgets(j)
  /\ UNCHANGED <<version, cache, locked, group, items, failures>>

Refused(j) ==
  /\ AtStep(j, "output") /\ j[1] \in Remote
  /\ Blob(j, digest[j]) \notin stored /\ version[Path(j)] # digest[j]

\* Remote output skips a digest the registry has; the registry refuses
\* content that does not match the digest.
OutputRemote(j) ==
  /\ AtStep(j, "output")
  /\ j[1] \in Remote
  /\ ~Refused(j)
  /\ stored' = stored \cup {Blob(j, digest[j])}
  /\ Goes(j, "done")
  /\ Forgets(j)
  /\ UNCHANGED <<version, cache, locked, group, digest, items, failures>>

\* Reading the file or the output fails.
Fails(j) ==
  \/ Refused(j) /\ UNCHANGED failures
  \/ /\ AtStep(j, "hash") \/ AtStep(j, "output")
     /\ failures < MaxFailures
     /\ failures' = failures + 1

\* Wrong variant: the attempts are not limited.
RetryForever(j) ==
  /\ ~Cancelled(j[1])
  /\ Fails(j)
  /\ BuildLayer(j)
  /\ tries' = [tries EXCEPT ![j] = @ + 1]
  /\ UNCHANGED <<version, stored, cache, locked, group, items>>

\* All of BuildLayer is tried again ...
Retry(j) ==
  /\ tries[j] < Attempts
  /\ ~Cancelled(j[1])
  /\ Fails(j)
  /\ BuildLayer(j)
  /\ tries' = [tries EXCEPT ![j] = @ + 1]
  /\ UNCHANGED <<version, stored, cache, locked, group, items>>

\* ... until the attempts are used up or another file has failed, which
\* cancels the context of this one.
GiveUp(j) ==
  /\ \/ tries[j] = Attempts /\ Fails(j)
     \/ /\ AtStep(j, "hash") \/ AtStep(j, "output")
        /\ Cancelled(j[1])
        /\ UNCHANGED failures
  /\ Goes(j, "failed")
  /\ Forgets(j)
  /\ digest' = [digest EXCEPT ![j] = 0]
  /\ UNCHANGED <<version, stored, cache, locked, group, items>>

\* Wrong variant: what the goroutines return is ignored.
ReturnOk(b) ==
  /\ group[b] = "running"
  /\ Busy(b) = {}
  /\ Cancelled(b) \/ \A j \in JobsOf(b) : Ended(j)
  /\ group' = [group EXCEPT ![b] = "ok"]
  /\ UNCHANGED <<version, stored, cache, locked, jobVars, failures>>

\* Wrong variant: files that are not taken up any more are waited for.
ReturnAfterAll(b) ==
  /\ group[b] = "running"
  /\ \A j \in JobsOf(b) : Ended(j)
  /\ group' = [group EXCEPT ![b] = IF Cancelled(b) THEN "error" ELSE "ok"]
  /\ UNCHANGED <<version, stored, cache, locked, jobVars, failures>>

\* eg.Wait.
Return(b) ==
  /\ group[b] = "running"
  /\ Busy(b) = {}
  /\ Cancelled(b) \/ \A j \in JobsOf(b) : Ended(j)
  /\ group' = [group EXCEPT ![b] = IF Cancelled(b) THEN "error" ELSE "ok"]
  /\ UNCHANGED <<version, stored, cache, locked, jobVars, failures>>

\* The process dies: the file lock goes with it, a cache file it was writing
\* may be left in part.
Kill(b) ==
  /\ b \in Killable
  /\ group[b] = "running"
  /\ group' = [group EXCEPT ![b] = "killed"]
  /\ locked' = [locked EXCEPT ![b] = FALSE]
  /\ garbled' \in {garbled, garbled \/ \E j \in JobsOf(b) : at[j] = "write"}
  /\ at' = [j \in Jobs |-> IF j[1] = b THEN "queued" ELSE at[j]]
  /\ tries' = [j \in Jobs |-> IF j[1] = b THEN 0 ELSE tries[j]]
  /\ mtime' = [j \in Jobs |-> IF j[1] = b THEN 0 ELSE mtime[j]]
  /\ digest' = [j \in Jobs |-> IF j[1] = b THEN 0 ELSE digest[j]]
  /\ items' = [j \in Jobs |-> IF j[1] = b THEN {} ELSE items[j]]
  /\ UNCHANGED <<version, stored, cacheFile, failures>>

Edit(p) ==
  /\ version[p] < MaxVersion
  /\ version' = [version EXCEPT ![p] = @ + 1]
  /\ UNCHANGED <<stored, cache, locked, group, jobVars, failures>>

-----------------------------------------------------------------------------
UseCache(j) ==
  \/ LockForGet(j) \/ LockForPut(j) \/ LeaveCache(j)
  \/ Lookup(j) \/ Load(j) \/ Truncate(j) \/ Write(j)

Advance(j) ==
  \/ Dispatch(j) \/ UseCache(j) \/ Hash(j)
  \/ OutputLocal(j) \/ OutputRemote(j) \/ Retry(j) \/ GiveUp(j)

Work == (\E j \in Jobs : Advance(j)) \/ (\E b \in Builds : Return(b))

Next ==
  \/ Work
  \/ \E b \in Builds : Kill(b)
  \/ \E p \in Paths : Edit(p)

Spec == Init /\ [][Next]_vars

\* As long as some goroutine of some process can go on, one of them does;
\* nothing makes files change or processes die.
Fairness == WF_vars(Work)

FairSpec == Spec /\ Fairness

-----------------------------------------------------------------------------
\* The digest with which a layer is output is that of a content the file had
\* since this attempt to build the layer began, never one from before: a stale, truncated or
\* overwritten cache file cannot make it older ("retrieveCache checks if mtime
\* and size match, then returns the cached digest", builder.go).
LayerIsCurrent ==
  \A j \in Jobs :
    at[j] = "output" => mtime[j] <= digest[j] /\ digest[j] <= version[Path(j)]

\* A group that reports success has a stored blob for every file matched;
\* one that fails reports an error.
GroupComplete ==
  \A b \in Builds :
    group[b] = "ok" => \A j \in JobsOf(b) : at[j] = "done" /\ Blob(j, digest[j]) \in stored

\* A process has the lock only while one of its goroutines is using the cache
\* file: no error return leaves it locked against the other processes.
LockInUse ==
  \A b \in Builds :
    locked[b] => group[b] = "running" /\ \E j \in JobsOf(b) : at[j] \in Critical

\* Every build returns or is killed, even when the cache file is damaged and
\* other processes hold the lock over and over.
EveryBuildReturns == <>(\A b \in Builds : group[b] # "running")
=============================================================================
