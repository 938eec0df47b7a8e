--------------------------- MODULE LocalCommands ---------------------------
(***************************************************************************)
(* The modctl commands that work on the local storage directory: pull,     *)
(* build, attach and tag publish an artifact under a name, extract and push*)
(* read one, rm drops a name and prune reclaims what no name needs.  Every *)
(* command is a process of its own that can be killed between any two      *)
(* steps (cmd/root.go exits on SIGINT and SIGTERM) and shares nothing but  *)
(* the directory with the others.                                          *)
(*                                                                         *)
(* Nothing in the code keeps prune apart from the other commands, so the   *)
(* constant PruneAlone says whether the operator does: TRUE means prune is *)
(* only run while no other command runs.                                   *)
(***************************************************************************)
EXTENDS ContentStore, Naturals

CONSTANTS
  Concurrency,   \* errgroup limit on the layers of a command in flight
  PruneAlone,    \* prune never overlaps another command
  PruneFlags,    \* the flags the operator gives prune
  NoCommand      \* what an idle process runs

ASSUME ConcurrencyAssumption == Concurrency \in Nat \ {0}
ASSUME PruneAloneAssumption  == PruneAlone \in BOOLEAN
ASSUME PruneFlagsAssumption  == PruneFlags \subseteq [dryRun : BOOLEAN, removeUntagged : BOOLEAN]

VARIABLES
  pc,            \* the step each process is at
  cmd,           \* the command it runs
  want,          \* the blobs it still has to move in this step
  gcPc,          \* the phase prune is in, "off" when it does not run
  gcOpts,        \* its flags: dry run, remove untagged manifests
  gcTodo,        \* repositories left to mark
  gcRepo,        \* the repository whose manifests were marked last
  keep,          \* digests marked as referenced
  doomedRevs,    \* revisions to delete
  doomedData,    \* contents to delete
  doomedLinks,   \* layer links to delete
  steady,        \* history: names that were complete when prune began and
                 \* have not been moved since
  calm           \* history: processes whose command no prune has overlapped

procVars == <<pc, cmd, want>>
gcVars   == <<gcPc, gcOpts, gcTodo, gcRepo, keep, doomedRevs, doomedData, doomedLinks>>
history  == <<steady, calm>>
vars     == <<store, procVars, gcVars, history>>

Writers  == {"pull", "build", "attach", "tag"}
Kinds    == Writers \cup {"read"}
Commands == [kind : Kinds, name : Names, man : Manifests, from : Repos,
             source : Manifests \cup {NoManifest}]
Phases   == {"idle", "layers", "config", "mount", "manifest", "push", "settag", "read", "done"}
GcPhases == {"off", "mark", "layers", "revs", "blobs", "links", "purge", "reclaimed"}

TypeOK ==
  /\ StoreTypeOK
  /\ pc \in [Procs -> Phases]
  /\ cmd \in [Procs -> Commands \cup {NoCommand}]
  /\ \A p \in Procs : pc[p] # "idle" => cmd[p] \in Commands
  /\ want \in [Procs -> SUBSET Blobs]
  /\ gcPc \in GcPhases
  /\ gcOpts \in [dryRun : BOOLEAN, removeUntagged : BOOLEAN]
  /\ gcTodo \subseteq Repos
  /\ gcPc = "layers" => gcRepo \in Repos
  /\ keep \subseteq Digests
  /\ doomedRevs \subseteq Repos \X Manifests
  /\ doomedData \subseteq Digests
  /\ doomedLinks \subseteq Repos \X Blobs
  /\ steady \subseteq Names
  /\ calm \subseteq Procs

DefaultOpts == [dryRun |-> FALSE, removeUntagged |-> TRUE]

GcOff ==
  /\ gcPc = "off"
  /\ gcOpts = DefaultOpts
  /\ gcTodo = {}
  /\ gcRepo = NoCommand
  /\ keep = {}
  /\ doomedRevs = {}
  /\ doomedData = {}
  /\ doomedLinks = {}

IdleInit ==
  /\ pc = [p \in Procs |-> "idle"]
  /\ cmd = [p \in Procs |-> NoCommand]
  /\ want = [p \in Procs |-> {}]
  /\ GcOff
  /\ steady = {}
  /\ calm = {}

Init == StoreInit /\ IdleInit

-----------------------------------------------------------------------------
(***************************************************************************)
(* Starting a command.                                                     *)
(***************************************************************************)

CanStart(p) == pc[p] = "idle" /\ (PruneAlone => gcPc = "off")

\* The command works on manifest m under name n; from is the repository it
\* reads from and source the manifest whose layers attach compares its own
\* with.
Begin(p, kind, n, m, from, source, phase, blobs) ==
  /\ CanStart(p)
  /\ pc' = [pc EXCEPT ![p] = phase]
  /\ cmd' = [cmd EXCEPT ![p] =
        [kind |-> kind, name |-> n, man |-> m, from |-> from, source |-> source]]
  /\ want' = [want EXCEPT ![p] = blobs]
  /\ calm' = IF gcPc = "off" THEN calm \cup {p} ELSE calm \ {p}
  /\ UNCHANGED <<store, gcVars, steady>>

\* Pull: m is what the registry resolves the tag to.
StartPull(p, n, m) == Begin(p, "pull", n, m, n[1], NoManifest, "layers", LayersOf[m])

\* Build: the files of the workspace encode to the layers of m.
StartBuild(p, n, m) == Begin(p, "build", n, m, n[1], NoManifest, "layers", LayersOf[m])

\* Attach a file to the local artifact s: read its manifest and config,
\* encode the file as layer b and add it, or put it in the place of the
\* layer it replaces.  The other layers of m are not stored again.
StartAttach(p, s, n, m) ==
  \E old \in Manifests, b \in LayersOf[m] :
    /\ PullManifest(s, old)
    /\ StatBlob(s[1], ConfigOf[old])
    /\ LayersOf[m] \ {b} \subseteq LayersOf[old]
    /\ Cardinality(LayersOf[old] \ LayersOf[m]) <= 1
    /\ LayersOf[m] = LayersOf[old] => m = old
    /\ Begin(p, "attach", n, m, s[1], old, "layers", {b})

\* Attach --config: the layers stay, the config is the file that was given,
\* and nothing is compared.
StartAttachConfig(p, s, n, m) ==
  \E old \in Manifests :
    /\ PullManifest(s, old)
    /\ StatBlob(s[1], ConfigOf[old])
    /\ LayersOf[m] = LayersOf[old]
    /\ Begin(p, "attach", n, m, s[1], NoManifest, "config", {ConfigOf[m]})

\* Tag s as n: read the manifest of s and mount its blobs.
StartTag(p, s, n) ==
  \E m \in Manifests :
    /\ PullManifest(s, m)
    /\ Begin(p, "tag", n, m, s[1], NoManifest, "mount", RefsOf(m))

\* Extract and push: read the manifest, then each blob it references.
StartRead(p, n) ==
  \E m \in Manifests :
    /\ PullManifest(n, m)
    /\ Begin(p, "read", n, m, n[1], NoManifest, "read", RefsOf(m))

-----------------------------------------------------------------------------
(***************************************************************************)
(* Moving blobs: layers concurrently, then the config.                     *)
(***************************************************************************)

Repo(p) == cmd[p].name[1]

Moves(p, phase) ==
  /\ pc' = [pc EXCEPT ![p] = phase]
  /\ UNCHANGED <<cmd, want, gcVars, history>>

Settles(p, b) ==
  /\ want' = [want EXCEPT ![p] = @ \ {b}]
  /\ UNCHANGED <<pc, cmd, gcVars, history>>

\* Only pull asks whether the blob is there already.
SkipBlob(p, b) ==
  /\ pc[p] \in {"layers", "config"}
  /\ b \in want[p] /\ b \notin Sending(p)
  /\ cmd[p].kind = "pull"
  /\ StatBlob(Repo(p), b)
  /\ Settles(p, b)
  /\ UNCHANGED store

OpenUpload(p, b) ==
  /\ pc[p] \in {"layers", "config"}
  /\ b \in want[p] /\ b \notin Sending(p)
  /\ cmd[p].kind = "pull" => ~StatBlob(Repo(p), b)
  /\ Cardinality(Sending(p)) < Concurrency
  /\ CreateUpload(p, b)
  /\ UNCHANGED <<procVars, gcVars, history>>

CommitUpload(p, b) ==
  /\ pc[p] \in {"layers", "config"}
  /\ b \in want[p]
  /\ CommitBlob(p, Repo(p), b)
  /\ Settles(p, b)

\* The transfer breaks or its digest does not verify; the blob stays wanted
\* and the retry opens another session.  Attach stores its config without
\* retrying (Stop).
LoseUpload(p, b) ==
  /\ pc[p] \in {"layers", "config"}
  /\ cmd[p].kind = "attach" => pc[p] = "layers"
  /\ AbandonUpload(p, b)
  /\ UNCHANGED <<procVars, gcVars, history>>

\* Attach ends with the layers its source has.
Unchanged(p) ==
  cmd[p].source # NoManifest /\ LayersOf[cmd[p].man] = LayersOf[cmd[p].source]

\* g.Wait returns without error: every layer is stored, the config is next.
SettleLayers(p) ==
  /\ pc[p] = "layers" /\ want[p] = {}
  /\ ~Unchanged(p)
  /\ pc' = [pc EXCEPT ![p] = "config"]
  /\ want' = [want EXCEPT ![p] = {ConfigOf[cmd[p].man]}]
  /\ UNCHANGED <<cmd, store, gcVars, history>>

\* Attach returns with success and publishes nothing: the artifact "has not
\* changed", whatever name it was to be given.
AttachUnchanged(p) ==
  /\ pc[p] = "layers" /\ want[p] = {}
  /\ Unchanged(p)
  /\ Moves(p, "done")
  /\ UNCHANGED store

\* Only pull looks for the manifest before it stores it.
Publishing(p) == IF cmd[p].kind = "pull" THEN "manifest" ELSE "push"

SettleConfig(p) ==
  /\ pc[p] = "config" /\ want[p] = {}
  /\ Moves(p, Publishing(p))
  /\ UNCHANGED store

-----------------------------------------------------------------------------
(***************************************************************************)
(* Tag: the config is mounted first, then the layers, one after the other. *)
(***************************************************************************)

ConfigFirst(p, b) == ConfigOf[cmd[p].man] \in want[p] => b = ConfigOf[cmd[p].man]

Mount(p, b) ==
  /\ pc[p] = "mount"
  /\ b \in want[p] /\ ConfigFirst(p, b)
  /\ MountBlob(cmd[p].from, Repo(p), b)
  /\ Settles(p, b)

MountFails(p, b) ==
  /\ pc[p] = "mount"
  /\ b \in want[p] /\ ConfigFirst(p, b)
  /\ MountMisses(cmd[p].from, b)
  /\ pc' = [pc EXCEPT ![p] = "idle"]
  /\ cmd' = [cmd EXCEPT ![p] = NoCommand]
  /\ want' = [want EXCEPT ![p] = {}]
  /\ UNCHANGED <<gcVars, history>>

SettleMounts(p) ==
  /\ pc[p] = "mount" /\ want[p] = {}
  /\ Moves(p, "push")
  /\ UNCHANGED store

-----------------------------------------------------------------------------
(***************************************************************************)
(* Publishing the manifest, last of all.                                   *)
(***************************************************************************)

\* Wrong variants: the early return of pull taken before the layers are
\* looked at, or by every command.
SkipManifestEarly(p) ==
  /\ pc[p] \in {"layers", "manifest"} /\ Sending(p) = {}
  /\ cmd[p].kind = "pull"
  /\ StatManifest(Repo(p), cmd[p].man)
  /\ Moves(p, "done")
  /\ UNCHANGED store
SkipManifestAlways(p) ==
  /\ pc[p] \in {"manifest", "push"}
  /\ StatManifest(Repo(p), cmd[p].man)
  /\ Moves(p, "done")
  /\ UNCHANGED store

\* Pull returns early when the revision is there already, and leaves the
\* tag as it is.
SkipManifest(p) ==
  /\ pc[p] = "manifest"
  /\ StatManifest(Repo(p), cmd[p].man)
  /\ Moves(p, "done")
  /\ UNCHANGED store

MissManifest(p) ==
  /\ pc[p] = "manifest"
  /\ ~StatManifest(Repo(p), cmd[p].man)
  /\ Moves(p, "push")
  /\ UNCHANGED store

StoreManifest(p) ==
  /\ pc[p] = "push"
  /\ PutManifest(Repo(p), cmd[p].man)
  /\ Moves(p, "settag")

PublishTag(p) ==
  /\ pc[p] = "settag"
  /\ TagManifest(cmd[p].name, cmd[p].man)
  /\ pc' = [pc EXCEPT ![p] = "done"]
  /\ steady' = steady \ {cmd[p].name}
  /\ UNCHANGED <<cmd, want, gcVars, calm>>

\* Writing the tag fails and the manifest is tried again from the start.
RetryManifest(p) ==
  /\ pc[p] = "settag"
  /\ cmd[p].kind \in {"pull", "build"}
  /\ Moves(p, Publishing(p))
  /\ UNCHANGED store

-----------------------------------------------------------------------------
ReadBlob(p, b) ==
  /\ pc[p] = "read"
  /\ b \in want[p]
  /\ StatBlob(Repo(p), b)
  /\ Settles(p, b)
  /\ UNCHANGED store

FinishRead(p) ==
  /\ pc[p] = "read" /\ want[p] = {}
  /\ Moves(p, "done")
  /\ UNCHANGED store

\* The command returns to the shell with success.
Return(p) ==
  /\ pc[p] = "done"
  /\ pc' = [pc EXCEPT ![p] = "idle"]
  /\ cmd' = [cmd EXCEPT ![p] = NoCommand]
  /\ UNCHANGED <<want, store, gcVars, history>>

\* Wrong variant: the phase is not reset.
StopKeepsPhase(p) ==
  /\ pc[p] \notin {"idle", "done"}
  /\ AbandonUploads(p)
  /\ cmd' = [cmd EXCEPT ![p] = NoCommand]
  /\ UNCHANGED <<pc, want, gcVars, history>>

\* It gives up after its retries, finds the manifest rejected or a blob
\* missing, or is killed: at any step, whatever is on disk stays there.
Stop(p) ==
  /\ pc[p] \notin {"idle", "done"}
  /\ AbandonUploads(p)
  /\ pc' = [pc EXCEPT ![p] = "idle"]
  /\ cmd' = [cmd EXCEPT ![p] = NoCommand]
  /\ want' = [want EXCEPT ![p] = {}]
  /\ UNCHANGED <<gcVars, history>>

\* rm of a tag.
Remove(p, n) ==
  /\ CanStart(p)
  /\ Untag(n)
  /\ steady' = steady \ {n}
  /\ UNCHANGED <<procVars, gcVars, calm>>

-----------------------------------------------------------------------------
(***************************************************************************)
(* Prune: mark repository by repository, then sweep revisions, contents    *)
(* and layer links one at a time, then purge the upload sessions.          *)
(***************************************************************************)

UnchangedByMark == UNCHANGED <<store, procVars, history>>

StartPrune(flags) ==
  /\ gcPc = "off"
  /\ PruneAlone => \A p \in Procs : pc[p] = "idle"
  /\ gcPc' = "mark"
  /\ gcOpts' = flags
  /\ gcTodo' = Repos
  /\ steady' = {n \in Names : Complete(n[1], tags[n])}
  /\ calm' = {}
  /\ UNCHANGED <<store, procVars, gcRepo, keep, doomedRevs, doomedData, doomedLinks>>

Revisions(r) == {m \in Manifests : <<r, m>> \in revs}
Untagged(r)  == {m \in Revisions(r) : \A t \in Tags : tags[<<r, t>>] # m}
Marked(r)    == IF gcOpts.removeUntagged THEN Revisions(r) \ Untagged(r) ELSE Revisions(r)

\* Wrong variant: the config a manifest names is not marked.
MarkLayersOnly(r) ==
  /\ gcPc = "mark" /\ r \in gcTodo
  /\ Marked(r) \subseteq data
  /\ keep' = keep \cup UNION {{m} \cup LayersOf[m] : m \in Marked(r)}
  /\ doomedRevs' = doomedRevs \cup ({r} \X (Revisions(r) \ Marked(r)))
  /\ gcRepo' = r
  /\ gcPc' = "layers"
  /\ UNCHANGED <<gcOpts, gcTodo, doomedData, doomedLinks>>
  /\ UnchangedByMark

\* A marked manifest is read for its references: one that cannot be read
\* ends the command with an error (StopPrune).
MarkManifests(r) ==
  /\ gcPc = "mark" /\ r \in gcTodo
  /\ Marked(r) \subseteq data
  /\ keep' = keep \cup UNION {Content(m) : m \in Marked(r)}
  /\ doomedRevs' = doomedRevs \cup ({r} \X (Revisions(r) \ Marked(r)))
  /\ gcRepo' = r
  /\ gcPc' = "layers"
  /\ UNCHANGED <<gcOpts, gcTodo, doomedData, doomedLinks>>
  /\ UnchangedByMark

\* The layer links of the repository that nothing marked so far needs.
CollectLinks ==
  /\ gcPc = "layers"
  /\ doomedLinks' = doomedLinks \cup {l \in links : l[1] = gcRepo /\ l[2] \notin keep}
  /\ gcTodo' = gcTodo \ {gcRepo}
  /\ gcPc' = "mark"
  /\ UNCHANGED <<gcOpts, gcRepo, keep, doomedRevs, doomedData>>
  /\ UnchangedByMark

\* Marking is over: an untagged revision whose manifest another repository
\* still tags is spared.  A dry run ends here.
EndMark ==
  /\ gcPc = "mark" /\ gcTodo = {}
  /\ doomedRevs' = {x \in doomedRevs : x[2] \notin keep}
  /\ gcPc' = IF gcOpts.dryRun THEN "reclaimed" ELSE "revs"
  /\ UNCHANGED <<gcOpts, gcTodo, gcRepo, keep, doomedData, doomedLinks>>
  /\ UnchangedByMark

\* Wrong variant: the revision is taken off the list but stays on disk.
ForgetRevision(x) ==
  /\ gcPc = "revs" /\ x \in doomedRevs
  /\ doomedRevs' = doomedRevs \ {x}
  /\ UNCHANGED <<store, procVars, history>>
  /\ UNCHANGED <<gcPc, gcOpts, gcTodo, gcRepo, keep, doomedData, doomedLinks>>

RemoveRevision(x) ==
  /\ gcPc = "revs" /\ x \in doomedRevs
  /\ revs' = revs \ {x}
  /\ doomedRevs' = doomedRevs \ {x}
  /\ UNCHANGED <<data, links, tags, uploads, procVars, history>>
  /\ UNCHANGED <<gcPc, gcOpts, gcTodo, gcRepo, keep, doomedData, doomedLinks>>

\* The pool is listed only now, after the revisions are gone.
ListContents ==
  /\ gcPc = "revs" /\ doomedRevs = {}
  /\ doomedData' = data \ keep
  /\ gcPc' = "blobs"
  /\ UNCHANGED <<gcOpts, gcTodo, gcRepo, keep, doomedRevs, doomedLinks>>
  /\ UnchangedByMark

RemoveContent(d) ==
  /\ gcPc = "blobs" /\ d \in doomedData
  /\ data' = data \ {d}
  /\ doomedData' = doomedData \ {d}
  /\ UNCHANGED <<links, revs, tags, uploads, procVars, history>>
  /\ UNCHANGED <<gcPc, gcOpts, gcTodo, gcRepo, keep, doomedRevs, doomedLinks>>

EndContents ==
  /\ gcPc = "blobs" /\ doomedData = {}
  /\ gcPc' = "links"
  /\ UNCHANGED <<gcOpts, gcTodo, gcRepo, keep, doomedRevs, doomedData, doomedLinks>>
  /\ UnchangedByMark

RemoveLink(l) ==
  /\ gcPc = "links" /\ l \in doomedLinks
  /\ links' = links \ {l}
  /\ doomedLinks' = doomedLinks \ {l}
  /\ UNCHANGED <<data, revs, tags, uploads, procVars, history>>
  /\ UNCHANGED <<gcPc, gcOpts, gcTodo, gcRepo, keep, doomedRevs, doomedData>>

\* Wrong variant: prune ends with the garbage collection.
PurgeNothing ==
  /\ gcPc = "links" /\ doomedLinks = {}
  /\ gcPc' = "reclaimed"
  /\ UNCHANGED <<store, procVars, history>>
  /\ UNCHANGED <<gcOpts, gcTodo, gcRepo, keep, doomedRevs, doomedData, doomedLinks>>

\* PerformPurgeUploads(time.Now()): every session on disk is older than now.
PurgeUploads ==
  /\ gcPc = "links" /\ doomedLinks = {}
  /\ uploads' = {}
  /\ gcPc' = "reclaimed"
  /\ UNCHANGED <<data, links, revs, tags, procVars, history>>
  /\ UNCHANGED <<gcOpts, gcTodo, gcRepo, keep, doomedRevs, doomedData, doomedLinks>>

\* Prune returns, is killed or fails: its working sets are gone.
LeavePrune ==
  /\ gcPc' = "off"
  /\ gcOpts' = DefaultOpts
  /\ gcTodo' = {}
  /\ gcRepo' = NoCommand
  /\ keep' = {}
  /\ doomedRevs' = {}
  /\ doomedData' = {}
  /\ doomedLinks' = {}
  /\ steady' = {}
  /\ UNCHANGED <<store, procVars, calm>>

EndPrune  == gcPc = "reclaimed" /\ LeavePrune
StopPrune == gcPc \notin {"off", "reclaimed"} /\ LeavePrune

-----------------------------------------------------------------------------
Start(p) ==
  \/ \E n \in Names, m \in Manifests : StartPull(p, n, m) \/ StartBuild(p, n, m)
  \/ \E s, n \in Names, m \in Manifests : StartAttach(p, s, n, m) \/ StartAttachConfig(p, s, n, m)
  \/ \E s, n \in Names : StartTag(p, s, n)
  \/ \E n \in Names : StartRead(p, n)

MoveBlob(p, b) ==
  \/ SkipBlob(p, b) \/ OpenUpload(p, b) \/ CommitUpload(p, b) \/ LoseUpload(p, b)
  \/ Mount(p, b) \/ MountFails(p, b)
  \/ ReadBlob(p, b)

Advance(p) ==
  \/ SettleLayers(p) \/ AttachUnchanged(p) \/ SettleConfig(p) \/ SettleMounts(p)
  \/ SkipManifest(p) \/ MissManifest(p) \/ StoreManifest(p) \/ PublishTag(p) \/ RetryManifest(p)
  \/ FinishRead(p) \/ Return(p) \/ Stop(p)

Process(p) ==
  \/ Start(p)
  \/ \E b \in Blobs : MoveBlob(p, b)
  \/ Advance(p)
  \/ \E n \in Names : Remove(p, n)

Mark ==
  \/ \E flags \in PruneFlags : StartPrune(flags)
  \/ \E r \in Repos : MarkManifests(r)
  \/ CollectLinks \/ EndMark

Sweep ==
  \/ \E x \in doomedRevs : RemoveRevision(x)
  \/ ListContents
  \/ \E d \in doomedData : RemoveContent(d)
  \/ EndContents
  \/ \E l \in doomedLinks : RemoveLink(l)
  \/ PurgeUploads

Prune == Mark \/ Sweep \/ EndPrune \/ StopPrune

Next == (\E p \in Procs : Process(p)) \/ Prune

Spec == Init /\ [][Next]_vars

-----------------------------------------------------------------------------
(***************************************************************************)
(* Properties.                                                             *)
(***************************************************************************)

\* A name that resolves resolves to a whole artifact: the manifest it points
\* at is a readable revision of the repository and every blob it references
\* is linked and present, whatever commands were interleaved, killed or
\* retried before, killed prunes included (pull.go: "the order is important,
\* manifest should be pushed at last").
TaggedComplete ==
  \A n \in Names : tags[n] # NoManifest => Complete(n[1], tags[n])

\* A command that reports success, and that no prune overlapped, leaves the
\* artifact it published whole in the target repository, even the blobs and
\* the manifest it skipped because they were there already, and even when an
\* earlier prune had overlapped with somebody and left the directory damaged.
\* The attach that changes no layer publishes no artifact (SuccessPublishes).
Delivered ==
  \A p \in calm :
    pc[p] = "done" /\ cmd[p].kind \in Writers /\ ~Unchanged(p)
      => Complete(Repo(p), cmd[p].man)

\* A reader (extract, push) that started on a whole artifact never meets a
\* blob that is gone between reading the manifest and reading the blob, even
\* when the name is removed or moved meanwhile.
ReaderServed ==
  \A p \in Procs :
    pc[p] = "read" => \A b \in want[p] : StatBlob(Repo(p), b)

\* Prune can read every manifest it has to mark, so an interrupted prune
\* never makes the next one fail for good.
PruneCanRead == \A x \in revs : x[2] \in data

\* The artifacts prune has to keep under its flags.
Wanted ==
  {x \in revs : gcOpts.removeUntagged => \E t \in Tags : tags[<<x[1], t>>] = x[2]}

\* "Prune prunes the unused blobs and clean up the storage": when it returns,
\* all that is left in the pool is what a manifest it keeps consists of, no
\* layer link points at missing content, and no upload session is left,
\* whatever earlier commands and prunes left behind when they died.
PruneReclaims ==
  gcPc = "reclaimed" /\ ~gcOpts.dryRun =>
    /\ data \subseteq UNION {Content(x[2]) : x \in Wanted}
    /\ \A l \in links : l[2] \in data
    /\ uploads = {}

\* Prune never damages an artifact that was whole when it began and whose
\* name stays as it is, even when other commands run at the same time.
SteadySurvives == \A n \in steady : Complete(n[1], tags[n])

\* A command that reports success leaves the name it was given pointing at the
\* artifact it pulled, built, attached a file to or tagged ("Pull the model
\* artifact from the registry", docs/getting-started.md:113; "attach the local
\* model artifact" with a new target, :158; "Successfully attached model
\* artifact" with the target, cmd/attach.go:79).  Meant for a single process,
\* when nobody else moves the name.
NameIsSet ==
  \A p \in Procs :
    pc[p] = "done" /\ cmd[p].kind \in Writers => tags[cmd[p].name] = cmd[p].man

\* A command that reports success, that no prune overlapped, and that has not
\* set the name it was given is a pull whose revision is in the repository, or
\* an attach that changed no layer of its source.  Build and tag always set
\* theirs.  Meant for a single process.
SuccessPublishes ==
  \A p \in calm :
    pc[p] = "done" /\ cmd[p].kind \in Writers /\ tags[cmd[p].name] # cmd[p].man =>
      \/ cmd[p].kind = "pull" /\ StatManifest(Repo(p), cmd[p].man)
      \/ Unchanged(p)

\* What a user sees of the directory: under each name, the manifest and the
\* parts of the artifact that can be read.
Visible(n) ==
  IF tags[n] = NoManifest THEN NoManifest
  ELSE [man |-> tags[n],
        parts |-> {b \in RefsOf(tags[n]) : StatBlob(n[1], b)},
        readable |-> StatManifest(n[1], tags[n])]

Catalog == INSTANCE ArtifactCatalog WITH
  catalog <- [n \in Names |-> Visible(n)],
  NoArtifact <- NoManifest

\* The directory implements the catalogue: names come and go one at a time,
\* each with a whole artifact, and no step changes what a name shows in any
\* other way.
CatalogSpec == Catalog!Spec
=============================================================================
