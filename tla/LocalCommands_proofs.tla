------------------------ MODULE LocalCommands_proofs ------------------------
(***************************************************************************)
(* Theorems about LocalCommands, for any repositories, tags, artifacts and *)
(* processes.                                                              *)
(***************************************************************************)
EXTENDS LocalCommands, TLAPS

USE DEF StoreTypeOK, Names, Digests, Owners, RefsOf, Content, history

-----------------------------------------------------------------------------
(* Type correctness. *)

\* Starting a command keeps the types: what Begin records is a command.
LEMMA BeginTypeOK ==
  ASSUME TypeOK, NEW p \in Procs, NEW kind \in Kinds, NEW n \in Names,
         NEW m \in Manifests, NEW from \in Repos, NEW source \in Manifests \cup {NoManifest},
         NEW phase \in Phases, NEW blobs \in SUBSET Blobs,
         Begin(p, kind, n, m, from, source, phase, blobs)
  PROVE  TypeOK'
<1>1. [kind |-> kind, name |-> n, man |-> m, from |-> from, source |-> source] \in Commands
  BY DEF Commands
<1>. QED
  BY <1>1 DEF TypeOK, Begin, CanStart, store, gcVars

\* Every command starts with Begin.
LEMMA StartBegins ==
  ASSUME NEW p \in Procs, Start(p)
  PROVE  \E kind, n, m, from, source, blobs :
            \E phase \in {"layers", "config", "mount", "read"} :
               Begin(p, kind, n, m, from, source, phase, blobs)
<1>. DEFINE Begins(kind, n, m, from, source, phase, blobs) ==
              /\ phase \in {"layers", "config", "mount", "read"}
              /\ Begin(p, kind, n, m, from, source, phase, blobs)
<1>. SUFFICES \E kind, n, m, from, source, phase, blobs : Begins(kind, n, m, from, source, phase, blobs)
  OBVIOUS
<1>1. ASSUME NEW n \in Names, NEW m \in Manifests, StartPull(p, n, m) \/ StartBuild(p, n, m)
      PROVE  \E kind : Begins(kind, n, m, n[1], NoManifest, "layers", LayersOf[m])
  BY <1>1 DEF StartPull, StartBuild
<1>2. ASSUME NEW s \in Names, NEW n \in Names, NEW m \in Manifests, StartAttach(p, s, n, m)
      PROVE  \E source, blobs : Begins("attach", n, m, s[1], source, "layers", blobs)
  BY <1>2 DEF StartAttach
<1>3. ASSUME NEW s \in Names, NEW n \in Names, NEW m \in Manifests, StartAttachConfig(p, s, n, m)
      PROVE  Begins("attach", n, m, s[1], NoManifest, "config", {ConfigOf[m]})
  BY <1>3 DEF StartAttachConfig
<1>4. ASSUME NEW s \in Names, NEW n \in Names, StartTag(p, s, n)
      PROVE  \E m, blobs : Begins("tag", n, m, s[1], NoManifest, "mount", blobs)
  BY <1>4 DEF StartTag
<1>5. ASSUME NEW n \in Names, StartRead(p, n)
      PROVE  \E m, blobs : Begins("read", n, m, n[1], NoManifest, "read", blobs)
  BY <1>5 DEF StartRead
<1>. HIDE DEF Begins
<1>6. ASSUME NEW n \in Names, NEW m \in Manifests, StartPull(p, n, m) \/ StartBuild(p, n, m)
      PROVE  \E kind, from, source, phase, blobs : Begins(kind, n, m, from, source, phase, blobs)
  BY <1>1, <1>6
<1>7. ASSUME NEW s \in Names, NEW n \in Names, NEW m \in Manifests,
             StartAttach(p, s, n, m) \/ StartAttachConfig(p, s, n, m)
      PROVE  \E kind, from, source, phase, blobs : Begins(kind, n, m, from, source, phase, blobs)
  BY <1>2, <1>3, <1>7
<1>. QED
  BY <1>4, <1>5, <1>6, <1>7 DEF Start

LEMMA StartTypeOK ==
  ASSUME TypeOK, NEW p \in Procs, Start(p)
  PROVE  TypeOK'
<1>1. /\ {"pull", "build", "attach", "tag", "read"} \subseteq Kinds
      /\ {"layers", "config", "mount", "read"} \subseteq Phases
  BY DEF Kinds, Writers, Phases
<1>2. \A m \in Manifests : LayersOf[m] \in SUBSET Blobs /\ RefsOf(m) \in SUBSET Blobs
  BY ManifestAssumption
<1>3. \A n \in Names : n[1] \in Repos
  OBVIOUS
<1>4. ASSUME NEW n \in Names, NEW m \in Manifests, StartPull(p, n, m) \/ StartBuild(p, n, m)
      PROVE  TypeOK'
  BY <1>1, <1>2, <1>3, <1>4, BeginTypeOK DEF StartPull, StartBuild
<1>5. ASSUME NEW s \in Names, NEW n \in Names, NEW m \in Manifests, StartAttach(p, s, n, m)
      PROVE  TypeOK'
  <2>1. PICK old \in Manifests, b \in LayersOf[m] : Begin(p, "attach", n, m, s[1], old, "layers", {b})
    BY <1>5 DEF StartAttach
  <2>2. {b} \in SUBSET Blobs
    BY <1>2
  <2>. QED
    BY <1>1, <1>3, <2>1, <2>2, BeginTypeOK
<1>6. ASSUME NEW s \in Names, NEW n \in Names, StartTag(p, s, n)
      PROVE  TypeOK'
  <2>1. PICK m \in Manifests : Begin(p, "tag", n, m, s[1], NoManifest, "mount", RefsOf(m))
    BY <1>6 DEF StartTag
  <2>. QED
    BY <1>1, <1>2, <1>3, <2>1, BeginTypeOK
<1>7. ASSUME NEW s \in Names, NEW n \in Names, NEW m \in Manifests, StartAttachConfig(p, s, n, m)
      PROVE  TypeOK'
  <2>1. Begin(p, "attach", n, m, s[1], NoManifest, "config", {ConfigOf[m]})
    BY <1>7 DEF StartAttachConfig
  <2>2. {ConfigOf[m]} \in SUBSET Blobs
    BY ManifestAssumption
  <2>. QED
    BY <1>1, <1>3, <2>1, <2>2, BeginTypeOK
<1>8. ASSUME NEW n \in Names, StartRead(p, n)
      PROVE  TypeOK'
  <2>1. PICK m \in Manifests : Begin(p, "read", n, m, n[1], NoManifest, "read", RefsOf(m))
    BY <1>8 DEF StartRead
  <2>. QED
    BY <1>1, <1>2, <1>3, <2>1, BeginTypeOK
<1>. QED
  BY <1>4, <1>5, <1>6, <1>7, <1>8 DEF Start

LEMMA MoveBlobTypeOK ==
  ASSUME TypeOK, NEW p \in Procs, NEW b \in Blobs, MoveBlob(p, b)
  PROVE  TypeOK'
<1>1. pc[p] # "idle" => cmd[p].name[1] \in Repos
  BY DEF TypeOK, Commands
<1>. USE DEF TypeOK
<1>2. CASE SkipBlob(p, b) \/ ReadBlob(p, b)
  BY <1>2 DEF SkipBlob, ReadBlob, Settles, store, gcVars
<1>3. CASE OpenUpload(p, b)
  BY <1>3 DEF OpenUpload, CreateUpload, procVars, gcVars
<1>4. CASE CommitUpload(p, b)
  BY <1>1, <1>4 DEF CommitUpload, CommitBlob, Settles, Repo, gcVars
<1>5. CASE LoseUpload(p, b)
  BY <1>5 DEF LoseUpload, AbandonUpload, procVars, gcVars
<1>6. CASE Mount(p, b)
  BY <1>1, <1>6 DEF Mount, MountBlob, Settles, Repo, gcVars
<1>7. CASE MountFails(p, b)
  BY <1>7 DEF MountFails, MountMisses, Phases, gcVars
<1>. QED
  BY <1>2, <1>3, <1>4, <1>5, <1>6, <1>7 DEF MoveBlob

LEMMA AdvanceTypeOK ==
  ASSUME TypeOK, NEW p \in Procs, Advance(p)
  PROVE  TypeOK'
<1>1. pc[p] # "idle" => cmd[p] \in Commands
  BY DEF TypeOK
<1>2. cmd[p] \in Commands =>
        /\ cmd[p].man \in Manifests
        /\ cmd[p].name \in Names
        /\ cmd[p].name[1] \in Repos
        /\ ConfigOf[cmd[p].man] \in Blobs
  BY ManifestAssumption DEF Commands
<1>. USE DEF TypeOK, Phases
<1>3. CASE SettleLayers(p)
  BY <1>1, <1>2, <1>3 DEF SettleLayers, store, gcVars
<1>4. CASE AttachUnchanged(p) \/ SettleConfig(p) \/ SettleMounts(p) \/ SkipManifest(p)
         \/ MissManifest(p) \/ RetryManifest(p) \/ FinishRead(p)
  BY <1>4 DEF AttachUnchanged, SettleConfig, SettleMounts, SkipManifest, MissManifest,
             RetryManifest, FinishRead, Publishing, Moves, store, gcVars
<1>5. CASE StoreManifest(p)
  BY <1>1, <1>2, <1>5 DEF StoreManifest, PutManifest, Moves, Repo, gcVars
<1>6. CASE PublishTag(p)
  BY <1>1, <1>2, <1>6 DEF PublishTag, TagManifest, gcVars
<1>7. CASE Return(p)
  BY <1>7 DEF Return, store, gcVars
<1>8. CASE Stop(p)
  BY <1>8 DEF Stop, AbandonUploads, Sending, gcVars
<1>. QED
  BY <1>3, <1>4, <1>5, <1>6, <1>7, <1>8 DEF Advance

LEMMA PruneTypeOK ==
  ASSUME TypeOK, Prune
  PROVE  TypeOK'
<1>. USE DEF TypeOK, GcPhases, store, procVars, UnchangedByMark
<1>1. ASSUME NEW flags \in PruneFlags, StartPrune(flags)
      PROVE  TypeOK'
  BY <1>1, PruneFlagsAssumption DEF StartPrune
<1>2. ASSUME NEW r \in Repos, MarkManifests(r)
      PROVE  TypeOK'
  <2>1. UNION {Content(m) : m \in Marked(r)} \subseteq Digests
    <3>1. \A m \in Manifests : Content(m) \subseteq Digests
      BY ManifestAssumption
    <3>2. Marked(r) \subseteq Manifests
      BY DEF Marked, Revisions, Untagged
    <3>. QED
      BY <3>1, <3>2
  <2>2. {r} \X (Revisions(r) \ Marked(r)) \subseteq Repos \X Manifests
    BY DEF Revisions
  <2>. QED
    BY <1>2, <2>1, <2>2 DEF MarkManifests
<1>3. CASE CollectLinks
  BY <1>3 DEF CollectLinks
<1>4. CASE EndMark
  BY <1>4 DEF EndMark
<1>5. CASE Sweep
  BY <1>5 DEF Sweep, RemoveRevision, ListContents, RemoveContent, EndContents, RemoveLink, PurgeUploads
<1>6. CASE EndPrune \/ StopPrune
  <2>1. DefaultOpts \in [dryRun : BOOLEAN, removeUntagged : BOOLEAN]
    BY DEF DefaultOpts
  <2>. QED
    BY <1>6, <2>1 DEF EndPrune, StopPrune, LeavePrune
<1>. QED
  BY <1>1, <1>2, <1>3, <1>4, <1>5, <1>6 DEF Prune, Mark

LEMMA ProcessTypeOK ==
  ASSUME TypeOK, NEW p \in Procs, Process(p)
  PROVE  TypeOK'
<1>1. ASSUME NEW n \in Names, Remove(p, n)
      PROVE  TypeOK'
  BY <1>1 DEF TypeOK, Remove, Untag, procVars, gcVars
<1>. QED
  BY <1>1, StartTypeOK, MoveBlobTypeOK, AdvanceTypeOK DEF Process

LEMMA InitTypeOK == Init => TypeOK
BY DEF Init, StoreInit, IdleInit, GcOff, DefaultOpts, TypeOK, Phases, GcPhases

\* Every variable keeps its type in every reachable state, whatever the
\* repositories, artifacts and processes are (TypeOK of LocalCommands).
THEOREM TypeCorrect == Spec => []TypeOK
<1>1. Init => TypeOK
  BY InitTypeOK
<1>2. TypeOK /\ [Next]_vars => TypeOK'
  <2>1. ASSUME TypeOK, UNCHANGED vars
        PROVE  TypeOK'
    BY <2>1 DEF TypeOK, vars, store, procVars, gcVars
  <2>. QED
    BY <2>1, ProcessTypeOK, PruneTypeOK DEF Next
<1>. QED
  BY <1>1, <1>2, PTL DEF Spec

-----------------------------------------------------------------------------
(* Prune spares what is steady.                                            *)
(*                                                                         *)
(* While the mark runs, a steady artifact is covered from the moment the   *)
(* manifests of its repository are marked; the sweep starts when every     *)
(* repository is.  Nothing covered is ever among what is to be deleted,    *)
(* and the other commands only add to the directory.                       *)

\* Repository r is marked: its own manifests have been.
RepoMarked(r) == r \notin gcTodo \/ (gcPc = "layers" /\ gcRepo = r)

Covered(n) == Content(tags[n]) \subseteq keep

Spared(n) ==
  /\ <<n[1], tags[n]>> \notin doomedRevs
  /\ \A b \in RefsOf(tags[n]) : <<n[1], b>> \notin doomedLinks

SteadyInv ==
  \A n \in steady :
    /\ Complete(n[1], tags[n])
    /\ gcPc # "reclaimed" /\ RepoMarked(n[1]) => Covered(n)
    /\ Spared(n)

SweepInv ==
  /\ gcPc = "off" => doomedRevs = {} /\ doomedLinks = {} /\ keep = {}
  /\ gcPc \in {"revs", "blobs", "links"} => gcTodo = {}
  /\ gcPc = "layers" => gcRepo \in gcTodo
  /\ gcPc = "blobs" => doomedData \cap keep = {}
  /\ gcPc = "off" => steady = {}

PruneInv == TypeOK /\ SweepInv /\ SteadyInv

\* The other commands only add content, links and revisions, and a name they
\* move is no longer steady.
CommandsOnlyAdd ==
  /\ data \subseteq data' /\ links \subseteq links' /\ revs \subseteq revs'
  /\ steady' \subseteq steady
  /\ \A n \in steady' : tags'[n] = tags[n]
  /\ UNCHANGED gcVars

LEMMA ProcessOnlyAdds ==
  ASSUME TypeOK, NEW p \in Procs, Process(p)
  PROVE  CommandsOnlyAdd
<1>. USE DEF CommandsOnlyAdd, store, procVars
<1>1. CASE Start(p)
  BY <1>1, StartBegins DEF Begin
<1>2. ASSUME NEW b \in Blobs, MoveBlob(p, b)
      PROVE  CommandsOnlyAdd
  BY <1>2 DEF MoveBlob, SkipBlob, ReadBlob, OpenUpload, CommitUpload, LoseUpload, Mount, MountFails,
              CreateUpload, CommitBlob, AbandonUpload, MountBlob, MountMisses, Settles
<1>3. CASE Advance(p)
  <2>1. CASE PublishTag(p)
    BY <1>3, <2>1 DEF PublishTag, TagManifest, TypeOK
  <2>2. CASE Advance(p) /\ ~PublishTag(p)
    BY <2>2 DEF Advance, SettleLayers, AttachUnchanged, SettleConfig, SettleMounts, SkipManifest, MissManifest, StoreManifest,
                RetryManifest, FinishRead, Return, Stop, Publishing, PutManifest, AbandonUploads, Moves
  <2>. QED
    BY <1>3, <2>1, <2>2
<1>4. ASSUME NEW n \in Names, Remove(p, n)
      PROVE  CommandsOnlyAdd
  BY <1>4 DEF Remove, Untag, TypeOK
<1>. QED
  BY <1>1, <1>2, <1>3, <1>4 DEF Process

LEMMA ProcessPruneInv ==
  ASSUME PruneInv, TypeOK', CommandsOnlyAdd
  PROVE  PruneInv'
<1>1. SweepInv'
  BY DEF PruneInv, SweepInv, CommandsOnlyAdd, gcVars
<1>2. SteadyInv'
  BY DEF PruneInv, SteadyInv, CommandsOnlyAdd, gcVars, RepoMarked, Covered, Spared, Complete
<1>. QED
  BY <1>1, <1>2 DEF PruneInv

LEMMA MarkPruneInv ==
  ASSUME PruneInv, TypeOK', Mark
  PROVE  PruneInv'
<1>. USE DEF PruneInv, SweepInv, SteadyInv, store, procVars, UnchangedByMark, RepoMarked, Covered, Spared
<1>1. ASSUME NEW flags \in PruneFlags, StartPrune(flags)
      PROVE  PruneInv'
  BY <1>1 DEF StartPrune, Complete
<1>2. ASSUME NEW r \in Repos, MarkManifests(r)
      PROVE  PruneInv'
  <2>1. SweepInv'
    BY <1>2 DEF MarkManifests
  <2>2. ASSUME NEW n \in steady
        PROVE  /\ Complete(n[1], tags[n])'
               /\ gcPc' # "reclaimed" /\ RepoMarked(n[1])' => Covered(n)'
               /\ Spared(n)'
    <3>1. Complete(n[1], tags[n])' /\ n = <<n[1], n[2]>> /\ n[2] \in Tags
      BY <1>2 DEF MarkManifests, Complete, TypeOK
    <3>2. n[1] = r => tags[n] \in Marked(r)
      BY <3>1 DEF Marked, Untagged, Revisions, Complete
    <3>3. RepoMarked(n[1])' => Covered(n)'
      BY <1>2, <3>2, ZenonT(60) DEF MarkManifests
    <3>4. Spared(n)'
      BY <1>2, <3>2 DEF MarkManifests
    <3>. QED
      BY <3>1, <3>3, <3>4
  <2>. QED
    BY <1>2, <2>1, <2>2 DEF MarkManifests
<1>3. CASE CollectLinks
  <2>1. SweepInv'
    BY <1>3 DEF CollectLinks
  <2>2. ASSUME NEW n \in steady
        PROVE  /\ Complete(n[1], tags[n])'
               /\ gcPc' # "reclaimed" /\ RepoMarked(n[1])' => Covered(n)'
               /\ Spared(n)'
    BY <1>3 DEF CollectLinks, Complete
  <2>. QED
    BY <1>3, <2>1, <2>2 DEF CollectLinks
<1>4. CASE EndMark
  BY <1>4 DEF EndMark, Complete
<1>. QED
  BY <1>1, <1>2, <1>3, <1>4 DEF Mark

LEMMA SweepPruneInv ==
  ASSUME PruneInv, TypeOK', Sweep
  PROVE  PruneInv'
<1>. USE DEF PruneInv, SweepInv, SteadyInv, store, procVars, UnchangedByMark, RepoMarked, Covered, Spared
<1>1. ASSUME NEW x \in doomedRevs, RemoveRevision(x)
      PROVE  PruneInv'
  BY <1>1 DEF RemoveRevision, Complete
<1>2. CASE ListContents
  BY <1>2 DEF ListContents, Complete
<1>3. ASSUME NEW d \in doomedData, RemoveContent(d)
      PROVE  PruneInv'
  <2>1. \A n \in steady : d \notin Content(tags[n])
    BY <1>3 DEF RemoveContent
  <2>. QED
    BY <1>3, <2>1 DEF RemoveContent, Complete
<1>4. CASE EndContents
  BY <1>4 DEF EndContents, Complete
<1>5. ASSUME NEW l \in doomedLinks, RemoveLink(l)
      PROVE  PruneInv'
  <2>1. \A n \in steady : \A b \in RefsOf(tags[n]) : l # <<n[1], b>>
    BY <1>5
  <2>. QED
    BY <1>5, <2>1 DEF RemoveLink, Complete
<1>6. CASE PurgeUploads
  BY <1>6 DEF PurgeUploads, Complete
<1>. QED
  BY <1>1, <1>2, <1>3, <1>4, <1>5, <1>6 DEF Sweep

LEMMA LeavePruneInv ==
  ASSUME TypeOK', LeavePrune
  PROVE  PruneInv'
BY DEF LeavePrune, PruneInv, SweepInv, SteadyInv

\* What prune deletes is never part of a steady artifact.
THEOREM PruneInvariant == Spec => []PruneInv
<1>1. Init => PruneInv
  <2>1. Init => TypeOK
    BY InitTypeOK
  <2>. QED
    BY <2>1 DEF Init, IdleInit, GcOff, PruneInv, SweepInv, SteadyInv
<1>2. PruneInv /\ TypeOK' /\ [Next]_vars => PruneInv'
  <2>1. ASSUME PruneInv, TypeOK', NEW p \in Procs, Process(p)
        PROVE  PruneInv'
    BY <2>1, ProcessOnlyAdds, ProcessPruneInv DEF PruneInv
  <2>2. ASSUME PruneInv, TypeOK', UNCHANGED vars
        PROVE  PruneInv'
    BY <2>2 DEF PruneInv, SweepInv, SteadyInv, RepoMarked, Covered, Spared, Complete, vars, store, gcVars
  <2>. QED
    BY <2>1, <2>2, MarkPruneInv, SweepPruneInv, LeavePruneInv DEF Next, Prune, EndPrune, StopPrune
<1>. QED
  BY <1>1, <1>2, TypeCorrect, PTL DEF Spec

\* Prune never damages an artifact that was whole when it began and whose
\* name stays as it is, whatever the other commands do meanwhile and however
\* many names, repositories and processes there are (SteadySurvives).
THEOREM SteadyArtifactsSurvive == Spec => []SteadySurvives
<1>1. PruneInv => SteadySurvives
  BY DEF PruneInv, SteadyInv, SteadySurvives
<1>. QED
  BY <1>1, PruneInvariant, PTL

-----------------------------------------------------------------------------
(* Names resolve to whole artifacts when prune runs alone.                 *)
(*                                                                         *)
(* PruneInv does the work while prune runs: no command is active, so every *)
(* name that resolved when it began is steady.  Between prunes nothing is  *)
(* ever removed from the pool, so what PutManifest verified is still there *)
(* when the tag is written.                                                *)

AloneInv ==
  /\ TaggedComplete
  /\ \A p \in Procs : pc[p] = "settag" => Complete(Repo(p), cmd[p].man)
  /\ gcPc # "off" =>
       /\ \A p \in Procs : pc[p] = "idle"
       /\ \A n \in Names : tags[n] # NoManifest => n \in steady

\* Completeness survives every step that only adds.
LEMMA CompleteGrows ==
  ASSUME NEW r, NEW m, Complete(r, m), CommandsOnlyAdd
  PROVE  Complete(r, m)'
BY DEF Complete, CommandsOnlyAdd

LEMMA StoreManifestCompletes ==
  ASSUME TypeOK, NEW p \in Procs, StoreManifest(p)
  PROVE  Complete(Repo(p), cmd[p].man)'
<1>. DEFINE r == Repo(p)
            m == cmd[p].man
<1>1. cmd[p] \in Commands /\ cmd' = cmd
  BY DEF TypeOK, StoreManifest, Moves
<1>2. m \in Manifests
  BY <1>1 DEF Commands
<1>3. revs' = revs \cup {<<r, m>>} /\ data' = data \cup {m} /\ links' = links
  BY DEF StoreManifest, PutManifest
<1>4. \A b \in RefsOf(m) : <<r, b>> \in links /\ b \in data
  BY DEF StoreManifest, PutManifest, Verified, StatBlob
<1>5. /\ <<r, m>> \in revs'
      /\ Content(m) \subseteq data'
      /\ {r} \X RefsOf(m) \subseteq links'
  <2>. HIDE DEF r, m
  <2>1. <<r, m>> \in revs' /\ Content(m) \subseteq data'
    BY <1>3, <1>4
  <2>2. \A b \in RefsOf(m) : <<r, b>> \in links'
    BY <1>3, <1>4
  <2>. HIDE DEF RefsOf
  <2>3. {r} \X RefsOf(m) \subseteq links'
    BY <2>2
  <2>. QED
    BY <2>1, <2>3
<1>6. Repo(p)' = r /\ (cmd[p].man)' = m
  BY <1>1 DEF Repo
<1>. QED
  BY <1>2, <1>5, <1>6 DEF Complete

LEMMA ProcessAlone ==
  ASSUME PruneAlone, TypeOK, AloneInv, NEW p \in Procs, Process(p), CommandsOnlyAdd
  PROVE  AloneInv'
<1>1. gcPc = "off" /\ gcPc' = "off"
  <2>1. pc[p] # "idle" \/ gcPc = "off"
    <3>1. CASE Start(p)
      BY <3>1, StartBegins DEF Begin, CanStart
    <3>2. CASE ~Start(p)
      BY <3>2 DEF Process, CanStart, Remove, MoveBlob, SkipBlob, OpenUpload, CommitUpload, LoseUpload,
             Mount, MountFails, ReadBlob, Advance, SettleLayers, AttachUnchanged, SettleConfig, SettleMounts,
             SkipManifest, MissManifest, StoreManifest, PublishTag, RetryManifest, FinishRead, Return, Stop
    <3>. QED
      BY <3>1, <3>2
  <2>. QED
    BY <2>1 DEF AloneInv, CommandsOnlyAdd, gcVars
\* The tags and the commands about to write one, step by step.
<1>2. CASE PublishTag(p)
  <2>1. cmd[p] \in Commands /\ pc[p] = "settag"
    BY <1>2 DEF PublishTag, TypeOK
  <2>2. cmd[p].name \in Names
    BY <2>1 DEF Commands
  <2>3. tags' = [tags EXCEPT ![cmd[p].name] = cmd[p].man] /\ cmd' = cmd
    BY <1>2 DEF PublishTag, TagManifest
  <2>4. pc' = [pc EXCEPT ![p] = "done"]
    BY <1>2 DEF PublishTag
  <2>5. Complete(cmd[p].name[1], cmd[p].man)
    BY <2>1 DEF AloneInv, Repo
  <2>6. TaggedComplete'
    BY <2>2, <2>3, <2>5, CompleteGrows DEF AloneInv, TaggedComplete, TypeOK
  <2>. QED
    BY <1>1, <2>3, <2>4, <2>6, CompleteGrows DEF AloneInv, TypeOK, Repo
<1>3. CASE ~PublishTag(p)
  <2>1. /\ \A n \in Names : tags'[n] = tags[n] \/ tags'[n] = NoManifest
        /\ \A q \in Procs \ {p} : pc'[q] = pc[q] /\ cmd'[q] = cmd[q]
        /\ pc'[p] = "settag" => StoreManifest(p)
    <3>1. CASE Start(p)
      <4>1. PICK kind, n, m, from, source, blobs :
               \E phase \in {"layers", "config", "mount", "read"} :
                  Begin(p, kind, n, m, from, source, phase, blobs)
        BY <3>1, StartBegins
      <4>. QED
        BY <4>1 DEF Begin, TypeOK, store
    <3>2. CASE \E b \in Blobs : MoveBlob(p, b)
      BY <3>2 DEF MoveBlob, SkipBlob, ReadBlob, OpenUpload, CommitUpload, LoseUpload, Mount, MountFails,
                  CreateUpload, CommitBlob, AbandonUpload, MountBlob, MountMisses, Settles, TypeOK,
                  store, procVars
    <3>3. CASE Advance(p)
      BY <1>3, <3>3 DEF Advance, SettleLayers, AttachUnchanged, SettleConfig, SettleMounts, SkipManifest, MissManifest, StoreManifest,
                RetryManifest, FinishRead, Return, Stop, Publishing, PutManifest, AbandonUploads, Moves, TypeOK, store
    <3>4. CASE \E n \in Names : Remove(p, n)
      BY <1>1, <3>4 DEF Remove, Untag, CanStart, TypeOK, procVars
    <3>. QED
      BY <3>1, <3>2, <3>3, <3>4 DEF Process
  <2>2. TaggedComplete'
    BY <2>1, CompleteGrows DEF AloneInv, TaggedComplete
  <2>3. ASSUME NEW q \in Procs, pc'[q] = "settag"
        PROVE  Complete(Repo(q), cmd[q].man)'
    <3>1. CASE q = p
      BY <2>1, <2>3, <3>1, StoreManifestCompletes
    <3>2. CASE q # p
      <4>1. Complete(Repo(q), cmd[q].man)
        BY <2>1, <2>3, <3>2 DEF AloneInv
      <4>2. (Repo(q))' = Repo(q) /\ (cmd[q].man)' = cmd[q].man
        BY <2>1, <3>2 DEF Repo
      <4>. QED
        BY <4>1, <4>2, CompleteGrows DEF Complete
    <3>. QED
      BY <3>1, <3>2
  <2>. QED
    BY <1>1, <2>2, <2>3 DEF AloneInv
<1>. QED
  BY <1>2, <1>3

LEMMA PruneKeepsAlone ==
  ASSUME PruneAlone, TypeOK, PruneInv', AloneInv, Prune
  PROVE  AloneInv'
<1>1. UNCHANGED <<tags, procVars>> /\ \A p \in Procs : gcPc' # "off" => pc[p] = "idle"
  BY DEF AloneInv, Prune, Mark, Sweep, StartPrune, MarkManifests, CollectLinks, EndMark, RemoveRevision,
         ListContents, RemoveContent, EndContents, RemoveLink, PurgeUploads, EndPrune, StopPrune,
         LeavePrune, UnchangedByMark, store
<1>2. CASE gcPc' # "off"
  <2>1. \A n \in Names : tags[n] # NoManifest => n \in steady'
    <3>1. CASE \E flags \in PruneFlags : StartPrune(flags)
      BY <3>1 DEF AloneInv, TaggedComplete, StartPrune
    <3>2. CASE gcPc # "off" /\ steady' = steady
      BY <3>2 DEF AloneInv
    <3>. QED
      BY <1>2, <3>1, <3>2 DEF Prune, Mark, Sweep, MarkManifests, CollectLinks, EndMark, RemoveRevision,
         ListContents, RemoveContent, EndContents, RemoveLink, PurgeUploads, EndPrune, StopPrune,
         LeavePrune, UnchangedByMark
  <2>2. TaggedComplete'
    BY <1>1, <2>1 DEF PruneInv, SteadyInv, TaggedComplete
  <2>. QED
    BY <1>1, <1>2, <2>1, <2>2 DEF AloneInv, procVars
<1>3. CASE gcPc' = "off"
  <2>1. UNCHANGED store
    BY <1>3 DEF Prune, Mark, Sweep, StartPrune, MarkManifests, CollectLinks, EndMark, RemoveRevision,
         ListContents, RemoveContent, EndContents, RemoveLink, PurgeUploads, EndPrune, StopPrune,
         LeavePrune
  <2>. QED
    BY <1>1, <1>3, <2>1 DEF AloneInv, TaggedComplete, Complete, Repo, store, procVars
<1>. QED
  BY <1>2, <1>3

LEMMA AloneInvariant ==
  ASSUME PruneAlone
  PROVE  Spec => []AloneInv
<1>1. Init => AloneInv
  BY DEF Init, StoreInit, IdleInit, GcOff, AloneInv, TaggedComplete
<1>2. PruneInv /\ PruneInv' /\ AloneInv /\ [Next]_vars => AloneInv'
  <2>1. ASSUME PruneInv, AloneInv, NEW p \in Procs, Process(p)
        PROVE  AloneInv'
    BY <2>1, ProcessOnlyAdds, ProcessAlone DEF PruneInv
  <2>2. ASSUME AloneInv, UNCHANGED vars
        PROVE  AloneInv'
    BY <2>2 DEF AloneInv, TaggedComplete, Complete, Repo, vars, store, procVars, gcVars
  <2>. QED
    BY <2>1, <2>2, PruneKeepsAlone DEF Next, PruneInv
<1>. QED
  BY <1>1, <1>2, PruneInvariant, PTL DEF Spec

\* As long as prune runs alone, a name that resolves resolves to a whole
\* artifact (TaggedComplete), whatever commands and prunes were interleaved,
\* killed or retried before.
THEOREM TaggedArtifactsComplete ==
  ASSUME PruneAlone
  PROVE  Spec => []TaggedComplete
<1>1. AloneInv => TaggedComplete
  BY DEF AloneInv
<1>. QED
  BY <1>1, AloneInvariant, PTL

-----------------------------------------------------------------------------
(* The directory implements the catalogue of ArtifactCatalog.              *)

\* What a name shows when its artifact is whole.
Shown(m) == IF m = NoManifest THEN NoManifest ELSE Catalog!Whole(m)

\* Every step moves one name, removes one, or leaves all of them as they are.
LEMMA NamesChangeOneByOne ==
  ASSUME TypeOK, Next
  PROVE  \/ UNCHANGED tags
         \/ \E n \in Names, m \in Manifests : tags' = [tags EXCEPT ![n] = m]
         \/ \E n \in Names : tags' = [tags EXCEPT ![n] = NoManifest]
<1>. USE DEF store
<1>1. ASSUME NEW p \in Procs, Start(p)
      PROVE  UNCHANGED tags
  BY <1>1, StartBegins DEF Begin
<1>2. ASSUME NEW p \in Procs, NEW b \in Blobs, MoveBlob(p, b)
      PROVE  UNCHANGED tags
  BY <1>2 DEF MoveBlob, SkipBlob, ReadBlob, OpenUpload, CommitUpload, LoseUpload, Mount, MountFails,
              CreateUpload, CommitBlob, AbandonUpload, MountBlob, MountMisses
<1>3. ASSUME NEW p \in Procs, PublishTag(p)
      PROVE  \E n \in Names, m \in Manifests : tags' = [tags EXCEPT ![n] = m]
  <2>1. cmd[p].name \in Names /\ cmd[p].man \in Manifests
    BY <1>3 DEF PublishTag, TypeOK, Commands
  <2>. QED
    BY <1>3, <2>1 DEF PublishTag, TagManifest
<1>4. ASSUME NEW p \in Procs, Advance(p), ~PublishTag(p)
      PROVE  UNCHANGED tags
  BY <1>4 DEF Advance, SettleLayers, AttachUnchanged, SettleConfig, SettleMounts, SkipManifest, MissManifest,
               StoreManifest, RetryManifest, FinishRead, Return, Stop, Publishing, PutManifest, AbandonUploads, Moves
<1>5. ASSUME NEW p \in Procs, NEW n \in Names, Remove(p, n)
      PROVE  tags' = [tags EXCEPT ![n] = NoManifest]
  BY <1>5 DEF Remove, Untag
<1>6. CASE Prune
  BY <1>6 DEF Prune, Mark, Sweep, StartPrune, MarkManifests, CollectLinks, EndMark, RemoveRevision,
         ListContents, RemoveContent, EndContents, RemoveLink, PurgeUploads, EndPrune, StopPrune,
         LeavePrune, UnchangedByMark
<1>. QED
  BY <1>1, <1>2, <1>3, <1>4, <1>5, <1>6 DEF Next, Process

\* As long as prune runs alone, the storage directory implements the abstract
\* catalogue: each name absent or showing a whole artifact, changed one name
\* and one step at a time, with prune invisible (CatalogSpec).
THEOREM DirectoryImplementsCatalog ==
  ASSUME PruneAlone
  PROVE  Spec => CatalogSpec
<1>1. Init => Catalog!Init
  BY DEF Init, StoreInit, Catalog!Init, Visible
<1>2. TypeOK /\ TaggedComplete /\ TaggedComplete' /\ [Next]_vars =>
        [Catalog!Next]_([n \in Names |-> Visible(n)])
  <2>1. ASSUME TypeOK, TaggedComplete, TaggedComplete', [Next]_vars
        PROVE  [Catalog!Next]_([n \in Names |-> Visible(n)])
    <3>. DEFINE shown == [n \in Names |-> Visible(n)]
    <3>1. shown = [n \in Names |-> Shown(tags[n])] /\ shown' = [n \in Names |-> Shown(tags'[n])]
      <4>. USE DEF TaggedComplete, Complete, Visible, Shown, Catalog!Whole, StatBlob, StatManifest
      <4>1. \A n \in Names : Visible(n) = Shown(tags[n])
        BY <2>1
      <4>2. \A n \in Names : Visible(n)' = Shown(tags'[n])
        BY <2>1
      <4>. HIDE DEF Visible, Shown
      <4>. QED
        BY <4>1, <4>2
    <3>2. CASE UNCHANGED tags
      BY <3>1, <3>2
    <3>3. ASSUME NEW n \in Names, NEW m \in Manifests, tags' = [tags EXCEPT ![n] = m]
          PROVE  Catalog!Next
      <4>1. shown' = [shown EXCEPT ![n] = Catalog!Whole(m)]
        BY <2>1, <3>1, <3>3, ManifestAssumption DEF Shown, TypeOK
      <4>. QED
        BY <4>1 DEF Catalog!Next, Catalog!Publish
    <3>4. ASSUME NEW n \in Names, tags' = [tags EXCEPT ![n] = NoManifest]
          PROVE  Catalog!Next
      <4>1. shown' = [shown EXCEPT ![n] = NoManifest]
        BY <2>1, <3>1, <3>4 DEF Shown, TypeOK
      <4>. QED
        BY <4>1 DEF Catalog!Next, Catalog!Withdraw
    <3>. QED
      BY <2>1, <3>2, <3>3, <3>4, NamesChangeOneByOne DEF vars, store
  <2>. QED
    BY <2>1
<1>. QED
  BY <1>1, <1>2, TypeCorrect, TaggedArtifactsComplete, PTL DEF Spec, CatalogSpec, Catalog!Spec
=============================================================================
