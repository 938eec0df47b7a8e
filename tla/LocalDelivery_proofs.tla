------------------------ MODULE LocalDelivery_proofs ------------------------
(***************************************************************************)
(* More theorems about LocalCommands: what a command that reports success  *)
(* has delivered, what a reader finds, and what prune leaves behind.       *)
(***************************************************************************)
EXTENDS LocalCommands_proofs

-----------------------------------------------------------------------------
(* Success delivers.                                                       *)
(*                                                                         *)
(* A calm command sees a directory that only grows: what it has moved or   *)
(* found there stays.                                                      *)

Available(r, blobs) == \A b \in blobs : StatBlob(r, b)

\* What a pull has behind it; the other commands leave it to the storage to
\* check the references of the manifest they store.
PullBehind(p) ==
  /\ pc[p] = "layers"   => Available(Repo(p), LayersOf[cmd[p].man] \ want[p])
  /\ pc[p] = "config"   => Available(Repo(p), RefsOf(cmd[p].man) \ want[p])
  /\ pc[p] \in {"manifest", "push"} => Available(Repo(p), RefsOf(cmd[p].man))

CalmCommand(p) ==
  /\ pc[p] # "idle" /\ cmd[p].kind = "pull" => PullBehind(p)
  /\ pc[p] = "settag" => Complete(Repo(p), cmd[p].man)
  /\ pc[p] = "done" /\ cmd[p].kind \in Writers /\ ~Unchanged(p) => Complete(Repo(p), cmd[p].man)

\* What the phases tell of the command.
KindOf(p) ==
  /\ pc[p] = "read"  => cmd[p].kind = "read"
  /\ pc[p] = "mount" => cmd[p].kind = "tag"
  /\ pc[p] = "manifest" => cmd[p].kind = "pull"
  /\ pc[p] # "idle" /\ cmd[p].kind = "pull" => cmd[p].source = NoManifest

KindInv == \A p \in Procs : KindOf(p)

CalmInv ==
  /\ KindInv
  /\ calm # {} => gcPc = "off"
  /\ \A p \in calm : CalmCommand(p)

LEMMA AvailableIsComplete ==
  ASSUME NEW r, NEW m \in Manifests, StatManifest(r, m), Available(r, RefsOf(m))
  PROVE  Complete(r, m)
<1>1. \A b \in RefsOf(m) : <<r, b>> \in links /\ b \in data
  BY DEF Available, StatBlob
<1>2. {r} \X RefsOf(m) \subseteq links
  BY <1>1
<1>. QED
  BY <1>1, <1>2 DEF Complete, Content, StatManifest

LEMMA AvailableGrows ==
  ASSUME NEW r, NEW blobs, Available(r, blobs), CommandsOnlyAdd
  PROVE  Available(r, blobs)'
BY DEF Available, StatBlob, CommandsOnlyAdd

\* A process changes nothing of what the others are doing.
LEMMA OthersUntouched ==
  ASSUME TypeOK, NEW p \in Procs, Process(p), NEW q \in Procs \ {p}
  PROVE  /\ pc'[q] = pc[q] /\ cmd'[q] = cmd[q] /\ want'[q] = want[q]
         /\ q \in calm' => q \in calm
<1>. USE DEF TypeOK, history, procVars
<1>1. CASE Start(p)
  BY <1>1, StartBegins, ZenonT(60) DEF Begin
<1>2. ASSUME NEW b \in Blobs, MoveBlob(p, b)
      PROVE  /\ pc'[q] = pc[q] /\ cmd'[q] = cmd[q] /\ want'[q] = want[q] /\ calm' = calm
  BY <1>2 DEF MoveBlob, SkipBlob, ReadBlob, OpenUpload, CommitUpload, LoseUpload, Mount, MountFails, Settles
<1>3. CASE Advance(p)
  BY <1>3 DEF Advance, SettleLayers, AttachUnchanged, SettleConfig, SettleMounts, SkipManifest, MissManifest, StoreManifest,
              PublishTag, RetryManifest, FinishRead, Return, Stop, Publishing, Moves
<1>4. ASSUME NEW n \in Names, Remove(p, n)
      PROVE  UNCHANGED <<pc, cmd, want, calm>>
  BY <1>4 DEF Remove
<1>. QED
  BY <1>1, <1>2, <1>3, <1>4 DEF Process

\* What starting a command, moving a blob and advancing do to a process.
Sound(p) == KindOf(p) /\ (p \in calm => CalmCommand(p))

LEMMA StartSound ==
  ASSUME TypeOK, NEW p \in Procs, Start(p)
  PROVE  Sound(p)'
<1>. DEFINE Starts(kind, n, m, from, source, phase, blobs) ==
              /\ Begin(p, kind, n, m, from, source, phase, blobs)
              /\ phase \in {"layers", "config", "mount", "read"}
              /\ phase = "read" => kind = "read"
              /\ phase = "mount" => kind = "tag"
              /\ kind = "pull" => phase = "layers" /\ blobs = LayersOf[m] /\ source = NoManifest
<1>1. PICK kind, n, m, from, source, phase, blobs : Starts(kind, n, m, from, source, phase, blobs)
  <2>1. ASSUME NEW n \in Names, NEW m \in Manifests, StartPull(p, n, m) \/ StartBuild(p, n, m)
        PROVE  \E kind : Starts(kind, n, m, n[1], NoManifest, "layers", LayersOf[m])
    BY <2>1 DEF StartPull, StartBuild
  <2>2. ASSUME NEW s \in Names, NEW n \in Names, NEW m \in Manifests, StartAttach(p, s, n, m)
        PROVE  \E source, blobs : Starts("attach", n, m, s[1], source, "layers", blobs)
    BY <2>2 DEF StartAttach
  <2>3. ASSUME NEW s \in Names, NEW n \in Names, NEW m \in Manifests, StartAttachConfig(p, s, n, m)
        PROVE  Starts("attach", n, m, s[1], NoManifest, "config", {ConfigOf[m]})
    BY <2>3 DEF StartAttachConfig
  <2>4. ASSUME NEW s \in Names, NEW n \in Names, StartTag(p, s, n)
        PROVE  \E m : Starts("tag", n, m, s[1], NoManifest, "mount", RefsOf(m))
    BY <2>4 DEF StartTag
  <2>5. ASSUME NEW n \in Names, StartRead(p, n)
        PROVE  \E m : Starts("read", n, m, n[1], NoManifest, "read", RefsOf(m))
    BY <2>5 DEF StartRead
  <2>. HIDE DEF Starts
  <2>6. ASSUME NEW n \in Names, NEW m \in Manifests, StartPull(p, n, m) \/ StartBuild(p, n, m)
        PROVE  \E kind, from, source, phase, blobs : Starts(kind, n, m, from, source, phase, blobs)
    BY <2>1, <2>6
  <2>7. ASSUME NEW s \in Names, NEW n \in Names, NEW m \in Manifests,
               StartAttach(p, s, n, m) \/ StartAttachConfig(p, s, n, m)
        PROVE  \E kind, from, source, phase, blobs : Starts(kind, n, m, from, source, phase, blobs)
    BY <2>2, <2>3, <2>7
  <2>. QED
    BY <2>4, <2>5, <2>6, <2>7 DEF Start
<1>2. /\ pc'[p] = phase /\ want'[p] = blobs
      /\ cmd'[p] = [kind |-> kind, name |-> n, man |-> m, from |-> from, source |-> source]
  BY <1>1 DEF Begin, TypeOK
<1>3. phase = "layers" /\ kind = "pull" => LayersOf[m] \ blobs = {}
  BY <1>1
<1>. QED
  BY <1>1, <1>2, <1>3 DEF Sound, KindOf, CalmCommand, PullBehind, Available

LEMMA MoveBlobSound ==
  ASSUME TypeOK, NEW p \in Procs, NEW b \in Blobs, MoveBlob(p, b), Sound(p), CommandsOnlyAdd
  PROVE  Sound(p)'
<1>1. CASE MountFails(p, b)
  BY <1>1 DEF MountFails, Sound, KindOf, CalmCommand, TypeOK, history, PullBehind
<1>2. CASE OpenUpload(p, b) \/ LoseUpload(p, b) \/ Mount(p, b) \/ ReadBlob(p, b)
  <2>1. /\ pc' = pc /\ cmd' = cmd /\ calm' = calm /\ Repo(p)' = Repo(p)
        /\ want' = want \/ pc[p] \in {"mount", "read"}
    BY <1>2 DEF OpenUpload, LoseUpload, Mount, ReadBlob, Settles, history, procVars, Repo
  <2>2. p \in calm => CalmCommand(p)'
    BY <2>1, AvailableGrows, CompleteGrows DEF Sound, KindOf, CalmCommand, Unchanged, PullBehind
  <2>. QED
    BY <2>1, <2>2 DEF Sound, KindOf
<1>3. CASE SkipBlob(p, b) \/ CommitUpload(p, b)
  <2>1. /\ pc' = pc /\ cmd' = cmd /\ calm' = calm /\ Repo(p)' = Repo(p)
        /\ want'[p] = want[p] \ {b}
        /\ pc[p] \in {"layers", "config"}
    BY <1>3 DEF SkipBlob, CommitUpload, Settles, history, TypeOK, Repo
  <2>2. StatBlob(Repo(p), b)'
    BY <1>3, <2>1 DEF SkipBlob, CommitUpload, CommitBlob, StatBlob, store
  <2>3. ASSUME NEW blobs, Available(Repo(p), blobs \ want[p])
        PROVE  Available(Repo(p), blobs \ want[p])'
    BY <2>1, <2>2, <2>3 DEF Available, StatBlob, CommandsOnlyAdd
  <2>4. p \in calm => CalmCommand(p)'
    BY <2>1, <2>3 DEF Sound, KindOf, CalmCommand, PullBehind
  <2>. QED
    BY <2>1, <2>4 DEF Sound, KindOf
<1>. QED
  BY <1>1, <1>2, <1>3 DEF MoveBlob

LEMMA AdvanceSound ==
  ASSUME TypeOK, NEW p \in Procs, Advance(p), Sound(p), CommandsOnlyAdd
  PROVE  Sound(p)'
<1>. USE DEF TypeOK, Sound, KindOf, history
<1>1. CASE SettleLayers(p)
  <2>1. /\ pc[p] = "layers" /\ want[p] = {} /\ pc'[p] = "config"
        /\ want'[p] = {ConfigOf[cmd[p].man]}
        /\ cmd' = cmd /\ calm' = calm /\ Repo(p)' = Repo(p)
    BY <1>1 DEF SettleLayers, Repo
  <2>2. Available(Repo(p), LayersOf[cmd[p].man]) =>
          Available(Repo(p), RefsOf(cmd[p].man) \ {ConfigOf[cmd[p].man]})'
    <3>1. Available(Repo(p), LayersOf[cmd[p].man]) => Available(Repo(p), LayersOf[cmd[p].man])'
      BY <2>1, AvailableGrows
    <3>. QED
      BY <2>1, <3>1 DEF Available, RefsOf
  <2>3. \A S : S \ {} = S
    OBVIOUS
  <2>. QED
    BY <2>1, <2>2, <2>3 DEF CalmCommand, PullBehind
<1>2. CASE SettleConfig(p) \/ SettleMounts(p) \/ MissManifest(p)
  <2>1. /\ pc'[p] \in {"manifest", "push"} /\ cmd' = cmd /\ calm' = calm /\ Repo(p)' = Repo(p)
        /\ \/ pc[p] = "config" /\ want[p] = {}
           \/ cmd[p].kind = "tag"
           \/ pc[p] = "manifest"
        /\ pc'[p] = "manifest" => cmd[p].kind = "pull"
    BY <1>2 DEF SettleConfig, SettleMounts, MissManifest, Publishing, Moves, Repo
  <2>2. Available(Repo(p), RefsOf(cmd[p].man)) => Available(Repo(p), RefsOf(cmd[p].man))'
    BY <2>1, AvailableGrows
  <2>3. \A S : S \ {} = S
    OBVIOUS
  <2>. QED
    BY <2>1, <2>2, <2>3 DEF CalmCommand, PullBehind
<1>3. CASE SkipManifest(p)
  <2>1. /\ pc[p] = "manifest" /\ pc'[p] = "done" /\ cmd[p].kind = "pull"
        /\ cmd' = cmd /\ calm' = calm /\ Repo(p)' = Repo(p)
        /\ StatManifest(Repo(p), cmd[p].man)
        /\ cmd[p] \in Commands
    BY <1>3 DEF SkipManifest, Moves, Repo
  <2>2. p \in calm => Complete(Repo(p), cmd[p].man)
    BY <2>1, AvailableIsComplete DEF CalmCommand, PullBehind, Commands
  <2>3. p \in calm => Complete(Repo(p), cmd[p].man)'
    BY <2>1, <2>2, CompleteGrows
  <2>. QED
    BY <2>1, <2>3 DEF CalmCommand, PullBehind
<1>4. CASE StoreManifest(p)
  <2>1. pc[p] = "push" /\ pc'[p] = "settag" /\ cmd' = cmd /\ calm' = calm
    BY <1>4 DEF StoreManifest, Moves
  <2>. QED
    BY <1>4, <2>1, StoreManifestCompletes DEF CalmCommand, PullBehind
<1>5. CASE PublishTag(p)
  <2>1. /\ pc[p] = "settag" /\ pc'[p] = "done" /\ cmd' = cmd /\ calm' = calm /\ Repo(p)' = Repo(p)
    BY <1>5 DEF PublishTag, Repo
  <2>. QED
    BY <2>1, CompleteGrows DEF CalmCommand, PullBehind
<1>6. CASE RetryManifest(p)
  <2>1. /\ pc[p] = "settag" /\ pc'[p] \in {"manifest", "push"} /\ cmd' = cmd /\ calm' = calm
        /\ pc'[p] = "manifest" => cmd[p].kind = "pull"
        /\ Repo(p)' = Repo(p)
    BY <1>6 DEF RetryManifest, Publishing, Moves, Repo
  <2>2. Complete(Repo(p), cmd[p].man) => Available(Repo(p), RefsOf(cmd[p].man))
    BY DEF Complete, Available, StatBlob, Content
  <2>. QED
    BY <2>1, <2>2, AvailableGrows DEF CalmCommand, PullBehind
<1>7. CASE AttachUnchanged(p) \/ FinishRead(p)
  <2>1. /\ pc[p] # "idle" /\ pc'[p] = "done" /\ cmd' = cmd
        /\ Unchanged(p)' \/ cmd[p].kind = "read"
    BY <1>7 DEF AttachUnchanged, FinishRead, Moves, Unchanged
  <2>. QED
    BY <2>1 DEF CalmCommand, PullBehind, Writers
<1>8. CASE Return(p) \/ Stop(p)
  <2>1. pc'[p] = "idle"
    BY <1>8 DEF Return, Stop
  <2>. QED
    BY <2>1 DEF CalmCommand
<1>. QED
  BY <1>1, <1>2, <1>3, <1>4, <1>5, <1>6, <1>7, <1>8 DEF Advance

LEMMA ProcessCalmInv ==
  ASSUME TypeOK, CalmInv, NEW p \in Procs, Process(p)
  PROVE  CalmInv'
<1>1. CommandsOnlyAdd
  BY ProcessOnlyAdds
<1>2. Sound(p)
  BY DEF CalmInv, KindInv, KindOf, Sound
<1>3. Sound(p)'
  <2>1. ASSUME NEW n \in Names, Remove(p, n)
        PROVE  Sound(p)'
    BY <2>1 DEF Remove, CanStart, Sound, KindOf, CalmCommand, procVars
  <2>. QED
    BY <1>1, <1>2, <2>1, StartSound, MoveBlobSound, AdvanceSound DEF Process
<1>4. ASSUME NEW q \in Procs \ {p}
      PROVE  Sound(q)'
  <2>1. /\ pc'[q] = pc[q] /\ cmd'[q] = cmd[q] /\ want'[q] = want[q]
        /\ q \in calm' => q \in calm
        /\ Repo(q)' = Repo(q)
    BY OthersUntouched DEF Repo
  <2>2. q \in calm' => CalmCommand(q)'
    BY <1>1, <2>1, AvailableGrows, CompleteGrows DEF CalmInv, CalmCommand, Unchanged, PullBehind
  <2>. QED
    BY <2>1, <2>2 DEF CalmInv, KindInv, KindOf, Sound
<1>5. calm' # {} => gcPc' = "off"
  <2>1. gcPc' = gcPc
    BY <1>1 DEF CommandsOnlyAdd, gcVars
  <2>2. calm' \subseteq calm \/ gcPc = "off"
    <3>1. CASE Start(p)
      BY <3>1, StartBegins DEF Begin
    <3>2. CASE ~Start(p)
      BY <3>2 DEF Process, Remove, MoveBlob, SkipBlob, OpenUpload, CommitUpload, LoseUpload, Mount, MountFails,
             ReadBlob, Advance, SettleLayers, AttachUnchanged, SettleConfig, SettleMounts, SkipManifest,
             MissManifest, StoreManifest, PublishTag, RetryManifest, FinishRead, Return, Stop, Settles, Moves, history
    <3>. QED
      BY <3>1, <3>2
  <2>. QED
    BY <2>1, <2>2 DEF CalmInv
<1>6. \A q \in Procs : Sound(q)'
  BY <1>3, <1>4
<1>7. calm' \subseteq Procs
  BY <1>6, OthersUntouched, ProcessTypeOK DEF TypeOK
<1>. QED
  BY <1>5, <1>6, <1>7 DEF CalmInv, KindInv, KindOf, Sound

LEMMA PruneCalmInv ==
  ASSUME CalmInv, Prune
  PROVE  CalmInv'
<1>1. /\ UNCHANGED procVars
      /\ calm' = {} \/ (calm' = calm /\ (gcPc = "off" => gcPc' = "off" /\ UNCHANGED store))
  BY DEF Prune, Mark, Sweep, StartPrune, MarkManifests, CollectLinks, EndMark, RemoveRevision,
         ListContents, RemoveContent, EndContents, RemoveLink, PurgeUploads, EndPrune, StopPrune,
         LeavePrune, UnchangedByMark, history
<1>2. calm' = {} \/ (calm' = calm /\ gcPc = "off" /\ gcPc' = "off" /\ UNCHANGED store)
  BY <1>1 DEF CalmInv
<1>3. \A p \in calm' : CalmCommand(p)'
  BY <1>1, <1>2 DEF CalmInv, CalmCommand, Unchanged, PullBehind, Available, StatBlob, Complete, Repo, procVars, store
<1>. QED
  BY <1>1, <1>2, <1>3 DEF CalmInv, KindInv, KindOf, procVars

\* What a command that no prune overlapped has behind it is there.
THEOREM CalmInvariant == Spec => []CalmInv
<1>1. Init => CalmInv
  BY DEF Init, IdleInit, CalmInv, KindInv, KindOf
<1>2. TypeOK /\ CalmInv /\ [Next]_vars => CalmInv'
  <2>1. ASSUME CalmInv, UNCHANGED vars
        PROVE  CalmInv'
    BY <2>1 DEF CalmInv, KindInv, KindOf, CalmCommand, Unchanged, PullBehind, Available, StatBlob, Complete, Repo,
                vars, store, procVars, gcVars, history
  <2>. QED
    BY <2>1, ProcessCalmInv, PruneCalmInv DEF Next
<1>. QED
  BY <1>1, <1>2, TypeCorrect, PTL DEF Spec

\* A command that reports success and that no prune overlapped leaves its
\* artifact whole in the target repository (Delivered), even what it skipped,
\* in whatever state overlapping prunes had left the directory before.
THEOREM SuccessDelivers == Spec => []Delivered
<1>1. CalmInv => Delivered
  BY DEF CalmInv, CalmCommand, Delivered
<1>. QED
  BY <1>1, CalmInvariant, PTL

-----------------------------------------------------------------------------
(* Readers, and names with a single process.                               *)

\* Prune is off while a process takes a step.
LEMMA ProcessMeansPruneIsOff ==
  ASSUME PruneAlone, AloneInv, NEW p \in Procs, Process(p)
  PROVE  gcPc = "off"
<1>1. pc[p] # "idle" \/ gcPc = "off"
  <2>1. CASE Start(p)
    BY <2>1, StartBegins DEF Begin, CanStart
  <2>2. CASE ~Start(p)
    BY <2>2 DEF Process, CanStart, Remove, MoveBlob, SkipBlob, OpenUpload, CommitUpload, LoseUpload,
         Mount, MountFails, ReadBlob, Advance, SettleLayers, AttachUnchanged, SettleConfig, SettleMounts,
         SkipManifest, MissManifest, StoreManifest, PublishTag, RetryManifest, FinishRead, Return, Stop
  <2>. QED
    BY <2>1, <2>2
<1>. QED
  BY <1>1 DEF AloneInv

LEMMA ProcessServesReaders ==
  ASSUME TypeOK, AloneInv, NEW p \in Procs, Process(p), ReaderServed
  PROVE  ReaderServed'
<1>1. CommandsOnlyAdd
  BY ProcessOnlyAdds
<1>2. ASSUME NEW q \in Procs, pc[q] = "read", pc'[q] = "read",
             want'[q] \subseteq want[q], Repo(q)' = Repo(q)
      PROVE  \A b \in want'[q] : StatBlob(Repo(q), b)'
  BY <1>1, <1>2 DEF ReaderServed, StatBlob, CommandsOnlyAdd
<1>3. ASSUME NEW n \in Names, StartRead(p, n)
      PROVE  \A b \in want'[p] : StatBlob(Repo(p), b)'
  <2>1. PICK m \in Manifests :
           PullManifest(n, m) /\ Begin(p, "read", n, m, n[1], NoManifest, "read", RefsOf(m))
    BY <1>3 DEF StartRead
  <2>2. want'[p] = RefsOf(m) /\ Repo(p)' = n[1]
    BY <2>1 DEF Begin, TypeOK, Repo
  <2>3. Complete(n[1], m)
    BY <2>1 DEF PullManifest, AloneInv, TaggedComplete
  <2>4. \A b \in RefsOf(m) : StatBlob(n[1], b)
    BY <2>3 DEF Complete, StatBlob, Content
  <2>. QED
    BY <1>1, <2>2, <2>4 DEF StatBlob, CommandsOnlyAdd
<1>4. ASSUME pc'[p] = "read", \A n \in Names : ~StartRead(p, n)
      PROVE  pc[p] = "read" /\ want'[p] \subseteq want[p] /\ Repo(p)' = Repo(p)
  <2>1. ASSUME Start(p)
        PROVE  FALSE
    <3>1. ASSUME NEW s \in Names, NEW n \in Names, NEW m \in Manifests,
                 StartAttach(p, s, n, m) \/ StartAttachConfig(p, s, n, m)
          PROVE  FALSE
      BY <1>4, <3>1 DEF StartAttach, StartAttachConfig, Begin, TypeOK
    <3>2. ASSUME NEW n \in Names, NEW m \in Manifests, StartPull(p, n, m) \/ StartBuild(p, n, m)
          PROVE  FALSE
      BY <1>4, <3>2 DEF StartPull, StartBuild, Begin, TypeOK
    <3>3. ASSUME NEW s \in Names, NEW n \in Names, StartTag(p, s, n)
          PROVE  FALSE
      BY <1>4, <3>3 DEF StartTag, Begin, TypeOK
    <3>. QED
      BY <1>4, <2>1, <3>1, <3>2, <3>3 DEF Start
  <2>2. ASSUME NEW b \in Blobs, MoveBlob(p, b)
        PROVE  pc[p] = "read" /\ want'[p] \subseteq want[p] /\ Repo(p)' = Repo(p)
    BY <1>4, <2>2 DEF MoveBlob, SkipBlob, ReadBlob, OpenUpload, CommitUpload, LoseUpload, Mount, MountFails,
                      Settles, TypeOK, Repo, procVars
  <2>3. ASSUME Advance(p)
        PROVE  FALSE
    BY <1>4, <2>3 DEF Advance, SettleLayers, AttachUnchanged, SettleConfig, SettleMounts, SkipManifest, MissManifest, StoreManifest,
              PublishTag, RetryManifest, FinishRead, Return, Stop, Publishing, Moves, TypeOK
  <2>4. ASSUME NEW n \in Names, Remove(p, n)
        PROVE  pc[p] = "read" /\ want'[p] \subseteq want[p] /\ Repo(p)' = Repo(p)
    BY <1>4, <2>4 DEF Remove, procVars, Repo
  <2>. QED
    BY <2>1, <2>2, <2>3, <2>4 DEF Process
<1>5. ASSUME NEW q \in Procs \ {p}
      PROVE  pc'[q] = pc[q] /\ want'[q] = want[q] /\ Repo(q)' = Repo(q)
  BY OthersUntouched DEF Repo
<1>. QED
  BY <1>2, <1>3, <1>4, <1>5 DEF ReaderServed

\* As long as prune runs alone, extract and push find every blob of the
\* manifest they have read (ReaderServed), whatever other commands do to the
\* name meanwhile.
THEOREM ReadersAreServed ==
  ASSUME PruneAlone
  PROVE  Spec => []ReaderServed
<1>1. Init => ReaderServed
  BY DEF Init, IdleInit, ReaderServed
<1>2. TypeOK /\ AloneInv /\ AloneInv' /\ ReaderServed /\ [Next]_vars => ReaderServed'
  <2>1. ASSUME AloneInv, AloneInv', ReaderServed, Prune
        PROVE  ReaderServed'
    <3>1. UNCHANGED procVars /\ (gcPc' # "off" \/ UNCHANGED store)
      BY <2>1 DEF Prune, Mark, Sweep, StartPrune, MarkManifests, CollectLinks, EndMark, RemoveRevision,
         ListContents, RemoveContent, EndContents, RemoveLink, PurgeUploads, EndPrune, StopPrune,
         LeavePrune, UnchangedByMark
    <3>. QED
      BY <2>1, <3>1 DEF AloneInv, ReaderServed, StatBlob, Repo, procVars, store
  <2>2. ASSUME ReaderServed, UNCHANGED vars
        PROVE  ReaderServed'
    BY <2>2 DEF ReaderServed, StatBlob, Repo, vars, store, procVars
  <2>. QED
    BY <2>1, <2>2, ProcessServesReaders DEF Next
<1>. QED
  BY <1>1, <1>2, TypeCorrect, AloneInvariant, PTL DEF Spec

\* While nobody else moves or removes names, a command that reports success
\* has set the name it was given, unless it is a pull whose revision is in the
\* repository or an attach that changed no layer (SuccessPublishes).
THEOREM SuccessSetsTheName ==
  ASSUME \A p, q \in Procs : p = q
  PROVE  Spec => []SuccessPublishes
<1>. DEFINE Named(p) == tags[cmd[p].name] = cmd[p].man
            NamedInv == \A p \in Procs :
              pc[p] = "done" /\ cmd[p].kind \in Writers \ {"pull"} => Named(p) \/ Unchanged(p)
<1>1. Init => NamedInv
  BY DEF Init, IdleInit
<1>2. TypeOK /\ TypeOK' /\ CalmInv /\ NamedInv /\ [Next]_vars => NamedInv'
  <2>. SUFFICES ASSUME TypeOK, TypeOK', CalmInv, NamedInv, [Next]_vars, NEW p \in Procs,
                       pc'[p] = "done", cmd'[p].kind \in Writers \ {"pull"}
                PROVE  Named(p)' \/ Unchanged(p)'
    OBVIOUS
  <2>1. CASE UNCHANGED vars
    BY <2>1 DEF Unchanged, vars, store, procVars
  <2>2. CASE Prune
    BY <2>2 DEF Unchanged, Prune, Mark, Sweep, StartPrune, MarkManifests, CollectLinks, EndMark, RemoveRevision,
         ListContents, RemoveContent, EndContents, RemoveLink, PurgeUploads, EndPrune, StopPrune,
         LeavePrune, UnchangedByMark, procVars, store
  <2>3. CASE Start(p)
    BY <2>3, StartBegins DEF Begin, TypeOK
  <2>4. CASE \E n \in Names : Remove(p, n)
    BY <2>4 DEF CanStart, Remove, procVars
  <2>5. ASSUME NEW b \in Blobs, MoveBlob(p, b)
        PROVE  FALSE
    BY <2>5 DEF MoveBlob, SkipBlob, ReadBlob, OpenUpload, CommitUpload, LoseUpload, Mount, MountFails,
                Settles, TypeOK, procVars
  <2>6. CASE PublishTag(p)
    <3>1. cmd' = cmd /\ cmd'[p] \in Commands
      BY <2>6 DEF PublishTag, TypeOK
    <3>2. cmd[p].name \in Names
      BY <3>1 DEF Commands
    <3>. QED
      BY <2>6, <3>1, <3>2 DEF PublishTag, TagManifest, TypeOK, StoreTypeOK
  <2>7. CASE AttachUnchanged(p)
    BY <2>7 DEF AttachUnchanged, Unchanged, Moves
  <2>8. CASE Advance(p) /\ ~PublishTag(p) /\ ~AttachUnchanged(p)
    BY <2>8 DEF CalmInv, KindInv, KindOf, Writers, Advance, SettleLayers, SettleConfig, SettleMounts,
                SkipManifest, MissManifest, StoreManifest, RetryManifest, FinishRead, Return, Stop,
                Publishing, Moves, TypeOK
  <2>. QED
    BY <2>1, <2>2, <2>3, <2>4, <2>5, <2>6, <2>7, <2>8 DEF Next, Process
<1>3. TypeOK /\ CalmInv /\ NamedInv => SuccessPublishes
  <2>. SUFFICES ASSUME TypeOK, CalmInv, NamedInv, NEW p \in calm, pc[p] = "done",
                       cmd[p].kind \in Writers, tags[cmd[p].name] # cmd[p].man
                PROVE  (cmd[p].kind = "pull" /\ StatManifest(Repo(p), cmd[p].man)) \/ Unchanged(p)
    BY DEF SuccessPublishes
  <2>1. p \in Procs
    BY DEF TypeOK
  <2>2. CASE cmd[p].kind # "pull"
    BY <2>1, <2>2
  <2>3. CASE cmd[p].kind = "pull" /\ ~Unchanged(p)
    BY <2>3 DEF CalmInv, CalmCommand, Complete, StatManifest, Content
  <2>. QED
    BY <2>2, <2>3
<1>. QED
  BY <1>1, <1>2, <1>3, TypeCorrect, CalmInvariant, PTL DEF Spec

-----------------------------------------------------------------------------
(* What prune finds and leaves when it runs alone.                         *)

\* What of the manifests of repositories marked so far prune will keep.
MarkInv ==
  /\ keep \subseteq data
  /\ keep \subseteq UNION {Content(x[2]) : x \in Wanted}
  /\ \A m \in Manifests : m \in keep => Content(m) \subseteq keep
  /\ doomedRevs \cap Wanted = {}
  /\ \A x \in revs : RepoMarked(x[1]) => x \in doomedRevs \/ Content(x[2]) \subseteq keep
  /\ \A l \in links : l[1] \notin gcTodo => l \in doomedLinks \/ l[2] \in keep

\* What is gone already in the phases of the sweep.
ReclaimInv ==
  /\ gcPc \in {"blobs", "links"} => doomedRevs = {}
  /\ gcPc = "blobs" => data \subseteq keep \cup doomedData
  /\ gcPc = "links" => data \subseteq keep

ReadableInv ==
  /\ \A x \in revs : Content(x[2]) \subseteq data
  /\ gcPc \notin {"off", "reclaimed"} => MarkInv
  /\ gcPc \notin {"off", "reclaimed"} => ReclaimInv
  /\ PruneReclaims
LEMMA ProcessReadable ==
  ASSUME PruneAlone, TypeOK, AloneInv, ReadableInv, NEW p \in Procs, Process(p)
  PROVE  ReadableInv'
<1>1. CommandsOnlyAdd /\ gcPc = "off" /\ gcPc' = "off"
  BY ProcessOnlyAdds, ProcessMeansPruneIsOff DEF CommandsOnlyAdd, gcVars
<1>2. CASE StoreManifest(p)
  <2>1. cmd' = cmd /\ revs' = revs \cup {<<Repo(p), cmd[p].man>>}
    BY <1>2 DEF StoreManifest, Moves, PutManifest
  <2>2. Content(cmd[p].man) \subseteq data'
    BY <1>2, <2>1, StoreManifestCompletes DEF Complete
  <2>3. \A x \in revs' : Content(x[2]) \subseteq data'
    BY <1>1, <2>1, <2>2 DEF ReadableInv, CommandsOnlyAdd
  <2>. QED
    BY <1>1, <2>3 DEF ReadableInv, PruneReclaims
<1>3. CASE ~StoreManifest(p)
  <2>1. revs' = revs
    <3>1. CASE Start(p)
      BY <3>1, StartBegins DEF Begin, store
    <3>2. CASE ~Start(p)
      BY <1>3, <3>2 DEF Process, Remove, MoveBlob, SkipBlob, OpenUpload, CommitUpload, LoseUpload, Mount,
         MountFails, ReadBlob, Advance, SettleLayers, AttachUnchanged, SettleConfig, SettleMounts, SkipManifest,
         MissManifest, PublishTag, RetryManifest, FinishRead, Return, Stop, CreateUpload, CommitBlob,
         AbandonUpload, MountBlob, MountMisses, TagManifest, AbandonUploads, Untag, Moves, Settles, store
    <3>. QED
      BY <3>1, <3>2
  <2>. QED
    BY <1>1, <2>1 DEF ReadableInv, PruneReclaims, CommandsOnlyAdd
<1>. QED
  BY <1>2, <1>3

\* The manifests prune marks in a repository are the ones its flags ask for.
LEMMA MarkedAreWanted ==
  ASSUME TypeOK, NEW r \in Repos, NEW m \in Manifests
  PROVE  m \in Marked(r) <=> <<r, m>> \in Wanted
BY DEF Marked, Untagged, Revisions, Wanted

LEMMA ContentOfManifests ==
  ASSUME NEW m \in Manifests
  PROVE  Content(m) \subseteq Digests /\ \A k \in Manifests : k \in Content(m) => k = m
BY ManifestAssumption DEF Content, RefsOf, Digests

LEMMA MarkReadable ==
  ASSUME TypeOK, PruneInv, ReadableInv, Mark
  PROVE  ReadableInv'
<1>0. /\ UNCHANGED store
      /\ \A x \in revs : x[1] \in Repos /\ x[2] \in Manifests /\ x = <<x[1], x[2]>>
  BY DEF TypeOK, StoreTypeOK, Mark, StartPrune, MarkManifests, CollectLinks, EndMark, UnchangedByMark
<1>1. \A x \in revs' : Content(x[2]) \subseteq data'
  BY <1>0 DEF ReadableInv, store
<1>2. ASSUME NEW flags \in PruneFlags, StartPrune(flags)
      PROVE  ReadableInv'
  <2>1. keep' = {} /\ doomedRevs' = {} /\ gcTodo' = Repos /\ gcPc' = "mark"
    BY <1>2 DEF StartPrune, PruneInv, SweepInv
  <2>2. \A l \in links' : l[1] \in gcTodo'
    BY <1>0, <2>1 DEF TypeOK, StoreTypeOK, store
  <2>3. MarkInv'
    BY <1>0, <2>1, <2>2 DEF MarkInv, RepoMarked, store
  <2>. QED
    BY <1>1, <2>1, <2>3 DEF ReadableInv, ReclaimInv, PruneReclaims
<1>3. ASSUME NEW r \in Repos, MarkManifests(r)
      PROVE  ReadableInv'
  <2>1. /\ gcPc = "mark" /\ gcPc' = "layers" /\ gcRepo' = r /\ gcTodo' = gcTodo
        /\ keep' = keep \cup UNION {Content(m) : m \in Marked(r)}
        /\ doomedRevs' = doomedRevs \cup ({r} \X (Revisions(r) \ Marked(r)))
        /\ doomedLinks' = doomedLinks
    BY <1>3 DEF MarkManifests
  <2>2. Wanted' = Wanted /\ MarkInv
    BY <1>0, <1>3, <2>1 DEF MarkManifests, Wanted, store, ReadableInv
  <2>3. \A m \in Marked(r) : m \in Manifests /\ <<r, m>> \in Wanted /\ <<r, m>> \in revs
    BY MarkedAreWanted DEF Marked, Revisions, Untagged
  <2>4. keep' \subseteq data'
    <3>1. ASSUME NEW m \in Marked(r)
          PROVE  Content(m) \subseteq data
      <4>1. <<r, m>> \in revs /\ <<r, m>>[2] = m
        BY <2>3
      <4>. QED
        BY <4>1 DEF ReadableInv
    <3>. QED
      BY <1>0, <2>1, <2>2, <3>1 DEF MarkInv, store
  <2>5. keep' \subseteq UNION {Content(x[2]) : x \in Wanted'}
    <3>1. ASSUME NEW m \in Marked(r)
          PROVE  Content(m) \subseteq UNION {Content(x[2]) : x \in Wanted}
      <4>1. <<r, m>> \in Wanted /\ <<r, m>>[2] = m
        BY <2>3
      <4>. QED
        BY <4>1
    <3>. QED
      BY <2>1, <2>2, <3>1 DEF MarkInv
  <2>6. \A m \in Manifests : m \in keep' => Content(m) \subseteq keep'
    BY <2>1, <2>2, <2>3, ContentOfManifests DEF MarkInv
  <2>7. doomedRevs' \cap Wanted' = {}
    BY <2>1, <2>2, MarkedAreWanted DEF MarkInv, Revisions
  <2>8. ASSUME NEW x \in revs', RepoMarked(x[1])'
        PROVE  x \in doomedRevs' \/ Content(x[2]) \subseteq keep'
    <3>1. x \in revs /\ (x[1] \notin gcTodo \/ x[1] = r)
      BY <1>0, <2>1, <2>8 DEF RepoMarked, store
    <3>2. CASE x[1] = r
      BY <1>0, <2>1, <3>1, <3>2 DEF Revisions
    <3>3. CASE x[1] \notin gcTodo
      BY <2>1, <2>2, <3>1, <3>3 DEF MarkInv, RepoMarked
    <3>. QED
      BY <3>1, <3>2, <3>3
  <2>9. \A l \in links' : l[1] \notin gcTodo' => l \in doomedLinks' \/ l[2] \in keep'
    BY <1>0, <2>1, <2>2 DEF MarkInv, store
  <2>10. MarkInv'
    BY <2>4, <2>5, <2>6, <2>7, <2>8, <2>9 DEF MarkInv
  <2>. QED
    BY <1>1, <2>1, <2>10 DEF ReadableInv, ReclaimInv, PruneReclaims
<1>4. CASE CollectLinks
  <2>1. /\ gcPc = "layers" /\ gcPc' = "mark" /\ gcTodo' = gcTodo \ {gcRepo}
        /\ doomedLinks' = doomedLinks \cup {l \in links : l[1] = gcRepo /\ l[2] \notin keep}
        /\ UNCHANGED <<gcOpts, gcRepo, keep, doomedRevs, doomedData>>
    BY <1>4 DEF CollectLinks
  <2>2. Wanted' = Wanted /\ MarkInv
    BY <1>0, <2>1 DEF Wanted, store, ReadableInv
  <2>3. \A x \in revs : RepoMarked(x[1])' => RepoMarked(x[1])
    BY <2>1 DEF RepoMarked
  <2>4. MarkInv'
    BY <1>0, <2>1, <2>2, <2>3 DEF MarkInv, store
  <2>. QED
    BY <1>1, <2>1, <2>4 DEF ReadableInv, ReclaimInv, PruneReclaims
<1>5. CASE EndMark
  <2>1. /\ gcPc = "mark" /\ gcTodo = {} /\ gcPc' = IF gcOpts.dryRun THEN "reclaimed" ELSE "revs"
        /\ doomedRevs' = {x \in doomedRevs : x[2] \notin keep}
        /\ UNCHANGED <<gcOpts, gcTodo, gcRepo, keep, doomedData, doomedLinks>>
    BY <1>5 DEF EndMark
  <2>2. Wanted' = Wanted /\ MarkInv
    BY <1>0, <2>1 DEF Wanted, store, ReadableInv
  <2>3. \A x \in revs : x \in doomedRevs' \/ Content(x[2]) \subseteq keep'
    BY <1>0, <2>1, <2>2 DEF MarkInv, RepoMarked
  <2>4. MarkInv'
    BY <1>0, <2>1, <2>2, <2>3 DEF MarkInv, store
  <2>. QED
    BY <1>1, <2>1, <2>4 DEF ReadableInv, ReclaimInv, PruneReclaims
<1>. QED
  BY <1>2, <1>3, <1>4, <1>5 DEF Mark

LEMMA SweepReadable ==
  ASSUME TypeOK, PruneInv, ReadableInv, Sweep
  PROVE  ReadableInv'
<1>0. /\ gcTodo = {} /\ UNCHANGED <<gcOpts, gcTodo, gcRepo, keep, tags>>
      /\ gcPc \in {"revs", "blobs", "links"} /\ MarkInv /\ ReclaimInv
  BY DEF Sweep, RemoveRevision, ListContents, RemoveContent, EndContents, RemoveLink, PurgeUploads, UnchangedByMark,
         store, PruneInv, SweepInv, ReadableInv
<1>1. \A x \in revs : x \in doomedRevs \/ Content(x[2]) \subseteq keep
  BY <1>0 DEF MarkInv, RepoMarked
<1>2. \A l \in links : l \in doomedLinks \/ l[2] \in keep
  BY <1>0 DEF MarkInv
<1>3. ASSUME NEW x \in doomedRevs, RemoveRevision(x)
      PROVE  ReadableInv'
  <2>1. /\ gcPc = "revs" /\ gcPc' = "revs" /\ revs' = revs \ {x} /\ doomedRevs' = doomedRevs \ {x}
        /\ UNCHANGED <<data, links, doomedData, doomedLinks>>
    BY <1>3 DEF RemoveRevision
  <2>2. Wanted' = Wanted
    BY <1>0, <2>1 DEF MarkInv, Wanted
  <2>3. MarkInv'
    BY <1>0, <1>1, <2>1, <2>2 DEF MarkInv
  <2>. QED
    BY <2>1, <2>3 DEF ReadableInv, ReclaimInv, PruneReclaims
<1>4. CASE ListContents
  <2>1. /\ gcPc' = "blobs" /\ doomedRevs = {} /\ doomedData' = data \ keep
        /\ UNCHANGED <<data, links, revs, doomedRevs, doomedLinks>>
    BY <1>4 DEF ListContents, UnchangedByMark, store
  <2>2. Wanted' = Wanted
    BY <1>0, <2>1 DEF Wanted
  <2>3. MarkInv'
    BY <1>0, <1>1, <2>1, <2>2 DEF MarkInv
  <2>. QED
    BY <2>1, <2>3, <1>0 DEF ReadableInv, ReclaimInv, PruneReclaims
<1>5. ASSUME NEW d \in doomedData, RemoveContent(d)
      PROVE  ReadableInv'
  <2>1. /\ gcPc = "blobs" /\ gcPc' = "blobs" /\ data' = data \ {d} /\ doomedData' = doomedData \ {d}
        /\ UNCHANGED <<links, revs, doomedRevs, doomedLinks>>
    BY <1>5 DEF RemoveContent
  <2>2. d \notin keep /\ doomedRevs = {}
    BY <1>0, <2>1 DEF PruneInv, SweepInv, ReclaimInv
  <2>3. \A x \in revs' : Content(x[2]) \subseteq data'
    BY <1>1, <2>1, <2>2 DEF ReadableInv
  <2>4. Wanted' = Wanted
    BY <1>0, <2>1 DEF Wanted
  <2>5. MarkInv'
    BY <1>0, <1>1, <2>1, <2>2, <2>4 DEF MarkInv
  <2>6. ReclaimInv'
    BY <1>0, <2>1, <2>2 DEF ReclaimInv
  <2>. QED
    BY <2>1, <2>3, <2>5, <2>6 DEF ReadableInv, PruneReclaims
<1>6. CASE EndContents
  <2>1. /\ gcPc = "blobs" /\ doomedData = {} /\ gcPc' = "links"
        /\ UNCHANGED <<data, links, revs, doomedRevs, doomedData, doomedLinks>>
    BY <1>6 DEF EndContents, UnchangedByMark, store
  <2>2. Wanted' = Wanted
    BY <1>0, <2>1 DEF Wanted
  <2>3. MarkInv'
    BY <1>0, <1>1, <2>1, <2>2 DEF MarkInv
  <2>. QED
    BY <1>0, <2>1, <2>3 DEF ReadableInv, ReclaimInv, PruneReclaims
<1>7. ASSUME NEW l \in doomedLinks, RemoveLink(l)
      PROVE  ReadableInv'
  <2>1. /\ gcPc = "links" /\ gcPc' = "links" /\ links' = links \ {l} /\ doomedLinks' = doomedLinks \ {l}
        /\ UNCHANGED <<data, revs, doomedRevs, doomedData>>
    BY <1>7 DEF RemoveLink
  <2>2. Wanted' = Wanted
    BY <1>0, <2>1 DEF Wanted
  <2>3. MarkInv'
    BY <1>0, <1>1, <1>2, <2>1, <2>2 DEF MarkInv
  <2>. QED
    BY <1>0, <2>1, <2>3 DEF ReadableInv, ReclaimInv, PruneReclaims
<1>8. CASE PurgeUploads
  <2>1. /\ gcPc = "links" /\ gcPc' = "reclaimed" /\ doomedLinks = {} /\ uploads' = {}
        /\ UNCHANGED <<data, links, revs>>
    BY <1>8 DEF PurgeUploads
  <2>2. Wanted' = Wanted
    BY <1>0, <2>1 DEF Wanted
  <2>3. data \subseteq keep /\ keep \subseteq data
    BY <1>0, <2>1 DEF ReclaimInv, MarkInv
  <2>4. \A l \in links : l[2] \in data
    BY <1>2, <2>1, <2>3
  <2>5. PruneReclaims'
    BY <1>0, <2>1, <2>2, <2>3, <2>4 DEF MarkInv, PruneReclaims
  <2>. QED
    BY <2>1, <2>5 DEF ReadableInv
<1>. QED
  BY <1>3, <1>4, <1>5, <1>6, <1>7, <1>8 DEF Sweep

LEMMA ReadableInvariant ==
  ASSUME PruneAlone
  PROVE  Spec => []ReadableInv
<1>1. Init => ReadableInv
  BY DEF Init, StoreInit, IdleInit, GcOff, ReadableInv, PruneReclaims
<1>2. TypeOK /\ PruneInv /\ AloneInv /\ ReadableInv /\ [Next]_vars => ReadableInv'
  <2>1. ASSUME ReadableInv, LeavePrune
        PROVE  ReadableInv'
    BY <2>1 DEF LeavePrune, ReadableInv, PruneReclaims, store
  <2>2. ASSUME ReadableInv, UNCHANGED vars
        PROVE  ReadableInv'
    BY <2>2 DEF ReadableInv, MarkInv, ReclaimInv, PruneReclaims, Wanted, RepoMarked, vars, store, gcVars
  <2>. QED
    BY <2>1, <2>2, ProcessReadable, MarkReadable, SweepReadable DEF Next, Prune, EndPrune, StopPrune
<1>. QED
  BY <1>1, <1>2, TypeCorrect, PruneInvariant, AloneInvariant, PTL DEF Spec

\* When prune returns, the pool holds nothing but what the manifests it keeps
\* consist of, no layer link dangles and no upload session is left
\* (PruneReclaims), whatever earlier commands and prunes left behind when they
\* were killed, provided none runs while prune does.
THEOREM PruneLeavesNoGarbage ==
  ASSUME PruneAlone
  PROVE  Spec => []PruneReclaims
<1>1. ReadableInv => PruneReclaims
  BY DEF ReadableInv
<1>. QED
  BY <1>1, ReadableInvariant, PTL

\* A prune that was killed never leaves a revision without its manifest, so
\* that the next one can read what it has to mark (PruneCanRead).
THEOREM PruneStaysPossible ==
  ASSUME PruneAlone
  PROVE  Spec => []PruneCanRead
<1>1. ReadableInv => PruneCanRead
  BY DEF ReadableInv, PruneCanRead, Content
<1>. QED
  BY <1>1, ReadableInvariant, PTL
=============================================================================
