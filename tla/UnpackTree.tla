----------------------------- MODULE UnpackTree -----------------------------
(***************************************************************************)
(* The commands that unpack an artifact into a directory, as groups of     *)
(* goroutines, one per layer and at most Concurrency at a time:            *)
(*                                                                         *)
(*   extract    from the local storage (pkg/backend/extract.go)            *)
(*   fetch      the layers that match patterns, from a registry            *)
(*   pull       with --extract-from-remote (pkg/backend/pull.go)           *)
(*   dragonfly  pull and fetch through a daemon on this machine, which     *)
(*              writes each layer to a file of the directory               *)
(*              (pull_by_d7y.go, fetch_by_d7y.go)                          *)
(*                                                                         *)
(* Tar layers are unpacked by archiver.Untar, under the name in the tar    *)
(* header; a daemon leaves them beside it, in a file that is removed       *)
(* afterwards.  Raw layers matter here only when a daemon writes them: the *)
(* other commands decode them as OutputFile describes.                     *)
(***************************************************************************)
EXTENDS FiniteSets, Functions, Naturals, Sequences

CONSTANTS
  Layers,       \* layers, one file each
  TarLayers,    \* those whose media type ends in .tar
  ReadOnly,     \* those whose file has no write permission
  Paths,        \* files of the directory
  PathOf,       \* the path a layer is annotated with
  NameOf,       \* the name in the header of a tar layer: PathOf, or another one
                \* with the same base name when it was attached to a directory
  TempOf,       \* a path with ".tar" appended
  Above,        \* the paths of the directories above a path
  Dotted,       \* tar layers whose header has ".." in the name: a file weights..bin,
                \* or one attached from outside the work directory
  Artifacts,    \* lists of layers: the manifests
  PatternLists, \* lists of patterns, each the set of layers it matches
  Edited,       \* layers whose file was edited while it was packed
  Concurrency,  \* the limit of the group
  Attempts,     \* of retry.Do, 6 in the code
  MaxFaults,    \* bound on the faults that strike a layer during a command
  None          \* no layer

ASSUME UnpackAssumption ==
  /\ TarLayers \subseteq Layers /\ ReadOnly \subseteq Layers /\ Edited \subseteq TarLayers
  /\ PathOf \in [Layers -> Paths]
  /\ NameOf \in [Layers -> Paths]
  /\ TempOf \in [Paths -> Paths]
  /\ \A l \in TarLayers : NameOf[l] # TempOf[PathOf[l]]
  /\ Above \in [Paths -> SUBSET Paths] /\ \A p \in Paths : p \notin Above[p]
  /\ Dotted \subseteq TarLayers
  /\ Artifacts \subseteq Seq(Layers)
  /\ PatternLists \subseteq Seq(SUBSET Layers)
  /\ Concurrency \in Nat \ {0} /\ Attempts \in Nat \ {0}
  /\ MaxFaults \in Nat
  /\ None \notin Layers

\* A file: whose bytes it holds, as the file itself or packed in an archive,
\* how many of them, and whether it may be written.
File    == {f \in [of : Layers \cup {None}, packed : BOOLEAN, locked : BOOLEAN,
                   state : {"none", "empty", "part", "whole", "wrong"}] :
              f.packed => f.of # None}
Missing == [of |-> None, packed |-> FALSE, locked |-> FALSE, state |-> "none"]

Ways  == {"extract", "fetch", "pull", "dragonfly"}
Steps == {"wait", "get", "recv", "fill", "open", "entry", "copy", "seal", "check", "remove",
          "done", "failed", "cancelled"}

VARIABLES
  manifest,     \* the artifact that commands unpack here
  archive,      \* of each tar layer: whole, or cut short when it was built
  file,         \* the files of the directory
  dirs,         \* the paths at which it has a directory
  result,       \* of the command: running, or how the last one ended
  way,          \* which command it is
  jobs,         \* its layers: the i-th of the artifact, taken by the k-th pattern
  at,           \* the step of the goroutine of each
  tries,        \* the attempts it has begun
  held,         \* the archive it has opened
  faults,       \* history: the faults that struck each job
  lockedBefore, \* history: files that were read-only when the command began
  barredBefore, \* history: paths where no file could be written then
  expired       \* the registry no longer accepts the token or credentials

jobVars     == <<at, tries, held, faults>>
commandVars == <<way, jobs, lockedBefore, barredBefore>>
vars        == <<manifest, archive, file, dirs, result, expired, commandVars, jobVars>>

Jobs == DOMAIN jobs

-----------------------------------------------------------------------------
\* Tar: the header has the size os.Stat found.  More bytes than that are an
\* error; with fewer the error of tw.Close is dropped and the stream just ends.
Encode(stat, read) ==
  IF read > stat THEN "error" ELSE IF read < stat THEN "short" ELSE "whole"

Archives == {Encode(stat, read) : stat, read \in 1..2} \ {"error"}

TypeOK ==
  /\ manifest \in Artifacts
  /\ archive \in [TarLayers -> Archives]
  /\ file \in [Paths -> File]
  /\ result \in {"none", "running", "ok", "failed", "killed"}
  /\ way \in Ways
  /\ Jobs \subseteq Nat \X Nat
  /\ jobs \in [Jobs -> Layers]
  /\ at \in [Jobs -> Steps]
  /\ tries \in [Jobs -> 0..Attempts]
  /\ held \in [Jobs -> File]
  /\ faults \in [Jobs -> 0..MaxFaults]
  /\ lockedBefore \subseteq Paths /\ barredBefore \subseteq Paths
  /\ dirs \subseteq Paths
  /\ expired \in BOOLEAN

Init ==
  /\ manifest \in Artifacts
  /\ archive \in [TarLayers -> Archives]
  /\ \A l \in TarLayers : l \notin Edited \cap Range(manifest) => archive[l] = "whole"
  /\ file = [p \in Paths |-> Missing] /\ dirs = {}
  /\ result = "none" /\ way = "extract" /\ jobs = <<>>
  /\ at = <<>> /\ tries = <<>> /\ held = <<>> /\ faults = <<>>
  /\ lockedBefore = {} /\ barredBefore = {} /\ expired = FALSE

\* Untar puts a file where its header says, whatever the annotation.
Target(l) == IF l \in TarLayers THEN NameOf[l] ELSE PathOf[l]

Temp(l) == TempOf[PathOf[l]]

\* outputPath of a download.
Download(l) == IF l \in TarLayers THEN Temp(l) ELSE PathOf[l]

Retries(w) == IF w \in {"pull", "dragonfly"} THEN Attempts ELSE 1

Busy      == {j \in Jobs : at[j] \notin {"wait", "done", "failed", "cancelled"}}
Cancelled == \E j \in Jobs : at[j] = "failed"

Goes(j, s)  == at' = [at EXCEPT ![j] = s]
Holds(j, f) == held' = [held EXCEPT ![j] = f]
Puts(p, f)  == file' = [file EXCEPT ![p] = f]

\* MkdirAll fails when a directory above p is a file, OpenFile when p is one.
FileAbove(p) == \E q \in Above[p] : file[q] # Missing
Barred(p)    == FileAbove(p) \/ p \in dirs

\* MkdirAll(filepath.Dir(p)).
MakesRoom(p) == ~FileAbove(p) /\ dirs' = dirs \cup Above[p]

\* The goroutine of j is at step s of a command.
AtStep(j, s) == result = "running" /\ at[j] = s

\* Wrong variant: the limit counts the retries after the first attempt.
FailsOnceMore(j) ==
  /\ IF tries[j] <= Retries(way) /\ ~Cancelled
     THEN Goes(j, "get") /\ tries' = [tries EXCEPT ![j] = @ + 1]
     ELSE Goes(j, "failed") /\ UNCHANGED tries
  /\ Holds(j, Missing)

\* Wrong variant: the attempts are not counted.
FailsForever(j) ==
  /\ IF ~Cancelled THEN Goes(j, "get") ELSE Goes(j, "failed")
  /\ UNCHANGED tries
  /\ Holds(j, Missing)

\* retry.Do: once more from the start, unless the attempts are used up or the
\* group has been cancelled.
Fails(j) ==
  /\ IF tries[j] < Retries(way) /\ ~Cancelled
     THEN Goes(j, "get") /\ tries' = [tries EXCEPT ![j] = @ + 1]
     ELSE Goes(j, "failed") /\ UNCHANGED tries
  /\ Holds(j, Missing)

-----------------------------------------------------------------------------
(***************************************************************************)
(* The command.                                                            *)
(***************************************************************************)

\* A layer is taken once for every pattern that matches its annotation.
Selected(patterns) ==
  {x \in (DOMAIN manifest) \X (DOMAIN patterns) : manifest[x[1]] \in patterns[x[2]]}

\* The layers a daemon is asked for, or those this module decodes itself.
Decoded(w, selected) ==
  {x \in selected : w = "dragonfly" \/ manifest[x[1]] \in TarLayers}

Start(w, patterns) ==
  LET js == Decoded(w, Selected(patterns))
  IN  /\ result # "running"
      /\ result' = "running"
      /\ way' = w
      /\ jobs' = [j \in js |-> manifest[j[1]]]
      /\ at' = [j \in js |-> "wait"]
      /\ tries' = [j \in js |-> 0]
      /\ held' = [j \in js |-> Missing]
      /\ faults' = [j \in js |-> 0]
      /\ lockedBefore' = {p \in Paths : file[p].locked}
      /\ barredBefore' = {p \in Paths : Barred(p)}
      /\ expired' = FALSE
      /\ UNCHANGED <<manifest, archive, dirs, file>>

\* Every layer, once.
StartAll(w) == Start(w, <<Layers>>)

\* "no layers matched the patterns" is an error.
StartFetch(w, patterns) == Selected(patterns) # {} /\ Start(w, patterns)

\* The loop over the layers: in order, blocking at the limit.
Before(k, j) == k[1] < j[1] \/ (k[1] = j[1] /\ k[2] < j[2])

Dispatch(j) ==
  /\ AtStep(j, "wait")
  /\ \A k \in Jobs : Before(k, j) => at[k] # "wait"
  /\ Cardinality(Busy) < Concurrency
  /\ IF Cancelled
     THEN Goes(j, "cancelled") /\ UNCHANGED tries
     ELSE Goes(j, "get") /\ tries' = [tries EXCEPT ![j] = 1]
  /\ UNCHANGED <<manifest, archive, dirs, file, result, expired, commandVars, held, faults>>

\* g.Wait.
Return ==
  /\ result = "running"
  /\ \A j \in Jobs : at[j] \in {"done", "failed", "cancelled"}
  /\ result' = IF Cancelled THEN "failed" ELSE "ok"
  /\ tries' = [j \in Jobs |-> 0]
  /\ held' = [j \in Jobs |-> Missing]
  /\ UNCHANGED <<manifest, archive, dirs, file, expired, commandVars, at, faults>>

\* The process dies; what it has written stays.
Kill ==
  /\ result = "running"
  /\ result' = "killed"
  /\ jobs' = <<>> /\ at' = <<>> /\ tries' = <<>> /\ held' = <<>> /\ faults' = <<>>
  /\ lockedBefore' = {} /\ barredBefore' = {} /\ expired' = FALSE
  /\ UNCHANGED <<manifest, archive, dirs, file, way>>

\* A token is fetched once, before the downloads; credentials can be revoked.
Expire ==
  /\ result = "running" /\ way # "extract" /\ ~expired
  /\ \E j \in Jobs : at[j] = "get"
  /\ expired' = TRUE
  /\ UNCHANGED <<manifest, archive, dirs, file, result, commandVars, jobVars>>

-----------------------------------------------------------------------------
(***************************************************************************)
(* Streams: the blob is read from the storage or the registry straight     *)
(* into Untar.                                                             *)
(***************************************************************************)

\* The archive of a layer, as it was stored.
Packed(l) == [of |-> l, packed |-> TRUE, locked |-> FALSE,
              state |-> IF archive[l] = "short" THEN "part" ELSE "whole"]

Strikes(j) ==
  /\ faults[j] < MaxFaults
  /\ faults' = [faults EXCEPT ![j] = @ + 1]

\* A registry can send other bytes.
OpenStream(j) ==
  /\ AtStep(j, "get") /\ way # "dragonfly" /\ ~expired
  /\ Goes(j, "entry")
  /\ \/ Holds(j, Packed(jobs[j])) /\ UNCHANGED faults
     \/ way # "extract" /\ Strikes(j) /\ Holds(j, [Packed(jobs[j]) EXCEPT !.state = "wrong"])
  /\ UNCHANGED <<manifest, archive, dirs, file, result, expired, commandVars, tries>>

\* An answer 401 or 403 is not retried.
Refused(j) ==
  /\ AtStep(j, "get") /\ way # "dragonfly" /\ expired
  /\ Goes(j, "failed")
  /\ UNCHANGED <<manifest, archive, dirs, file, result, expired, commandVars, tries, held, faults>>

\* The digest of what was read is compared when the file is there already.
Accept(j) ==
  /\ AtStep(j, "check")
  /\ held[j].state # "wrong"
  /\ Goes(j, "done") /\ Holds(j, Missing)
  /\ UNCHANGED <<manifest, archive, dirs, file, result, expired, commandVars, tries, faults>>

Reject(j) ==
  /\ AtStep(j, "check")
  /\ held[j].state = "wrong"
  /\ Fails(j)
  /\ UNCHANGED <<manifest, archive, dirs, file, result, expired, commandVars, faults>>

-----------------------------------------------------------------------------
(***************************************************************************)
(* Downloads by the daemon.                                                *)
(***************************************************************************)

\* DownloadTask is answered by a stream of progress messages.
Request(j) ==
  /\ AtStep(j, "get") /\ way = "dragonfly"
  /\ MakesRoom(Download(jobs[j]))
  /\ IF expired THEN Fails(j) ELSE Goes(j, "recv") /\ UNCHANGED <<tries, held>>
  /\ UNCHANGED <<manifest, archive, file, result, expired, commandVars, faults>>

\* The directories cannot be made, or the daemon finds one where the file goes.
Obstructed(j) ==
  /\ result = "running" /\ way = "dragonfly"
  /\ \/ at[j] = "get" /\ FileAbove(Download(jobs[j]))
     \/ at[j] \in {"recv", "fill"} /\ Barred(Download(jobs[j]))
  /\ Fails(j)
  /\ UNCHANGED <<manifest, archive, dirs, file, result, expired, commandVars, faults>>

Downloaded(l, state) ==
  [of |-> l, packed |-> l \in TarLayers, locked |-> FALSE, state |-> state]

\* The daemon creates the file, replacing what is there, and fills it.
DaemonWrites(j) ==
  /\ AtStep(j, "recv") /\ ~Barred(Download(jobs[j]))
  /\ Goes(j, "fill")
  /\ \E state \in {"empty", "part"} :
       Puts(Download(jobs[j]), Downloaded(jobs[j], state))
  /\ UNCHANGED <<manifest, archive, dirs, result, expired, commandVars, tries, held, faults>>

\* It has the whole archive that was stored, or other bytes, and the stream
\* of messages ends.
Delivers(j) ==
  LET d    == Download(jobs[j])
      true == IF jobs[j] \in TarLayers THEN Packed(jobs[j]) ELSE Downloaded(jobs[j], "whole")
  IN  /\ AtStep(j, "fill") /\ ~Barred(d)
      /\ \/ Puts(d, true) /\ UNCHANGED faults
         \/ Strikes(j) /\ Puts(d, [true EXCEPT !.state = "wrong"])
      /\ Goes(j, IF jobs[j] \in TarLayers THEN "open" ELSE "done")
      /\ UNCHANGED <<manifest, archive, dirs, result, expired, commandVars, tries, held>>

\* extractTar opens what is there under that name now.
OpenTemp(j) ==
  LET f == file[Temp(jobs[j])]
  IN  /\ AtStep(j, "open")
      /\ IF f = Missing
         THEN Fails(j)
         ELSE Holds(j, f) /\ Goes(j, "entry") /\ UNCHANGED tries
      /\ UNCHANGED <<manifest, archive, dirs, file, result, expired, commandVars, faults>>

\* Wrong variant: the archive stays.
KeepTemp(j) ==
  /\ AtStep(j, "remove")
  /\ Goes(j, "done")
  /\ UNCHANGED <<manifest, archive, dirs, file, result, expired, commandVars, tries, held, faults>>

RemoveTemp(j) ==
  LET t == Temp(jobs[j])
  IN  /\ AtStep(j, "remove")
      /\ IF file[t] = Missing
         THEN Fails(j) /\ UNCHANGED file
         ELSE Puts(t, Missing) /\ Goes(j, "done") /\ UNCHANGED <<tries, held>>
      /\ UNCHANGED <<manifest, archive, dirs, result, expired, commandVars, faults>>

-----------------------------------------------------------------------------
(***************************************************************************)
(* Untar, for the one file of a layer's archive.                           *)
(***************************************************************************)

\* What was opened: under a daemon another job may have put it there.
Entry(j) == held[j].of
Dest(j)  == Target(Entry(j))

Writing(j, state, locked) ==
  [of |-> Entry(j), packed |-> FALSE, locked |-> locked, state |-> state]

AfterUntar == IF way = "dragonfly" THEN "remove" ELSE "check"

\* An empty file is an archive without entries.
NoEntry(j) ==
  /\ AtStep(j, "entry") /\ held[j].state = "empty"
  /\ Goes(j, AfterUntar) /\ Holds(j, Missing)
  /\ UNCHANGED <<manifest, archive, dirs, file, result, expired, commandVars, tries, faults>>

\* The header cannot be read, or its name is refused.
BadHeader(j) ==
  /\ AtStep(j, "entry")
  /\ \/ ~held[j].packed \/ held[j].state \in {"part", "wrong"}
     \/ held[j].state # "empty" /\ Entry(j) \in Dotted
  /\ Fails(j)
  /\ UNCHANGED <<manifest, archive, dirs, file, result, expired, commandVars, faults>>

\* The entry can be read, and its name is accepted.
Readable(j) ==
  AtStep(j, "entry") /\ held[j].packed /\ held[j].state # "empty" /\ Entry(j) \notin Dotted

\* The directories of the name cannot be made, or it is itself a directory.
NoRoom(j) ==
  /\ Readable(j) /\ Barred(Dest(j))
  /\ Fails(j)
  /\ UNCHANGED <<manifest, archive, dirs, file, result, expired, commandVars, faults>>

\* Wrong variant: the file must not be there yet.
CreateExclusive(j) ==
  /\ Readable(j) /\ Dest(j) \notin dirs /\ MakesRoom(Dest(j))
  /\ IF file[Dest(j)] # Missing
     THEN Fails(j) /\ UNCHANGED file
     ELSE /\ Puts(Dest(j), Writing(j, "part", Entry(j) \in ReadOnly))
          /\ Goes(j, "copy")
          /\ UNCHANGED <<tries, held>>
  /\ UNCHANGED <<manifest, archive, result, expired, commandVars, faults>>

\* os.OpenFile truncates a file that may be written; a new one has the mode
\* of the header from the start.
Create(j) ==
  /\ Readable(j) /\ Dest(j) \notin dirs /\ MakesRoom(Dest(j))
  /\ IF file[Dest(j)].locked
     THEN Fails(j) /\ UNCHANGED file
     ELSE /\ Puts(Dest(j), Writing(j, "part", file[Dest(j)] = Missing /\ Entry(j) \in ReadOnly))
          /\ Goes(j, "copy")
          /\ UNCHANGED <<tries, held>>
  /\ UNCHANGED <<manifest, archive, result, expired, commandVars, faults>>

\* Others are writing to the same file.
Shared(j) == \E k \in Jobs \ {j} : at[k] = "copy" /\ Dest(k) = Dest(j)

Opened(j) == file[Dest(j)].of = Entry(j) /\ ~file[Dest(j)].packed

\* Wrong variant: a stream that ends too soon is taken for complete.
CopyAny(j) ==
  /\ AtStep(j, "copy")
  /\ Goes(j, "seal")
  /\ IF Opened(j) THEN Puts(Dest(j), [file[Dest(j)] EXCEPT !.state = held[j].state])
                  ELSE UNCHANGED file
  /\ UNCHANGED <<manifest, archive, dirs, result, expired, commandVars, tries, held, faults>>

\* io.Copy; a file that somebody has removed or replaced is written unseen.
Copy(j) ==
  /\ AtStep(j, "copy")
  /\ IF held[j].state = "part"
     THEN Fails(j) /\ UNCHANGED file
     ELSE /\ Goes(j, "seal")
          /\ IF Opened(j)
             THEN Puts(Dest(j), [file[Dest(j)] EXCEPT
                                   !.state = IF Shared(j) THEN "part" ELSE held[j].state])
             ELSE UNCHANGED file
          /\ UNCHANGED <<tries, held>>
  /\ UNCHANGED <<manifest, archive, dirs, result, expired, commandVars, faults>>

\* Chmod and Chtimes go by the name.
Seal(j) ==
  /\ AtStep(j, "seal")
  /\ IF file[Dest(j)] = Missing
     THEN Fails(j) /\ UNCHANGED file
     ELSE /\ Puts(Dest(j), [file[Dest(j)] EXCEPT !.locked = Entry(j) \in ReadOnly])
          /\ Goes(j, AfterUntar)
          /\ IF way = "dragonfly" THEN Holds(j, Missing) ELSE UNCHANGED held
          /\ UNCHANGED tries
  /\ UNCHANGED <<manifest, archive, dirs, result, expired, commandVars, faults>>

-----------------------------------------------------------------------------
\* Any call can fail: a lost connection, a full disk, a daemon that is gone;
\* also after the directories have been made.
Fault(j) ==
  /\ result = "running"
  /\ at[j] \in {"get", "recv", "fill", "open", "entry", "copy", "seal", "remove"}
  /\ Strikes(j)
  /\ Fails(j)
  /\ \/ UNCHANGED dirs
     \/ at[j] = "get" /\ way = "dragonfly" /\ MakesRoom(Download(jobs[j]))
     \/ Readable(j) /\ MakesRoom(Dest(j))
  /\ UNCHANGED <<manifest, archive, file, result, expired, commandVars>>

\* The steps at which the context of the group is looked at.
Cancellable ==
  CASE way = "extract"   -> {"get"}
    [] way = "dragonfly" -> {"get", "recv", "fill"}
    [] OTHER             -> {"get", "entry", "copy"}

Abandon(j) ==
  /\ result = "running" /\ Cancelled
  /\ at[j] \in Cancellable
  /\ Goes(j, "failed") /\ Holds(j, Missing)
  /\ UNCHANGED <<manifest, archive, dirs, file, result, expired, commandVars, tries, faults>>

Untar(j) == NoEntry(j) \/ BadHeader(j) \/ NoRoom(j) \/ Create(j) \/ Copy(j) \/ Seal(j)

Advance(j) ==
  \/ Dispatch(j)
  \/ OpenStream(j) \/ Refused(j) \/ Accept(j) \/ Reject(j)
  \/ Request(j) \/ Obstructed(j) \/ DaemonWrites(j) \/ Delivers(j) \/ OpenTemp(j) \/ RemoveTemp(j)
  \/ Untar(j)
  \/ Fault(j) \/ Abandon(j)

Work == (\E j \in Jobs : Advance(j)) \/ Return

Command ==
  \/ \E w \in Ways \ {"fetch"} : StartAll(w)
  \/ \E w \in {"fetch", "dragonfly"}, patterns \in PatternLists : StartFetch(w, patterns)

Next == Command \/ Work \/ Kill \/ Expire

Spec == Init /\ [][Next]_vars

\* The goroutines go on, and so does the daemon.
FairSpec == Spec /\ WF_vars(Work)

-----------------------------------------------------------------------------
\* The files a job writes, and the jobs that write one of them too.
Outputs(l) ==
  {Target(l)} \cup (IF way = "dragonfly" THEN {Download(l)} ELSE {})

Rivals(j)  == {k \in Jobs \ {j} : Outputs(jobs[k]) \cap Outputs(jobs[j]) # {}}
Clashes(j) == {k \in Rivals(j) : jobs[k] # jobs[j]}

\* The jobs that need a directory where j has a file, or the reverse; j itself
\* if the archive a daemon keeps is in a directory named as its file.
Blocks(j) ==
  {k \in Jobs : \E p \in Outputs(jobs[j]), q \in Outputs(jobs[k]) : p \in Above[q] \/ q \in Above[p]}

\* Success means that each layer's file holds the whole of that layer,
\* whatever earlier commands left behind when they failed or were killed, and
\* also when two patterns make two goroutines unpack the same layer.  Bytes
\* that are not the layer's get past a daemon only.  Layers that write to the
\* files of another layer are not promised anything: tar layers with one
\* header name, or a layer whose own path is the ".tar" of another.
Unpacked ==
  result = "ok" =>
    \A j \in Jobs : Clashes(j) = {} =>
      LET f == file[Target(jobs[j])]
      IN  /\ f.of = jobs[j] /\ ~f.packed
          /\ \/ f.state = "whole"
             \/ way = "dragonfly" /\ f.state = "wrong"

\* Success means that no archive is left beside the files, not even one that
\* a command left there that failed ("removes it afterward", extractTar).
TempsGone ==
  result = "ok" /\ way = "dragonfly" =>
    \A j \in Jobs : jobs[j] \in TarLayers /\ Clashes(j) = {} => file[Temp(jobs[j])] = Missing

\* What can keep a layer from being unpacked: a fault in each of its attempts,
\* a token that expired, an archive cut short when it was built, a name in its
\* header that Untar refuses, a job that needs the same path, as a file or as a
\* directory, a path at which nothing could be written when the command began,
\* or a target without write permission, which its own first attempt may have
\* made.
Explained(j) ==
  LET l == jobs[j]
  IN  \/ faults[j] >= Retries(way)
      \/ expired
      \/ l \in TarLayers /\ archive[l] = "short"
      \/ l \in Dotted
      \/ Rivals(j) # {} \/ Blocks(j) # {}
      \/ Target(l) \in lockedBefore \/ Outputs(l) \cap barredBefore # {}
      \/ l \in ReadOnly /\ faults[j] > 0

\* Nothing else makes a command fail: parts of files and archives of earlier
\* commands do not, and faults are overcome by the attempts.
FailureExplained ==
  result = "failed" => \E j \in Jobs : at[j] = "failed" /\ Explained(j)

\* Every command comes to an end.
EveryUnpackReturns == (result = "running") ~> (result # "running")
=============================================================================
