# Verification of modctl

modctl builds model artifacts from a workspace, keeps them in a storage
directory, pushes them to and pulls them from OCI registries, and unpacks
them into output directories. This directory models the parts of modctl that
change shared state: the storage directory, the repository in a registry, the
files of an output directory, the digest cache that builds share, and the
Modelfile between its generation and the build that reads it. All
definitions are translated from the Go source; the on-disk behaviour of the
`distribution` library (vendored by version, not in the repository) and of
the registry are modelled from how `pkg/storage` and `pkg/backend` use them
and marked external in `PROJECT.json`.

## The system

| Component | Source | State it keeps | Operations | Modelled by |
|---|---|---|---|---|
| Local storage | `pkg/storage/distribution` | contents, layer links, revisions, tags and upload sessions on disk | Stat/Push/Pull/MountBlob, Stat/Push/PullManifest, DeleteManifest, PerformGC, PerformPurgeUploads | `ContentStore` |
| Local commands | `pkg/backend/{pull,build,attach,tag,extract,push,rm,prune}.go` | none of their own: each is a process on the directory | pull, build, attach, tag, extract, push (as a reader), rm, prune | `LocalCommands` |
| Raw codec and output files | `pkg/codec/raw.go`, `pkg/xattr` | a file with two extended attributes | Decode, the up-to-date check | `OutputFile` |
| Registry publishing | `pkg/backend/push.go`, `build/remote.go`, `attach.go`, `upload.go` | blobs, manifests and tags of a remote repository | push, build and attach with `--output-remote`, upload | `RegistryPublish` |
| Builder, processors, digest cache | `pkg/backend/build`, `processor`, `internal/cache` | goroutines of a build, the cache file, its lock | Process, BuildLayer, Cache.Get, Cache.Put | `BuildLayers` |
| Attach layer algebra | `pkg/backend/attach.go`, `build/builder.go` | the layers of an artifact and the diff ids of its config | replace or append a layer, sortLayers, comparison of diff ids, attach --config | `AttachLayers` |
| Fetch and list selection | `pkg/backend/{fetch,list,inspect}.go` | none (pure) | selection of layers by pattern | `UnpackTree`; list and inspect only read |
| Dragonfly pull and fetch | `pkg/backend/{pull,fetch}_by_d7y.go` | an output directory, requests to a daemon | download, extract, clean up | `UnpackTree` |
| Tar codec and archiver | `pkg/codec/tar.go`, `pkg/archiver` | an output directory | Tar, Untar | `UnpackTree` |
| Modelfile | `pkg/modelfile` | none (pure) | generate from a workspace, Content, parse | `Modelfile` |
| Modelfile generation | `cmd/modelfile/generate.go`, `pkg/config/modelfile` | the Modelfile on disk | generate, import, write | `ModelImport` |
| Model providers | `pkg/modelprovider` | downloaded files | select, resolve, download from HuggingFace, ModelScope, MLflow | `ModelImport` |
| Remote client | `pkg/backend/remote` | none | configures oras | not modelled: no state; its requests are those of `RegistryPublish` |
| Source information | `pkg/source` | none | reads the git commit | not modelled: no interaction |
| Progress and metrics | `internal/pb` | bars on a terminal | | not modelled: nothing depends on it |
| Command line and configuration | `cmd`, `pkg/config` | none | flag validation, exit on a signal | only the exit on a signal: the `Stop`, `Kill` and `Return` actions |

How they interact. Commands of one machine share the storage directory and
nothing else: there is no lock on it, and nothing keeps `prune` away from the
other commands. Within a command an errgroup runs one goroutine per layer, at
most `Concurrency` at a time, then config and manifest follow in sequence.
Clients of one registry share the repository, through requests whose answers
can be lost and which are retried. Goroutines that unpack layers share files
of an output directory; a Dragonfly daemon writes there too, as a process of
its own. `modelfile generate` downloads into a directory and leaves a text file there that
`build` reads later, and in between a user may edit both. Builds on one machine share one digest cache file,
guarded by a file lock that excludes processes but not goroutines.

What is hard, and where it is looked at:

* *Prune against everything else*: mark and sweep over a directory in which
  other processes publish (`LocalCommands`).
* *Death at any step*: `cmd/root.go` exits on SIGINT and SIGTERM without
  waiting, so every command, prune included, can leave its work half done, and
  the next one has to be right on what is left (`Stop`, `StopPrune`, `Kill`).
* *Skipping*: pull, push, build and attach skip what is there already. What is
  there may be another command's, about to go away, or the effect of a retry's
  own earlier attempt (`SkipBlob`, `SkipManifest`, `KeepTag`).
* *Up-to-date checks that trust metadata*: attributes of a file that died half
  written, cached digests of files that were edited (`OutputFile`,
  `BuildLayers`).
* *Cancellation and retries in a group*: one file fails, others are in the
  middle of the locked cache (`BuildLayers`).
* *Leftovers in the output directory*: archives beside the files, files with a
  mode that keeps them from being written again, two layers with one name
  (`UnpackTree`).
* *A text as the interface*: quoting, parsing and globbing have to be inverse to
  each other for every file name, and the text may be cut short or stale
  (`Modelfile`, `ModelImport`).

Correctness, per component: a name that resolves resolves to a whole artifact
(storage, registry); a command that reports success has delivered what it
reports; prune removes garbage and only garbage; a file reported as unpacked
has the layer's content, and no temporary file stays beside it; an artifact
built from a generated Modelfile has the files that were chosen; a layer's digest is that of its file; nothing waits
forever.

## Modules

Each `MC*` module only defines constants for TLC and symmetry sets. Each
`*_proofs` module extends one model and TLAPS; `LocalDelivery_proofs` continues
`LocalCommands_proofs`.

    ArtifactCatalog          abstract: names, each with a whole artifact or none
      ^ implemented by                      ^ implemented by
    LocalCommands                         RegistryPublish
      extends ContentStore
    OutputFile     BuildLayers     AttachLayers     UnpackTree
    Modelfile  <-- extends -- ModelImport

**`ContentStore`** is the directory: `data` (content files), `links` (layer
links of a repository), `revs` (manifest revisions), `tags`, `uploads`
(sessions). A blob counts as there when it is linked *and* its content exists,
as in the library's Stat. Its operators are the storage API as LocalCommands
calls it; each changes exactly what one call changes on disk.

**`LocalCommands`** runs the commands as processes. `pc[p]`, `cmd[p]` and
`want[p]` are a command's place, its arguments and the blobs it has yet to
move; up to `Concurrency` blobs have an upload open. `StartPull`, `StartBuild`,
`StartAttach`, `StartAttachConfig` (with `--config`), `StartTag`, `StartRead` are the beginnings of
the handlers, `MoveBlob` the goroutines of the group, `SettleLayers`,
`SettleConfig`, `StoreManifest`, `PublishTag` the sequence after it (PushManifest is
two writes, revision then tag), `Stop` a failure or a signal. Two commands can report success
without setting a name: a pull that finds the revision (`SkipManifest`; `MissManifest` and the
write are separate steps), and an attach whose layers are those of its source (`AttachUnchanged`).
`SuccessPublishes` says that there are no others. Prune is one
process with the phases of `PerformGC`: mark repository by repository, collect links
without manifest, delete revisions, contents, links, then purge uploads.
`PruneAlone` says whether the operator keeps prune apart from other commands.
History: `steady` (names whole when prune began and not moved since) and
`calm` (commands that no prune has overlapped).

**`OutputFile`** is one path of an output directory: existence, content in
blocks, the attributes `size` and `digest`. A worker checks, truncates, copies
block by block, restores the times, stamps size and digest, validates; it may
be killed, and retried. `spoiled` records the events after which the
attributes can be wrong, so that `SuccessIsRight` says where they cannot.

**`RegistryPublish`** is one repository of a registry that checks nothing
beyond digests, and the clients that publish to it. A request whose answer is
lost may or may not have been carried out. push and build start over with the
question whether the manifest exists; attach does not retry.

**`BuildLayers`** is one processor's group: a goroutine per matched file with
its attempts, the cache's Get and Put split at the points where the file is
opened, truncated and written, the file lock as the code's shared lock object
has it (asking for it in the process that has it succeeds), local and remote
output, edits of the files, death of a process. Versions stand for
modification time and content together.

**`AttachLayers`** is the artifact that a sequence of attaches works on: its
list of layers and the diff ids in its config. It starts as build makes it: the
processors in turn, all layers raw or all tar. `Replace` is the handler with
`--force`, or for a path that is not found: it looks for the path (`Found`), removes what passes for that layer (`WithoutFound`, by
digest and media type), appends, sorts, and returns early when the
digests are those of the config (`Unchanged`); `Refuse` is a path that is found
without the flag; `AttachConfig` replaces the config by a file of the user. Whether a
path is spelled as the layers spell it is an input. `muddled` records that an
attach met a misspelled path, two layers with one digest, or stale diff ids:
the three cases in which the code does something else than its flags say.
Attaching one raw file to a second destination brings two equal layers about
by itself, and attaching it once more then removes the wrong one; so
`AttachIsIdempotent` excludes lists in which the layer has a twin. Sorting is
defined by places: a layer stands behind as many layers as come before it
(`Before`), ties in their old order.

**`UnpackTree`** is an output directory as a whole: `file[p]` says whose bytes
a path holds, as the file or packed in an archive, how many of them, and whether
it may be written. A command is a list of jobs (`jobs`, pairs of the position of a
layer and of the pattern that selected it, so that a layer two patterns match is
there twice) and each goroutine a step `at[j]`; `Dispatch` is the loop that blocks at the limit, `Fails` is
`retry.Do`, `Abandon` the looks at the group's context, `Return` is `g.Wait`.
Extract, fetch and pull stream an archive into Untar (`OpenStream`); with Dragonfly
`Request`, `DaemonWrites` and `Delivers` put it beside the file as `x.tar`, which
`OpenTemp` opens and `RemoveTemp` removes, whatever is there under that name by then. Untar is
`NoEntry`, `BadHeader` (which also refuses a name with `..` in it, `Dotted`), `NoRoom`, `Create` (with the
mode of the header), `Copy` and `Seal` (Chmod and Chtimes, by name). `dirs` are the
directories that `MkdirAll` makes for a file or a download (`MakesRoom`); a file where a directory is needed, or
the reverse (`Barred`), makes these calls fail (`NoRoom`, `Obstructed`). An archive may be cut short: Tar takes the
size from `os.Stat` and drops the error of `tw.Close`, so a file that shrank
while it was packed gives one (`Encode`). Directories as entries of an archive are left out,
since the builder refuses directories. Raw layers take part where a daemon
writes them; otherwise they are `OutputFile`'s, and a command that streams has only its tar layers
here. In the code a raw layer that fails cancels those, which then fail without
a reason of their own: `FailureExplained` speaks of groups in which the raw layers succeed.

**`Modelfile`** has the pure part as operators: the walk over a workspace
(`Visit`, `VisitDir`, `VisitFile` in the order of the tests in the code),
`InferFileType`, the values (`GenerateByModelConfig`, `GenerateByConfig`),
`QuoteIfNeeded` and `Content`, the parser (`ParseArgs` from `Scanned`, which applies
`Scan` to one character after another, `Valid`, `Parses`, `ParseFile`), and what a build makes of a
pattern (`Matched`, `LayersOf`). Loops are recursive functions on the number of rounds
(`Walked`, `Scanned`, `WriteMultiField`), so that they can be reasoned about. Names and values are sequences of characters
here, since quoting is what can go wrong. `Chosen` is the same selection as a user
understands the flags, one formula per file without a walk: the reference the
walk is compared with. `ModelfileAssumption` says of the entries what
`filepath.Walk` does: a directory is visited before what is inside it. A space that
`strings.TrimSpace` strips and `quoteIfNeeded` does not look for, such as U+00A0, is a
character of its own (`NoBreak`): at an end of a name or a value (`Padded`) it is lost.

**`ModelImport`** is `modelfile generate`, then any number of builds. `Generate`
is the check for an existing Modelfile; `Resolve` picks the provider and the version;
`FetchObject` and `LoseObject` are the loop of the MLflow download, which goes on when
an object fails; `RunTool` and `ToolFails` are the command line tools of the
hubs; `Walk` and `ReadConfig` are two reads of the directory; `Open`, `Write`
and `WriteFails` are `os.WriteFile`, which truncates first. A command that returns runs the
deferred `os.RemoveAll` (`End`); a kill does not (`Kill`), and leaves the temporary directory with
what was downloaded, parts of files included. Each command has a temporary directory of its own, so
the variable stands for that of the latest command, and the next one starts without it (`Clean`); the
directories of killed commands stay on the disk for good, and nothing reads them. A hub takes the owner
and the name from a URL and does not look at the host (`ParsesURL`): what it has under the name of
another hub's model is a constant (`Namesakes`).
`StartBuild`, `Parse` and `Process` are the build. `origin` and `was` are
history: who wrote the Modelfile from what, and what the command found, lost
and met.

**`ArtifactCatalog`** is what a user relies on: under each name nothing or one
artifact, complete and readable, and each step changes one name from one such
value to another. The refinement mapping in both implementations shows, under each name, the manifest
together with those of its parts that are really there; so a step that damages
an artifact behind a name is a change the catalogue does not allow.

## What the runs check

| Run | Instance | Shows |
|---|---|---|
| `LocalTwoRepos` | one process, two repositories, one tag, two artifacts sharing a blob, prune with every combination of flags, no overlap | `Delivered`, `PruneReclaims`, `PruneCanRead`, `SuccessPublishes`, and that the directory implements the catalogue (`CatalogSpec`); mounts between repositories |
| `LocalTwoProcs` | two processes, one repository, two concurrent uploads each, no overlap with prune | `TaggedComplete`, `ReaderServed` under interleaved commands |
| `LocalOverlap` | prune overlaps the command | `SteadySurvives` and, for commands no prune overlapped, `Delivered`, even though the directory gets damaged |
| `LocalNames` | one process | finding: `NameIsSet` is violated |
| `OutputFile` | two workers, two versions of the file, two blocks each | `SuccessIsRight` with kills, retries, wrong bytes and a foreign file in the way |
| `OutputRejected` | one worker, one layer | finding: `RejectedStaysRejected` is violated |
| `RegistryClients` | two clients, every command, two tags, two artifacts | `RemoteTaggedComplete`, `RemoteDelivered`, `PushTagExists`, `RemoteCatalogSpec` |
| `RegistryTag` | one client | finding: `PublishMovesTag` is violated |
| `BuildLayers` | a remote build that matches one file twice and a local build of the same file that may be killed | `LayerIsCurrent`, `GroupComplete`, `LockInUse`, `EveryBuildReturns` |
| `AttachLayers` | three paths, two contents, at most four layers, every artifact that build makes of them | `AttachOverwrites`, `OthersKept`, `AttachIsIdempotent` after any sequence of attaches |
| `UnpackTree` | six artifacts. Two layers: a raw layer whose path is the archive of the other; a tar layer that is unpacked under another name than its annotation, as attach --destination-dir makes it; a layer that needs a directory where the archive of the other is. One layer: one that two patterns match; a name with two dots; a file attached to a directory of its own name. Two at a time, two attempts, two faults a layer, with fairness | `Unpacked`, `TempsGone`, `FailureExplained`, `EveryUnpackReturns` over any sequence of commands on one directory |
| `ModelImport` | six files: one in a hidden directory, one with a blank in its name, one with a `*`, and one whose name is the beginning of two others; three versions, two of them in the MLflow registry; four sets of flags; three handwritten Modelfiles; one edit, and two faults or kills | `BuildFaithful`, `ImportFaithful`, `ModelfileKept`, `CutSafe`, `BuildExplained`; an ASSUME of `MCModelImport` checks in addition that the parser undoes the quoting of every text of up to four characters out of six, but for the exceptions `Misread` names |

The type invariant of each module is checked in one of its runs. The bounds, and
why they are enough:

* Two artifacts that share a blob are the least that makes "still referenced
  by another manifest" differ from "not referenced". One tag per repository
  and two artifacts give moves of a name, and names that disappear. Two
  repositories are the least for mounts and for marking one before the other.
* Two processes are the least for a race, and every condition in the code
  compares a process with the shared directory, never with a count of
  others. The proofs below do not need the bound.
* A file of two blocks can be half written. A version with the other's size
  is the hard case for an up-to-date check, so all have the same size.
* `Attempts = 2` (6 in the code): the first and the last attempt are
  different cases, those between repeat the first. `MaxVersion = 2`,
  `MaxFailures = 2`: one edit at any moment, and failures enough to exhaust one file's attempts
  or spread over two. These bound the model's `Edit` and `Fails` only.
* Two code files, one of them the `--destination-dir` target of the other, and
  a weight file that build puts before and sorting can put between them: both orders differ, and a path can be
  taken by the file of another. Two contents, so that two files can be equal
  and a file can be edited; four layers, one more than the paths, so that
  one path can be there twice.
* `UnpackTree`: two artifacts have a layer whose archive a daemon keeps
  under the other layer's path, once a raw layer's and once the name in another
  archive; in the third the other layer needs a directory there. The rest is shown by one layer alone: one that two
  patterns match, a name that is refused, and a layer whose own archive
  is in a directory that has the name of its file. A layer has a read-only file, which was edited while it
  was packed. Two layers at a time are the least that
  overlap. Two attempts and two faults exhaust the attempts of one layer, or
  spread over two. Commands follow each other on one directory without a bound, so every
  command also meets what any sequence of earlier ones left.
* `ModelImport`: the limits on a file's size, on the number of files and on the total are
  small enough that each is exceeded by some version. One edit of the workspace or of
  the Modelfile may come at any step, and two faults: an object that fails, a
  tool that fails, a write cut after any line or within one, or a kill. Two are the least for a kill on top of
  a failure, and for a command on what two others left.
* Symmetry is used for processes (`LocalTwoProcs`), workers and layers
  (`OutputFile`), which the configuration does not tell apart, and never with
  liveness.

Deadlock is checked everywhere but in `BuildLayers`, where all builds end.

### Fairness

Two properties need fairness, `EveryBuildReturns` (run `BuildLayers`) and `EveryUnpackReturns` (`UnpackTree`): weak
fairness of each module's `Work`, the step of some goroutine or the return of some group. It says that while something is
runnable, something runs. That is what the Go scheduler and the operating system give,
and no more: no goroutine is promised a turn, and the lock is not promised to
anyone (polling may lose every time while other processes have work to do).
Edits, failures and deaths are not fair: nothing obliges them to happen. The
properties hold since each file has finitely many attempts and each process
releases the lock. In `UnpackTree`, `Work` contains the steps of the Dragonfly daemon, an external
program: this is an assumption about it, not something the code ensures. `stream.Recv`
has no deadline, so a daemon that neither answers nor fails blocks the command until a signal ends it. What
the property says of the code is that retries, cancellation and the limit of the
group leave no endless loop and nobody who waits for himself.

### What the runs found

Each of these is a run that TLC ends with a counterexample, with the line that the code contradicts in
`PROJECT.json`.

1. `pull.go:220`, `attach.go:141` (`LocalNames`): a command reports success and has not set the name it was
   given. A pull of an artifact whose manifest is already a revision of the repository returns before the tag is
   written (the counterexample: the tag write fails, and the retry finds the revision). An attach
   whose file leaves the layers as they are returns before a manifest is built, and `cmd/attach.go:79` reports a target
   that is not there.
2. `raw.go:185` (`OutputRejected`): size and digest attributes are set before validation, and the
   retry then accepts the file that was rejected.
3. `build/remote.go:138`, `push.go:152` (`RegistryTag`): a manifest the registry has already
   keeps the requested tag from being set (build) or moved (push).

`SuccessPublishes` says of the first that the pull and the attach are the only two ways: with either of its two exceptions
taken away, `LocalTwoRepos` ends with that command as its counterexample.

Beside these, a prune that overlaps another command can damage the artifact
that command publishes: `TaggedComplete` fails with `PruneAlone = FALSE`. No
document promises otherwise, so it is a limitation and not a finding; what does
hold then is `SteadySurvives` and `Delivered` (run `LocalOverlap`).

Further limitations the modelling met. Where a property of a passing run
meets one, the event is an exception or a cause that the property names; so these properties do not deny the
outcomes below, and say that there are no others.

* `raw.go:141`: a file that is replaced keeps the attributes of the old version until the
  new ones are set; a kill in between leaves the bytes of the new version, which pass for the old if the
  sizes agree.
* `attach.go:118`: with `--force`, the layer found by its path is removed by its digest; if another
  raw file has the same bytes, that one goes, and the path is there twice.
* `attach.go:141`: whether anything changed is asked of the diff ids in the config, which `attach --config`
  takes from the user's file; with stale ids a later attach reports success and leaves an older content in place.
* `archiver.go:150`: a name with two dots in it (`weights..bin`) can be built and pushed, and Untar refuses it every time.
* `tar.go:46`: a tar layer is unpacked under the name in its header; `--destination-dir` has no effect on that.
* `generate.go:205`: the Modelfile is looked for before an import and written after it, so that one that appeared
  meanwhile is replaced without `--overwrite`.
* `mlflow/downloader.go:230`: an import succeeds without an object that failed to download.
* `cache.go:191`: the goroutines of a build share one lock object, so they are
  not excluded from each other. The cache file can be garbled, and Put never repairs it;
  lookups then miss and files are hashed again.
* `attach.go:103`: a path typed in another form than the layers have is attached as a
  second layer of the same path, with or without `--force`.
* `codec/tar.go`: a read-only file in an archive makes every attempt after the
  one that wrote it fail; a file that shrinks while it is packed gives an
  archive that cannot be unpacked.
* `pull_by_d7y.go`, `fetch_by_d7y.go`: an archive is kept at the layer's path with `.tar`, and a tar
  layer is unpacked under the name in its header. Either may be the path
  of another layer, which is then overwritten or removed. The registry token is fetched once for
  all layers and attempts, and a registry without credentials fails in `getAuthToken`.
* `generate.go`: a Modelfile generated from a temporary download names files
  that are gone when the command returns.
* `modelfile.go`, `args_parser.go`: names with glob characters or backslashes, and values with
  some quotes, are not read back as they were. A generated
  `DATASET` line is ignored by build, although `command.go:41` describes it as a layer.
  A workspace whose own name begins with a dot is skipped as a whole.
* `downloader.go`: the URL `models:/name/version` gives an empty model name,
  only `models://` works; the version is looked up among those of all models (`:90`).
* `huggingface/downloader.go`, `modelscope/downloader.go`: neither looks at the host of a URL, so that `--provider modelscope`
  with a URL of the other hub downloads ModelScope's model of that name.
* `root.go:105`: a signal leaves the temporary directory of an import on the disk, as large as the model.

## What is proved

The theorems hold for every value of the constants that satisfies the
assumptions in the modules: any sets of repositories, tags, artifacts,
processes, workers, clients and builds, any limit of concurrency.

* **LocalCommands**. `TypeCorrect`. `SteadyArtifactsSurvive`: prune never
  damages an artifact that was whole when it began and whose name stays, with
  no assumption that it is run alone. The invariant `PruneInv` says that what
  belongs to steady names in a repository already marked is in `keep`, that
  nothing in the three doomed sets belongs to a steady name, and that steady
  names are complete. `TaggedArtifactsComplete` and `DirectoryImplementsCatalog`: with
  `PruneAlone`, every name resolves to a whole artifact at all times and each
  step of the directory is a step or a stutter of the catalogue.
  `TaggedComplete` alone is not inductive: `AloneInv` adds that a process about
  to write a tag has a whole artifact (PushManifest verifies the references
  before it stores a revision, and without prune they stay), and that while
  prune runs every process is idle and every name that resolves is steady, so
  that `PruneInv` covers the steps of prune.
* **LocalCommands**, what each command promises (`LocalDelivery_proofs`).
  `SuccessDelivers` needs no assumption on prune, as `Delivered` speaks of calm
  commands. Its invariant `CalmInv` follows such a command: what a pull has
  behind it is linked and stored, and from the step that sets the tag on the
  artifact is whole; other commands only add to the directory (`CommandsOnlyAdd`),
  and a prune that takes something away has ended the calm of all who run. With
  `PruneAlone`, `ReadersAreServed`, `PruneLeavesNoGarbage` and
  `PruneStaysPossible`: `ReadableInv` says that every revision has its content and
  what each phase of prune has disposed of (`MarkInv`, `ReclaimInv`), also for
  what killed prunes left. `SuccessSetsTheName` assumes a
  single process: of two, one may remove or move the name that the other has just set. It is about every
  command that publishes; the two exceptions in it are states of the directory and of the command, not
  kinds of commands: a pull whose revision is there, and an attach whose layers are those of its source.
* **OutputFile**. `OutputTypeCorrect`; `SuccessMeansTheLayer`: with any number of workers on one
  path, a file reported as unpacked holds its layer unless `spoiled`. The invariant `CrewInv` has two
  cases. While somebody is between truncation and the end, and nobody has received wrong bytes, the
  file is made of the layer's blocks and holes (`Pieces`), and either it is whole or a worker that is still copying has all it
  wrote so far in it (`Backed`): the one that truncated it last. The others
  only write what belongs there, so it is whole when the last one ends. While
  nobody is, attributes that describe the file tell the truth. A worker that stops without a mark
  was alone (`HarmlessIsAlone`), and then what it leaves is a prefix that the attributes cannot describe
  unless it is the whole (`LeftBehind`).
* **RegistryPublish**. `RegistryTypeCorrect`, `RemoteTagsComplete`,
  `RemoteSuccessDelivers`, `RegistryImplementsCatalog`. `PublishInv` says that
  blobs a client no longer wants are in the registry, that manifests in the
  registry have all of theirs, and that a client that sends a tag has sent or
  seen the manifest. `PushedTagsResolve`: a push that reports success has set its
  tag or has seen that it resolves, and nobody takes a tag away.
* **BuildLayers**. `BuildTypeCorrect`, `LayersAreCurrent`, `LockOnlyInUse`,
  `GroupsAreComplete`. Type correctness is not inductive by itself: an item
  is written to the cache with the digest a goroutine holds, and that this is
  one, not 0, depends on its step. `CurrentInv` adds that every item of the cache, or read
  from it, has a digest no older than its modification time and no newer than the file, and that
  so has every goroutine beyond hashing.
* **AttachLayers**. `AttachTypeCorrect`, `AttachReplaces`, `AttachKeepsOthers`,
  `AttachTwiceIsOnce`, for lists of any length. The inductive part is small (`PathInv`: until a
  confusing case comes up no path has two layers); the work is in the lists.
  `SortArranges` shows that sorting moves positions one to one, from the
  injectivity of the number of elements before one; a least element of a set of positions comes
  from the well-foundedness of the naturals. `SortForgetsOrder`: when no
  path is there twice, the sorted list depends on the set of layers alone, which
  makes the second attach find the list it left. Removal, append and sort
  together are described by where the elements of the new list come from
  (`Origins`). When attach stops because the digests are unchanged, `SameDigests`
  shows by counting that the layer it would have replaced has the digest of
  the file already: no digest occurs more often in one of two equal lists than in the
  other.
* **UnpackTree**. `UnpackTypeCorrect`, `UnpackedFilesAreWhole`, `NoArchiveStays`,
  `FailuresAreExplained`, for any artifacts, patterns and limits. Their invariants build on each other:
  `StepInv` (the steps of each kind of command), `HeldInv` (what is at a download's path, and what was
  opened there, is the work of a job that writes to that path), `TempInv` (while
  the archive of a layer is there, one of its goroutines is not done),
  `FileInv` (a file in the making stays in place, and a layer whose file is not
  right has a goroutine that is not finished with it), and `CauseInv` (a goroutine
  without an excuse has lost each attempt so far to a fault of its own). A layer that
  no other layer clashes with is written by its own goroutines only; that is what makes two
  of them on one layer harmless. The part of `CauseInv` about directories is that each one made since the command
  began belongs to a path of one of its jobs, so that a call that fails for want of room has a job that is in the way, or
  met what was there before. `UnpackAssumption` says that a tar
  layer's name in its header is not the path of its own archive: the two have one base name, without and
  with `.tar`.

* **Modelfile**. Two facts about the operators, for texts and trees of any size. `WalkChooses`:
  unless a limit is exceeded the walk lists exactly the `Chosen` files. Its invariant (`WalkInv`) says, after a
  number of entries, that the lists have the chosen ones among them, and that every directory so far that the
  flags keep one out of was skipped or is inside a skipped one. An entry is therefore passed over just
  when such a directory is above it, since directories come first.
  `QuotedIsRead`: the parser reads the quoted form of a text as that text alone, unless it is
  `Misread`. The scanner's state after a quote and some of the escaped characters is known
  (`At`): within the quotes, with the characters read so far.
* **ModelImport**. `ImportTypeCorrect`, `ImportKeepsModelfile`, `ImportIsFaithful`, `BuildIsFaithful`,
  `CutIsSafe`, `BuildIsExplained`, for any workspaces, versions, flags, limits and handwritten
  Modelfiles. `KeptInv` follows the text of the Modelfile from the check for it to its replacement,
  `ImportInv` what is stored of the version in each step of the import and what the
  draft lists of it (from `WalkChooses`). `BuildInv` says of the lines on disk,
  by their `origin`, that they are the `Content` of its lists and values, or
  a `Cuts` of it, and of a build what it has read from such lines. The rest is about
  lines: the Modelfile has a line for each listed file and each value and no other
  (`ContentSpells`, by induction over the list), these parse to what they were made
  from (`ContentIsParsed`), and a plain path matches itself alone. For `CutIsSafe`, a line cut within a
  quoted name leaves the quote open, which is an error (`CutQuote`), and a line cut within another name
  gives its beginning; a name with a blank is therefore never cut to a wrong one.

The invariants named here are not all run in TLC: `KeptInv`, `ImportInv`, `CrewInv` and those of the
other modules were checked on the instances above before they were proved (`CrewInv` with three workers, too); `BuildInv`
was only proved.

Induction over a sequence is done without the library's induction theorems: a recursive
function is shown to exist and to satisfy its equations (`Recursion`), and a property of its values holds at
every number because the numbers up to which it holds have no greatest one (`UpTo`, from the
well-foundedness of the naturals).

Every safety and action property that a passing run checks is stated by one of these theorems.
`SuccessPublishes` and, under `PruneAlone`, a part of those of `LocalCommands` have the hypothesis named
above, which is that of the runs. Only model-checked, since it is beyond the prover: `EveryBuildReturns` and
`EveryUnpackReturns` (liveness).

## What the models leave out

* Contents are compared as wholes: sizes, media types and annotations do not
  appear except where an action depends on them.
* I/O errors of the storage directory other than a failed or lost step (a full disk appears
  as a command that stops).
* Cancellation by the caller: signals end the process, so a group's context
  is only cancelled by one of its own files.
* The time to live of cache items and the comparison of modification times in
  another time zone: both make a lookup miss, and the model lets any lookup
  miss.
* User edits of extracted files (`OutputFile`) and deletion in the registry.
* A second repository as the target of a remote attach, which leaves the
  source's layers behind (a hazard that is listed).
* Two steps that are coarser than the code. `OpenUpload` is the check for a blob and the opening of its session: no
  other command of a repository takes a link or a content away, so that the check can be moved to the opening past any step but those of
  prune and a commit of the same blob by another process; past the latter the code opens one session more, whose commit
  changes nothing or which prune removes. And a version is the modification
  time, the size and the content together: an edit that keeps time and size, which the cache cannot notice, is left out.
* In `UnpackTree`: directories and symbolic links in archives (the builder makes neither),
  progress hooks, and the failures before the first layer is started, which
  change nothing. A raw layer that is streamed, not left by a daemon, is `OutputFile`'s, and that its failure
  cancels the others is left out. Files of the user in the directory, and what Chmod and Remove do to an empty directory
  that takes the place of a file.
* In `Modelfile` and `ModelImport`: the tool of a hub that goes on as a process of its own after modctl was killed,
  line breaks in names and values, symbolic links in the workspace,
  backslashes in globs, comments in configuration files. The tables of file
  name patterns (`constants.go`) are a constant, the types each file matches. Nobody edits the
  Modelfile between the two system calls of one write.
* The remote client, source information (git), progress, metrics and flag parsing keep no
  state that another component reads; they only fail or succeed, which the actions that use them allow.

## Plan

Done, in this order: `ContentStore` and `LocalCommands` with
`ArtifactCatalog`; `OutputFile`; `RegistryPublish`; `BuildLayers`; the proofs
of each; `AttachLayers`; `UnpackTree`; `Modelfile` and `ModelImport`; the proofs of
what commands promise (`LocalDelivery_proofs`), of the list algebra of `AttachLayers`, of
`UnpackTree`, and of `Modelfile` and `ModelImport`. Every safety property that a passing run checks is now a theorem.

Next, most important first:

1. A second repository in `RegistryPublish` for a remote attach whose target
   is not its source: a hazard that no property covers.
2. Raw layers that are streamed in `UnpackTree`, as jobs that only succeed or fail, for the cancellation they cause.
3. Which of the hypotheses of the theorems can be weakened: what `ReaderServed` and
   `TaggedComplete` still promise while prune overlaps other commands.
