----------------------------- MODULE ModelImport -----------------------------
(***************************************************************************)
(* modctl modelfile generate, from a directory or from a model provider    *)
(* whose model it downloads first, and the build that uses the Modelfile   *)
(* it wrote (cmd/modelfile/generate.go, pkg/modelprovider, pkg/modelfile,  *)
(* pkg/backend/build.go).  One command runs at a time; a user edits the    *)
(* Modelfile and the directory meanwhile.                                  *)
(*                                                                         *)
(* "local" is the user's directory, also the target of --download-dir; the *)
(* Modelfile is written there.  "temp" is the directory made for the       *)
(* command that runs or ran last: the command removes it at its end, and a *)
(* kill leaves it on the disk, where no later command looks.               *)
(***************************************************************************)
EXTENDS Modelfile

CONSTANTS
  Own,         \* the file name of the Modelfile
  Base,        \* the name of each directory
  Versions,    \* model versions: what a repository or registry has
  Published,   \* those an MLflow registry has
  LatestOf,    \* those it may list first as the latest
  Objects,     \* the files of each version
  Namesakes,   \* what the other hub has under the owner and name of a version
  Urls,        \* --model-url: a form and a version, or None for the latest
  Options,     \* the other flags of generate
  Handwritten, \* Modelfiles that a user writes
  Added,       \* files that a user adds or removes
  MaxEdits,    \* bound on the edits of the user
  MaxFaults,   \* bound on failing calls and kills
  None

Providers == <<"huggingface", "modelscope", "mlflow">>
Forms     == Range(Providers) \cup {"short"}

IsLines(t) == IsText(t) /\ \A i \in DOMAIN t : t[i] = Line(t[i].word, t[i].rest)

ASSUME ImportAssumption ==
  /\ Own \in Files /\ Own \in Skippable
  /\ DOMAIN Base = {"local", "temp"} /\ IsText(Base["local"]) /\ IsText(Base["temp"])
  /\ LatestOf \subseteq Published /\ Published \subseteq Versions
  /\ Objects \in [Versions -> SUBSET (Files \ {Own})]
  /\ Namesakes \in [Versions -> SUBSET Versions]
  /\ \A u \in Urls : u.form \in Forms /\ u.version \in Versions \cup {None}
  /\ \A o \in Options :
       /\ o.dir \in {"local", "temp"} /\ o.overwrite \in BOOLEAN
       /\ o.provider \in Range(Providers) \cup {None}
       /\ DOMAIN o.flags \subseteq Singles /\ \A s \in DOMAIN o.flags : IsText(o.flags[s])
  /\ \A t \in Handwritten : IsLines(t)
  /\ Added \subseteq Files \ {Own}
  /\ MaxEdits \in Nat /\ MaxFaults \in Nat
  /\ None \notin Versions

Contents == Versions \cup {None, "part", "user"}
Absent   == <<Line("none", <<>>)>>

VARIABLES
  dir,     \* the files of each directory, by where their bytes come from
  text,    \* the lines of the Modelfile, or Absent
  pc,      \* the step of the command
  opts,    \* its flags
  version, \* of the model it imports, None when it reads a directory
  todo,    \* objects not yet downloaded
  draft,   \* what it found in the workspace
  mf,      \* the Modelfile that a build has read
  layers,  \* the command and file of each layer of a build
  result,  \* how the last command ended
  edits, faults,
  was,     \* history of the command: what was there, what it replaced, lost and met
  origin   \* history: who wrote the Modelfile, and from what

localVars   == <<opts, version, todo, draft>>
commandVars == <<localVars, was>>
buildVars   == <<mf, layers>>
vars        == <<dir, text, pc, result, edits, faults, origin, commandVars, buildVars>>

Present(d) ==
  {f \in DOMAIN dir[d] : dir[d][f] # None} \cup (IF d = "local" /\ text # Absent THEN {Own} ELSE {})

NoDraft  == [lists |-> NoLists, values |-> [s \in Singles |-> <<>>]]
NoOrigin == [by |-> "user", lists |-> NoLists, values |-> NoDraft.values]
NoMf     == [patterns |-> ParseFile(<<>>), origin |-> NoOrigin]
NoPast   == [text |-> Absent, overwrite |-> FALSE, replaced |-> {}, files |-> {}, wanted |-> NoLists,
             lost |-> {}, touched |-> {}]

Steps   == {"idle", "resolve", "fetch", "tool", "walk", "config", "open", "write", "parse", "match"}
Results == {"none", "refused", "failed", "generated", "killed", "built", "unbuilt"}

IsDraft(d) == d.lists \in [Lists -> SUBSET Files] /\ DOMAIN d.values = Singles

TypeOK ==
  /\ dir \in [{"local", "temp"} -> [Files \ {Own} -> Contents]]
  /\ IsLines(text)
  /\ pc \in Steps /\ result \in Results
  /\ opts \in Options \cup {None}
  /\ version \in Versions \cup {None}
  /\ todo \subseteq Files
  /\ IsDraft(draft) /\ IsDraft(origin)
  /\ DOMAIN mf.patterns = Singles \cup Lists
  /\ layers \subseteq Processed \X Files
  /\ edits \in 0..MaxEdits /\ faults \in 0..MaxFaults

Init ==
  /\ dir = [d \in {"local", "temp"} |-> [f \in Files \ {Own} |-> None]]
  /\ text = Absent
  /\ pc = "idle" /\ result = "none"
  /\ opts = None /\ version = None /\ todo = {} /\ draft = NoDraft
  /\ mf = NoMf /\ layers = {}
  /\ edits = 0 /\ faults = 0
  /\ was = NoPast /\ origin = NoOrigin

Fault == faults < MaxFaults /\ faults' = faults + 1

-----------------------------------------------------------------------------
(***************************************************************************)
(* generate: its flags, and the provider.                                  *)
(***************************************************************************)

\* Without a temporary directory: removed, or that of an earlier command.
Clean(dirs) == [dirs EXCEPT !["temp"] = [f \in Files \ {Own} |-> None]]

Begin(o, step) ==
  /\ dir' = Clean(dir)
  /\ pc' = step /\ result' = "none"
  /\ opts' = o /\ version' = None /\ todo' = {} /\ draft' = NoDraft
  /\ mf' = NoMf /\ layers' = {}
  /\ was' = [NoPast EXCEPT !.text = text, !.overwrite = o.overwrite,
                           !.files = IF o.dir = "temp" THEN {} ELSE Present(o.dir)]
  /\ UNCHANGED <<text, edits, faults, origin>>

\* The variables of a process that is gone.
Forget ==
  /\ opts' = None /\ version' = None /\ todo' = {} /\ draft' = NoDraft
  /\ mf' = NoMf /\ layers' = {}

Recall == [was EXCEPT !.files = {}, !.wanted = NoLists, !.lost = {}]

\* Wrong variant: --overwrite is not looked at.
MayAlwaysWrite(o) == TRUE

MayWrite(o) == text = Absent \/ o.overwrite

\* Validate, before anything is downloaded.
Generate(o) ==
  /\ pc = "idle" /\ MayWrite(o)
  /\ \/ Begin(o, "resolve")
     \/ o.dir = "local" /\ Begin(o, "walk")

RefuseGenerate(o) ==
  /\ pc = "idle" /\ ~MayWrite(o)
  /\ result' = "refused"
  /\ was' = [NoPast EXCEPT !.text = text]
  /\ Forget /\ dir' = Clean(dir)
  /\ UNCHANGED <<text, pc, edits, faults, origin>>

\* The process is gone; what it was to do with its directory is said by each.
Leave(r) ==
  /\ pc' = "idle" /\ result' = r
  /\ IF r = "generated" THEN UNCHANGED <<localVars, was, buildVars>> ELSE Forget /\ was' = Recall
  /\ UNCHANGED edits

\* An import returns, and os.RemoveAll runs.
End(r) == Leave(r) /\ dir' = Clean(dir)

SupportsURL(p, url) == url.form = p

\* The first that supports the URL, unless one is named.
SelectProvider(provider, url) ==
  LET first == SelectSeq(Providers, LAMBDA p : SupportsURL(p, url))
  IN  IF provider # None THEN provider ELSE IF first # <<>> THEN first[1] ELSE None

\* The hubs look at the path of a URL and not at its host; only the form of
\* MLflow is nobody else's.
ParsesURL(p, url) == url.form = "short" \/ (url.form = "mlflow" <=> p = "mlflow")

\* What a name stands for: for MLflow the latest, or a version it knows, and
\* for a hub its own repository of that name, also when the URL is another's.
Resolved(p, url) ==
  CASE p = "mlflow" /\ url.version = None -> LatestOf
    [] p = "mlflow" /\ url.version # None -> {url.version} \cap Published
    [] p # "mlflow" /\ url.form \in {p, "short"} -> {url.version} \ {None}
    [] OTHER -> UNION {Namesakes[v] : v \in {url.version} \ {None}}

Resolve(url) ==
  LET p == SelectProvider(opts.provider, url)
  IN  /\ pc = "resolve" /\ p # None
      /\ ParsesURL(p, url)
      /\ \E v \in Resolved(p, url) :
           /\ version' = v
           /\ todo' = Objects[v]
           /\ pc' = IF p = "mlflow" THEN "fetch" ELSE "tool"
      /\ UNCHANGED <<dir, text, result, edits, faults, origin, opts, draft, was, buildVars>>

\* No such provider, URL or version, or not authenticated.
ResolveFails == pc = "resolve" /\ End("failed") /\ UNCHANGED <<text, faults, origin>>

-----------------------------------------------------------------------------
(***************************************************************************)
(* Downloads.                                                              *)
(***************************************************************************)

\* The objects come in the order of their names.
NextObject ==
  CHOOSE f \in todo : \E i \in DOMAIN Order :
    Order[i] = f /\ \A k \in 1..(i - 1) : Order[k] \notin todo

Stores(f, c) == dir' = [dir EXCEPT ![opts.dir][f] = c]

\* Wrong variant: a file that is there is not downloaded again.
FetchMissing ==
  /\ pc = "fetch" /\ todo # {}
  /\ IF dir[opts.dir][NextObject] = None THEN Stores(NextObject, version) ELSE UNCHANGED dir
  /\ todo' = todo \ {NextObject}
  /\ UNCHANGED <<text, pc, result, edits, faults, origin, opts, version, draft, was, buildVars>>

\* S3StorageBackend.DownloadModel, one object at a time.
FetchObject ==
  /\ pc = "fetch" /\ todo # {}
  /\ Stores(NextObject, version)
  /\ todo' = todo \ {NextObject}
  /\ UNCHANGED <<text, pc, result, edits, faults, origin, opts, version, draft, was, buildVars>>

\* An object that fails is logged and the loop goes on: its directory or file
\* cannot be made, or what was written is removed, if that works.
LoseObject ==
  /\ pc = "fetch" /\ todo # {}
  /\ Fault
  /\ \E c \in {None, "part", dir[opts.dir][NextObject]} : Stores(NextObject, c)
  /\ todo' = todo \ {NextObject}
  /\ was' = [was EXCEPT !.lost = @ \cup {NextObject}]
  /\ UNCHANGED <<text, pc, result, edits, origin, opts, version, draft, buildVars>>

\* A page of the listing fails.
ListingFails == pc = "fetch" /\ Fault /\ End("failed") /\ UNCHANGED <<text, origin>>

Fetched ==
  /\ pc = "fetch" /\ todo = {}
  /\ pc' = "walk"
  /\ UNCHANGED <<dir, text, result, edits, faults, origin, commandVars, buildVars>>

\* The tool of a hub downloads everything and says so, or fails.
RunTool ==
  /\ pc = "tool"
  /\ dir' = [dir EXCEPT ![opts.dir] =
               [f \in DOMAIN @ |-> IF f \in Objects[version] THEN version ELSE @[f]]]
  /\ pc' = "walk" /\ todo' = {}
  /\ UNCHANGED <<text, result, edits, faults, origin, opts, version, draft, was, buildVars>>

\* What a download of these files leaves when it is cut short.
Torn(files) ==
  {[dir EXCEPT ![opts.dir] = [f \in DOMAIN @ |-> IF f \in DOMAIN got THEN got[f] ELSE @[f]]] :
     got \in UNION {[some -> {version, "part"}] : some \in SUBSET files}}

ToolFails ==
  /\ pc = "tool" /\ Fault
  /\ \E left \in Torn(todo) : dir' = Clean(left)
  /\ Leave("failed")
  /\ UNCHANGED <<text, origin>>

-----------------------------------------------------------------------------
(***************************************************************************)
(* NewModelfileByWorkspace, and the write.                                 *)
(***************************************************************************)

Found == GenerateByWorkspace(Present(opts.dir), opts.filter)

\* What a user expects it to find.
Wanted ==
  [c \in Lists |-> {f \in Present(opts.dir) : Chosen(f, opts.filter) /\ InferFileType(f) = c}]

Walk ==
  /\ pc = "walk" /\ Found.ok
  /\ draft' = [draft EXCEPT !.lists = Found.lists]
  /\ was' = [was EXCEPT !.wanted = Wanted]
  /\ pc' = "config"
  /\ UNCHANGED <<dir, text, result, edits, faults, origin, opts, version, todo, buildVars>>

\* A limit is exceeded or there is nothing to list, or an entry vanishes.
WalkFails ==
  /\ pc = "walk"
  /\ \/ ~Found.ok /\ UNCHANGED faults
     \/ Found.ok /\ Fault
  /\ End("failed")
  /\ UNCHANGED <<text, origin>>

\* The configuration files are read again, whatever the walk left out.
ReadConfig ==
  /\ pc = "config"
  /\ draft' = [draft EXCEPT !.values =
                 GenerateByConfig(GenerateByModelConfig(Present(opts.dir)), opts.flags, Base[opts.dir])]
  /\ pc' = "open"
  /\ UNCHANGED <<dir, text, result, edits, faults, origin, opts, version, todo, was, buildVars>>

ReadConfigFails == pc = "config" /\ Fault /\ End("failed") /\ UNCHANGED <<text, origin>>

Wrote(who) == [by |-> who, lists |-> was.wanted, values |-> draft.values]

\* os.WriteFile truncates the file first,
Open ==
  /\ pc = "open"
  /\ text' = <<>>
  /\ origin' = Wrote("cut")
  /\ was' = [was EXCEPT !.replaced = {text}]
  /\ pc' = "write"
  /\ UNCHANGED <<dir, result, edits, faults, opts, version, todo, draft, buildVars>>

OpenFails == pc = "open" /\ Fault /\ End("failed") /\ UNCHANGED <<text, origin>>

\* then writes; bytes it does not write stay as they are.
Writes(new) == text' = new \o SubSeq(text, Len(new) + 1, Len(text))

Write ==
  /\ pc = "write"
  /\ Writes(Content(draft.lists, draft.values))
  /\ origin' = Wrote("generate")
  /\ End("generated")
  /\ UNCHANGED faults

\* The disk is full in the middle of a line.
Cuts(lines) ==
  {SubSeq(lines, 1, n) : n \in 0..(Len(lines) - 1)}
    \cup UNION {{Append(SubSeq(lines, 1, n - 1), [lines[n] EXCEPT !.rest = SubSeq(@, 1, k)]) :
                   k \in 0..(Len(lines[n].rest) - 1)} : n \in DOMAIN lines}

WriteFails ==
  /\ pc = "write" /\ Fault
  /\ \E cut \in Cuts(Content(draft.lists, draft.values)) : Writes(cut)
  /\ End("failed")
  /\ UNCHANGED origin

\* A signal ends the process by os.Exit: nothing deferred runs, and the
\* temporary directory stays with what was downloaded.
Kill ==
  /\ pc # "idle" /\ Fault
  /\ dir' \in CASE pc = "tool" -> Torn(todo)
                [] pc = "fetch" /\ todo # {} -> Torn({NextObject})
                [] OTHER -> {dir}
  /\ Leave("killed")
  /\ UNCHANGED <<text, origin>>

-----------------------------------------------------------------------------
(***************************************************************************)
(* build, with the user's directory as the work directory.                 *)
(***************************************************************************)

StartBuild ==
  /\ pc = "idle" /\ text # Absent
  /\ pc' = "parse" /\ result' = "none"
  /\ was' = [NoPast EXCEPT !.text = text]
  /\ Forget /\ dir' = Clean(dir)
  /\ UNCHANGED <<text, edits, faults, origin>>

\* NewModelfile.
Parse ==
  /\ pc = "parse" /\ text # Absent
  /\ Parses(text)
  /\ mf' = [patterns |-> ParseFile(text), origin |-> origin]
  /\ pc' = "match"
  /\ UNCHANGED <<dir, text, result, edits, faults, origin, commandVars, layers>>

ParseFails ==
  /\ pc = "parse"
  /\ text = Absent \/ ~Parses(text)
  /\ Leave("unbuilt")
  /\ UNCHANGED <<dir, text, faults, origin>>

Match1 == Buildable(mf.patterns, Present("local"))

Process ==
  /\ pc = "match" /\ Match1
  /\ layers' = LayersOf(mf.patterns, Present("local"))
  /\ pc' = "idle" /\ result' = "built"
  /\ UNCHANGED <<dir, text, edits, faults, origin, commandVars, mf>>

ProcessFails == pc = "match" /\ ~Match1 /\ Leave("unbuilt") /\ UNCHANGED <<dir, text, faults, origin>>

-----------------------------------------------------------------------------
(***************************************************************************)
(* The user; never between the two calls of os.WriteFile.                  *)
(***************************************************************************)

Edits == edits < MaxEdits /\ edits' = edits + 1

EditModelfile ==
  /\ Edits /\ pc # "write"
  /\ \E t \in Handwritten \cup {Absent} : text # t /\ text' = t
  /\ origin' = NoOrigin
  /\ was' = [was EXCEPT !.touched = @ \cup {Own}]
  /\ UNCHANGED <<dir, pc, result, faults, opts, version, todo, draft, buildVars>>

EditFile ==
  /\ Edits
  /\ \E f \in Added :
       /\ dir' = [dir EXCEPT !["local"][f] = IF @ = None THEN "user" ELSE None]
       /\ was' = [was EXCEPT !.touched = @ \cup {f}]
  /\ UNCHANGED <<text, pc, result, faults, origin, opts, version, todo, draft, buildVars>>

-----------------------------------------------------------------------------
Download == FetchObject \/ LoseObject \/ ListingFails \/ Fetched \/ RunTool \/ ToolFails

Generation == Walk \/ WalkFails \/ ReadConfig \/ ReadConfigFails \/ Open \/ OpenFails \/ Write \/ WriteFails

Build == StartBuild \/ Parse \/ ParseFails \/ Process \/ ProcessFails

Next ==
  \/ \E o \in Options : Generate(o) \/ RefuseGenerate(o)
  \/ \E url \in Urls : Resolve(url)
  \/ ResolveFails
  \/ Download \/ Generation \/ Build
  \/ Kill
  \/ EditModelfile \/ EditFile

Spec == Init /\ [][Next]_vars

-----------------------------------------------------------------------------
Listed(lists) == UNION {{<<c, f>> : f \in lists[c]} : c \in Processed}

\* Paths that are written so that the parser or a build reads another path.
Misread(f) ==
  \/ Range(f) \cap (Globs \cup {Slash}) # {}
  \/ Blank \notin Range(f) /\ (Quote \in Range(f) \/ Padded(f))

\* Values are never quoted.
Unquotable(v) == Range(v) \cap {Blank, Quote, Slash} # {} \/ Padded(v)

Plain(o) ==
  /\ \A c \in Lists : \A f \in o.lists[c] : ~Misread(f)
  /\ \A s \in Singles : ~Unquotable(o.values[s])

\* An artifact built from a generated Modelfile has exactly the files that
\* the flags choose from the workspace, under the right command, and the
\* values found there, whatever was added or removed in between.
BuildFaithful ==
  result = "built" /\ mf.origin.by = "generate" /\ Plain(mf.origin) =>
    /\ layers = Listed(mf.origin.lists)
    /\ \A s \in Singles : mf.patterns[s] = {mf.origin.values[s]} \ {<<>>}

\* A build that has no Modelfile or not a generated one, or one with a name
\* that cannot be written, or one that lists a file that is not there.
Unbuildable(o) ==
  \/ text = Absent \/ o.by # "generate" \/ ~Plain(o)
  \/ \E l \in Listed(o.lists) : l[2] \notin Present("local")

\* A generated Modelfile fails to build only for a name that it cannot
\* express or a listed file that is not there, such as those of an import
\* whose directory was temporary.
BuildExplained ==
  [][ /\ pc = "parse" /\ result' = "unbuilt" => Unbuildable(origin)
      /\ pc = "match" /\ result' = "unbuilt" => Unbuildable(mf.origin) ]_vars

\* A successful import lists each chosen file of the version, and the
\* directory has it as that version does, except the objects whose download
\* failed; besides those it lists only files that were in the directory.
ImportFaithful ==
  result = "generated" /\ version # None =>
    LET found == UNION Range(draft.lists)
        sure  == Objects[version] \ (was.lost \cup was.touched)
    IN  /\ \A f \in sure : Chosen(f, opts.filter) <=> f \in found
        /\ opts.dir = "local" => \A f \in sure : dir["local"][f] = version
        /\ found \subseteq Objects[version] \cup was.files \cup was.touched

\* A Modelfile is replaced when --overwrite says so, or when it appeared
\* while the command ran; until it is replaced no failure disturbs it.
ModelfileKept ==
  /\ was.replaced # {} => was.overwrite \/ was.text = Absent
  /\ result \in {"refused", "failed", "killed"} /\ was.replaced = {} /\ Own \notin was.touched
       => text = was.text

\* A Modelfile that a kill or a full disk cut short may leave files out, but
\* adds none: at most a file whose name is the beginning of a chosen one.
CutSafe ==
  result = "built" /\ mf.origin.by = "cut" /\ Plain(mf.origin) =>
    \A l \in layers :
      \/ l \in Listed(mf.origin.lists)
      \/ \E f \in mf.origin.lists[l[1]] : Blank \notin Range(f) /\ IsStrictPrefix(l[2], f)
=============================================================================
