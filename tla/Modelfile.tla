------------------------------ MODULE Modelfile ------------------------------
(***************************************************************************)
(* The Modelfile (pkg/modelfile): what generate selects from a workspace   *)
(* and writes, and what the parser and a build make of its lines.  Files   *)
(* are named by texts, sequences of characters, since quoting and globbing *)
(* decide what a line means.  "[x]" is a bracket expression, which a name  *)
(* may contain as well.  Line breaks in names are left out.                *)
(***************************************************************************)
EXTENDS FiniteSets, Naturals, Sequences, SequencesExt

CONSTANTS
  Order,       \* the entries of workspaces, as filepath.Walk visits them
  Dirs,        \* those that are directories, the workspace itself among them
  Skippable,   \* those that match skipPatterns: hidden, __pycache__, ...
  TablesOf,    \* the pattern tables that a file name matches
  SizeOf,      \* of a file
  Threshold,   \* WeightFileSizeThreshold
  MaxFile,     \* MaxSingleFileSize
  MaxFiles,    \* MaxWorkspaceFileCount
  MaxTotal,    \* MaxTotalWorkspaceSize
  ConfigFiles, \* config.json and generation_config.json
  Declares     \* the keys of each, with the texts they have

Root  == <<".">>
Files == Range(Order) \ Dirs

Singles == {"NAME", "ARCH", "FAMILY", "FORMAT", "PARAMSIZE", "PRECISION", "QUANTIZATION"}
Lists   == {"CONFIG", "MODEL", "CODE", "DATASET", "DOC"}
Ignored == {"blank", "comment"}

Blank   == " "
NoBreak == "nbsp" \* a space that TrimSpace strips and nothing else knows
Quote == "\""
Slash == "\\"
Globs == {"*", "[x]"}

IsText(t) == t \in Seq(Range(t))

Inside(e, d) == d = Root \/ IsPrefix(Append(d, "/"), e)

ASSUME ModelfileAssumption ==
  /\ Order \in Seq(Range(Order))
  /\ \A e \in Range(Order) : IsText(e) /\ e # <<>>
  /\ \A i, k \in DOMAIN Order : Order[k] \in Dirs /\ Inside(Order[i], Order[k]) => k <= i
  /\ Root \in Dirs /\ Dirs \subseteq Range(Order) /\ Skippable \subseteq Range(Order)
  /\ TablesOf \in [Files -> SUBSET {"CONFIG", "MODEL", "CODE", "DOC"}]
  /\ SizeOf \in [Files -> Nat]
  /\ {Threshold, MaxFile, MaxFiles, MaxTotal} \subseteq Nat
  /\ ConfigFiles \in Seq(Files)
  /\ DOMAIN Declares = Range(ConfigFiles)
  /\ \A f \in Range(ConfigFiles) :
       /\ DOMAIN Declares[f] \subseteq {"torch_dtype", "model_type", "transformers_version"}
       /\ \A key \in DOMAIN Declares[f] : IsText(Declares[f][key])

-----------------------------------------------------------------------------
(***************************************************************************)
(* Selection.  A pattern of --include or --exclude is the set "hits" of    *)
(* entries it matches and the set "below" of directories whose name, with  *)
(* a separator, it begins with; a filter is a set of each.                 *)
(***************************************************************************)

Match(patterns, e) == \E p \in patterns : e \in p.hits

ShouldDescend(patterns, d) == \E p \in patterns : d \in p.hits \/ d \in p.below

IsFileType(f, table) == table \in TablesOf[f]

InferFileType(f) ==
  LET tables == <<"CONFIG", "MODEL", "CODE", "DOC">>
      hits   == {i \in 1..4 : IsFileType(f, tables[i])}
  IN  IF hits # {} THEN tables[CHOOSE i \in hits : \A k \in hits : i <= k]
      ELSE IF SizeOf[f] > Threshold THEN "MODEL" ELSE "CODE"

\* The state of the walk: what is listed, the directories not entered, and
\* the counters of the limits.
NoLists   == [c \in Lists |-> {}]
WalkStart == [lists |-> NoLists, skipped |-> {}, count |-> 0, total |-> 0, exceeded |-> FALSE]

\* Wrong variant: only files are skipped.
VisitDirAlways(w, d, filter) ==
  IF Match(filter.exclude, d) THEN [w EXCEPT !.skipped = @ \cup {d}] ELSE w

VisitDir(w, d, filter) ==
  IF Match(filter.exclude, d) \/ (d \in Skippable /\ ~ShouldDescend(filter.include, d))
  THEN [w EXCEPT !.skipped = @ \cup {d}]
  ELSE w

VisitFile(w, f, filter) ==
  IF (f \in Skippable /\ ~Match(filter.include, f)) \/ Match(filter.exclude, f)
  THEN w
  ELSE [w EXCEPT !.count = @ + 1,
                 !.total = @ + SizeOf[f],
                 !.exceeded = SizeOf[f] > MaxFile \/ w.count + 1 > MaxFiles
                                \/ w.total + SizeOf[f] > MaxTotal,
                 !.lists[InferFileType(f)] = @ \cup {f}]

\* The function passed to filepath.Walk; an error ends the walk.
Visit(w, e, filter) ==
  IF w.exceeded \/ \E d \in w.skipped : Inside(e, d) THEN w
  ELSE IF e \in Dirs THEN VisitDir(w, e, filter) ELSE VisitFile(w, e, filter)

Entries(present) == present \cup {d \in Dirs : \E f \in present : Inside(f, d)}

\* The walk when it has come to the end of Order.
Walked(present, filter) ==
  LET entries == Entries(present)
      w[n \in 0..Len(Order)] ==
        IF n = 0 THEN WalkStart
        ELSE IF Order[n] \in entries THEN Visit(w[n - 1], Order[n], filter) ELSE w[n - 1]
  IN  w[Len(Order)]

GenerateByWorkspace(present, filter) ==
  LET w == Walked(present, filter)
  IN  [lists |-> w.lists,
       ok    |-> present # {} /\ ~w.exceeded /\ w.lists["MODEL"] \cup w.lists["CODE"] # {}]

\* The same, as a user understands the flags: a file is chosen unless it or a
\* directory above it is excluded, or is one of those normally skipped and no
\* include reaches it.
Chosen(f, filter) ==
  /\ ~Match(filter.exclude, f)
  /\ f \in Skippable => Match(filter.include, f)
  /\ \A d \in {dir \in Dirs : Inside(f, dir)} :
       /\ ~Match(filter.exclude, d)
       /\ d \in Skippable => ShouldDescend(filter.include, d)

-----------------------------------------------------------------------------
(***************************************************************************)
(* The single values: flags, then the configuration files of the model.    *)
(***************************************************************************)

\* The files there that have a key, of which the last one decides.
Declaring(present, key) ==
  {i \in DOMAIN ConfigFiles : ConfigFiles[i] \in present /\ key \in DOMAIN Declares[ConfigFiles[i]]}

\* A text, or none; a value that is not a text hides that of an earlier file
\* and is none itself, so that Declares has <<>> for it.
KeyOr(present, key) ==
  LET having == Declaring(present, key)
  IN  IF having = {} THEN <<>>
      ELSE Declares[ConfigFiles[CHOOSE i \in having : \A k \in having : k <= i]][key]

GenerateByModelConfig(present) ==
  [s \in Singles |->
     CASE s = "PRECISION" -> KeyOr(present, "torch_dtype")
       [] s = "FAMILY"    -> KeyOr(present, "model_type")
       [] s = "ARCH" /\ Declaring(present, "transformers_version") # {} -> <<"transformer">>
       [] OTHER -> <<>>]

\* Flags win; the name defaults to that of the directory.
GenerateByConfig(values, flags, base) ==
  [s \in Singles |-> IF s \in DOMAIN flags THEN flags[s]
                     ELSE IF s = "NAME" THEN base ELSE values[s]]

-----------------------------------------------------------------------------
(***************************************************************************)
(* The text: lines of a word and the rest of the line.                     *)
(***************************************************************************)

Line(word, rest) == [word |-> word, rest |-> rest]

Escaped(c) == IF c = Quote THEN <<Slash, Quote>> ELSE <<c>>

\* Only a blank makes it quote, and only quotes are escaped.
QuoteIfNeeded(t) ==
  LET escaped[n \in 0..Len(t)] == IF n = 0 THEN <<>> ELSE escaped[n - 1] \o Escaped(t[n])
  IN  IF Blank \in Range(t) THEN <<Quote>> \o escaped[Len(t)] \o <<Quote>> ELSE t

\* Wrong variant: a command without an argument.
WriteFieldAlways(s, values) == <<Line(s, values[s])>>

WriteField(s, values) == IF values[s] = <<>> THEN <<>> ELSE <<Line(s, values[s])>>

WriteMultiField(c, lists) ==
  LET lines[n \in 0..Len(Order)] ==
        IF n = 0 THEN <<>>
        ELSE IF Order[n] \in lists[c] THEN Append(lines[n - 1], Line(c, QuoteIfNeeded(Order[n])))
        ELSE lines[n - 1]
  IN  lines[Len(Order)]

\* Comments and empty lines between these are left out.  DATASET is not written.
Content(lists, values) ==
  WriteField("NAME", values) \o WriteField("ARCH", values) \o WriteField("FAMILY", values)
  \o WriteField("FORMAT", values) \o WriteField("PARAMSIZE", values)
  \o WriteField("PRECISION", values) \o WriteField("QUANTIZATION", values)
  \o WriteMultiField("CONFIG", lists) \o WriteMultiField("CODE", lists)
  \o WriteMultiField("MODEL", lists) \o WriteMultiField("DOC", lists)

-----------------------------------------------------------------------------
(***************************************************************************)
(* The parser.                                                             *)
(***************************************************************************)

Spaces == {Blank, NoBreak}

\* A text with a space at an end.
Padded(t) == t # <<>> /\ {t[1], t[Len(t)]} \cap Spaces # {}

TrimSpace(t) ==
  LET solid == {i \in DOMAIN t : t[i] \notin Spaces}
  IN  IF solid = {} THEN <<>>
      ELSE SubSeq(t, CHOOSE i \in solid : \A k \in solid : i <= k,
                     CHOOSE i \in solid : \A k \in solid : k <= i)

Scanner == [args |-> <<>>, current |-> <<>>, inQuotes |-> FALSE, hadQuotes |-> FALSE, escape |-> FALSE]

EndArg(s) ==
  IF s.current # <<>> \/ s.hadQuotes
  THEN [s EXCEPT !.args = Append(@, s.current), !.current = <<>>, !.hadQuotes = FALSE]
  ELSE s

Scan(s, c) ==
  IF s.escape THEN [s EXCEPT !.current = Append(@, c), !.escape = FALSE]
  ELSE CASE c = Slash -> [s EXCEPT !.escape = TRUE]
         [] c = Quote -> [s EXCEPT !.inQuotes = ~@, !.hadQuotes = TRUE]
         [] c = Blank /\ ~s.inQuotes -> EndArg(s)
         [] OTHER -> [s EXCEPT !.current = Append(@, c)]

\* The scanner at the end of a text.
Scanned(t) ==
  LET s[n \in 0..Len(t)] == IF n = 0 THEN Scanner ELSE Scan(s[n - 1], t[n])
  IN  s[Len(t)]

\* Wrong variant: the end of the line closes a quote.
ParseArgsLeniently(t) == EndArg(Scanned(TrimSpace(t))).args

\* The arguments; none when a quote is left open.
ParseArgs(t) ==
  LET s == Scanned(TrimSpace(t))
  IN  IF s.inQuotes THEN <<>> ELSE EndArg(s).args

\* parseStringArgs.
OneArgument(args) == Len(args) = 1 /\ args[1] # <<>>

\* A command with its argument, or a line that is passed over.
Valid(line) ==
  line.word \notin Ignored =>
    line.word \in Singles \cup Lists /\ OneArgument(ParseArgs(line.rest))

\* An unknown word, bad arguments or a second line for a single value.
Parses(lines) ==
  /\ \A i \in DOMAIN lines : Valid(lines[i])
  /\ \A i, k \in DOMAIN lines : lines[i].word \in Singles /\ lines[k].word = lines[i].word => i = k

\* parseFile: the arguments of each command.
ParseFile(lines) ==
  [c \in Singles \cup Lists |->
     {ParseArgs(lines[i].rest)[1] : i \in {k \in DOMAIN lines : lines[k].word = c}}]

-----------------------------------------------------------------------------
(***************************************************************************)
(* What a build does with a pattern.                                       *)
(***************************************************************************)

HasGlob(p) == Range(p) \cap Globs # {}

\* filepath.Glob: a star stands for anything within a path component.
GlobMatch(p, t) ==
  LET m[i \in 0..Len(p), k \in 0..Len(t)] ==
        IF i = 0 THEN k = 0
        ELSE CASE p[i] = "*"   -> m[i - 1, k] \/ (k > 0 /\ t[k] # "/" /\ m[i, k - 1])
               [] p[i] = "[x]" -> k > 0 /\ t[k] = "x" /\ m[i - 1, k - 1]
               [] OTHER        -> k > 0 /\ t[k] = p[i] /\ m[i - 1, k - 1]
  IN  m[Len(p), Len(t)]

\* A plain path has to exist; a glob may match nothing.
Resolves(p, present) == HasGlob(p) \/ p \in Entries(present)

Matched(p, present) ==
  IF HasGlob(p) THEN {e \in Entries(present) \ {Root} : GlobMatch(p, e)} ELSE {p}

\* getProcessors leaves DATASET out.
Processed == {"CONFIG", "MODEL", "CODE", "DOC"}

\* Wrong variant: a directory is processed as a file.
BuildableIfThere(patterns, present) ==
  \A c \in Processed : \A p \in patterns[c] : Resolves(p, present)

\* A directory is an error of BuildLayer.
Buildable(patterns, present) ==
  \A c \in Processed : \A p \in patterns[c] :
    Resolves(p, present) /\ Matched(p, present) \cap Dirs = {}

LayersOf(patterns, present) ==
  UNION {{<<c, f>> : f \in UNION {Matched(p, present) : p \in patterns[c]}} : c \in Processed}
=============================================================================
