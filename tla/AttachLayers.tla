---------------------------- MODULE AttachLayers ----------------------------
(***************************************************************************)
(* The layer list of an artifact under a sequence of attach commands       *)
(* (pkg/backend/attach.go).  An artifact is its list of layers and the     *)
(* diff ids its config states.  Attach puts one file into it: it replaces  *)
(* the layer of that path, sorts the list, and does nothing when the       *)
(* digests are those the config states already.                            *)
(*                                                                         *)
(* Three things can confuse it, and are recorded in muddled: a path that   *)
(* is not spelled as the layers spell it (./f, or an absolute path), two   *)
(* layers with the same digest, and a config whose diff ids are not those  *)
(* of the layers.                                                          *)
(***************************************************************************)
EXTENDS Naturals, Sequences, FiniteSets, SequencesExt

CONSTANTS
  Paths,       \* file paths, numbers in the order of the strings
  TypeOf,      \* the type inferred for a file of that name
  Dests,       \* where --destination-dir can put a file, itself included
  Contents,    \* contents and times of a file
  MaxLayers    \* bound on the layers of an artifact

Types == {"config", "model", "code", "doc"}

ASSUME AttachAssumption ==
  /\ Paths \subseteq Nat
  /\ TypeOf \in [Paths -> Types]
  /\ Dests \in [Paths -> SUBSET Paths]
  /\ \A f \in Paths : f \in Dests[f]
  /\ MaxLayers \in Nat

VARIABLES
  layers,      \* of the manifest
  diffIDs,     \* of the config
  muddled      \* history: an attach met one of the three confusing cases

vars == <<layers, diffIDs, muddled>>

Layers == [path : Paths, file : Paths, raw : BOOLEAN, content : Contents]

\* A raw layer is the content; a tar stream also holds the name of the file
\* that was attached, whatever its destination.
Digest(l) == IF l.raw THEN <<l.content>> ELSE <<l.content, l.file>>

MediaType(l) == <<TypeOf[l.file], l.raw>>

\* Wrong variant: the descriptors have no digest yet.
EmptyDiffIDs(s) == [i \in DOMAIN s |-> <<>>]

DiffIDs(s) == [i \in DOMAIN s |-> Digest(s[i])]

Rank == [config |-> 0, model |-> 1, code |-> 2, doc |-> 3]

\* The raw media types are not in the priority map, which yields its zero.
Priority(l) == IF l.raw THEN 0 ELSE Rank[TypeOf[l.file]]

\* The layer at i of s comes before the one at k; ties stay as they are.
Before(s, i, k) ==
  LET p == Priority(s[i])
      q == Priority(s[k])
  IN  \/ p < q
      \/ p = q /\ s[i].path < s[k].path
      \/ p = q /\ s[i].path = s[k].path /\ i < k

\* The elements of S in the order of their places: <<n, x>> when n elements
\* come before x.
Arranged(S, places) ==
  [k \in 1..Cardinality(S) |-> (CHOOSE x \in places : x[1] = k - 1)[2]]

\* sort.SliceStable.
sortLayers(s) ==
  LET places == {<<Cardinality({k \in DOMAIN s : Before(s, k, i)}), i>> : i \in DOMAIN s}
  IN  [k \in DOMAIN s |-> s[Arranged(DOMAIN s, places)[k]]]

\* The order of build: the processors in turn, each in the order of the paths.
BuiltBefore(e, f) ==
  \/ Rank[TypeOf[e]] < Rank[TypeOf[f]]
  \/ Rank[TypeOf[e]] = Rank[TypeOf[f]] /\ e < f

\* What build makes of a workspace: all layers raw or none.
BuiltOf(files, raw, content) ==
  LET places == {<<Cardinality({e \in files : BuiltBefore(e, f)}), f>> : f \in files}
      order  == Arranged(files, places)
  IN  [k \in DOMAIN order |->
         [path |-> order[k], file |-> order[k], raw |-> raw, content |-> content[order[k]]]]

Built ==
  {BuiltOf(files, raw, content) :
     files \in {F \in SUBSET Paths : F # {} /\ IsFiniteSet(F)},
     raw \in BOOLEAN, content \in [Paths -> Contents]}

TypeOK ==
  /\ layers \in Seq(Layers) /\ Len(layers) <= MaxLayers
  /\ diffIDs \in Seq({Digest(l) : l \in Layers})
  /\ muddled \in BOOLEAN

Init ==
  /\ layers \in Built
  /\ Len(layers) <= MaxLayers
  /\ diffIDs = DiffIDs(layers)
  /\ muddled = FALSE

-----------------------------------------------------------------------------
At(s, p) == {i \in DOMAIN s : s[i].path = p}
First(S) == CHOOSE i \in S : \A j \in S : i <= j

\* The layers of s found under the path given; it is compared as it is
\* spelled.
Found(s, l, spelled) == IF spelled THEN At(s, l.path) ELSE {}

\* Those that pass for layer i when it is removed.
Like(s, i) ==
  {j \in DOMAIN s : Digest(s[j]) = Digest(s[i]) /\ MediaType(s[j]) = MediaType(s[i])}

\* Wrong variants: the last layer goes, or none.
WithoutLast(s, l, spelled) ==
  IF Found(s, l, spelled) = {} THEN s ELSE RemoveAt(s, Len(s))

WithAll(s, l, spelled) == s

\* The list without the layer to be replaced: the first that has the digest
\* and the media type of the one found.
WithoutFound(s, l, spelled) ==
  IF Found(s, l, spelled) = {} THEN s
  ELSE RemoveAt(s, First(Like(s, First(Found(s, l, spelled)))))

NewLayers(s, l, spelled) == sortLayers(Append(WithoutFound(s, l, spelled), l))

\* Wrong variant: the lists are compared by their lengths.
SameLength(new) == Len(new) = Len(diffIDs)

\* "the diffID has no changed, which means the artifact has not changed".
Unchanged(new) == DiffIDs(new) = diffIDs

\* The layers after an attach that reports success.
Outcome(l, spelled) ==
  LET new == NewLayers(layers, l, spelled)
  IN  IF Unchanged(new) THEN layers ELSE new

\* The layer found cannot be told from another one.
HasTwin(s, l, spelled) ==
  /\ Found(s, l, spelled) # {}
  /\ Cardinality(Like(s, First(Found(s, l, spelled)))) > 1

\* The three confusing cases.
Confusing(l, spelled) ==
  \/ ~spelled
  \/ HasTwin(layers, l, spelled)
  \/ diffIDs # <<>> /\ diffIDs # DiffIDs(layers)

\* "file already exists, please use --force"; without that flag.
Refuse(l, spelled) ==
  /\ Found(layers, l, spelled) # {}
  /\ UNCHANGED vars

\* With --force, or for a path that is not found.
Replace(l, spelled) ==
  LET new == NewLayers(layers, l, spelled)
  IN  /\ Len(WithoutFound(layers, l, spelled)) < MaxLayers
      /\ IF Unchanged(new) THEN UNCHANGED <<layers, diffIDs>>
         ELSE layers' = new /\ diffIDs' = DiffIDs(new)
      /\ muddled' = (muddled \/ Confusing(l, spelled))

\* A file, which the user may have edited, with its path spelled in one way
\* or another; the path under --destination-dir is always clean.
Attachable == {l \in Layers : l.path \in Dests[l.file]}
Spelling(l) == IF l.path = l.file THEN BOOLEAN ELSE {TRUE}

\* A config exported before the file of layer i had its present content.
Exported(i) ==
  {DiffIDs([layers EXCEPT ![i].content = c]) : c \in Contents}

\* Attach with --config: the config is replaced by the user's file, which
\* may be the present config with other fields edited, an older one, or one
\* without diff ids.  The layers stay.
AttachConfig ==
  /\ diffIDs' \in {diffIDs, <<>>} \cup UNION {Exported(i) : i \in DOMAIN layers}
  /\ UNCHANGED <<layers, muddled>>

Next ==
  \/ \E l \in Attachable : \E spelled \in Spelling(l) : Refuse(l, spelled) \/ Replace(l, spelled)
  \/ AttachConfig

Spec == Init /\ [][Next]_vars

-----------------------------------------------------------------------------
(***************************************************************************)
(* Properties.  Each speaks of every attach that could come next.          *)
(***************************************************************************)

Clear(l) == ~muddled /\ ~Confusing(l, TRUE)

\* One layer in s for the path of l, and it has the content of the file.
Holds(s, l) ==
  \E i \in DOMAIN s : At(s, l.path) = {i} /\ Digest(s[i]) = Digest(l)

\* After an attach that reports success the path has one layer, with the
\* digest of the file, however often the artifact was attached to before
\* ("overwrite the layer if it already exists with same filepath",
\* cmd/attach.go:57), unless one of the three confusing cases came up.
AttachOverwrites ==
  \A l \in Attachable : Clear(l) => Holds(Outcome(l, TRUE), l)

Others(s, p) == {s[i] : i \in DOMAIN s \ At(s, p)}

\* An attach keeps the layers of all other paths, unless one of the three
\* confusing cases came up.
OthersKept ==
  \A l \in Attachable :
    Clear(l) => Others(Outcome(l, TRUE), l.path) = Others(layers, l.path)

\* A second attach of the same file finds nothing to do, even when its list
\* came from build, whose order differs from that of sortLayers, unless one
\* of the confusing cases came up or the first attach put a twin beside the
\* layer of another file.
AttachIsIdempotent ==
  \A l \in Attachable :
    LET s == Outcome(l, TRUE)
    IN  Clear(l) /\ ~HasTwin(s, l, TRUE) => DiffIDs(NewLayers(s, l, TRUE)) = DiffIDs(s)
=============================================================================
