----------------------------- MODULE OutputFile -----------------------------
(***************************************************************************)
(* One file of an output directory and the goroutines that decode a raw    *)
(* layer into it (pkg/codec/raw.go): pull --extract-from-remote, pull with *)
(* an extract directory, extract and fetch.  The size and the digest of    *)
(* what was written last are kept in extended attributes, so that the next *)
(* command can leave a file alone that is up to date already.              *)
(*                                                                         *)
(* Contents are sequences of blocks.  A block is that of a layer at its    *)
(* place, <<d, i>>, or one of Junk: bytes the layer does not hold, a hole  *)
(* left by a write beyond the end, or a file that was there before.        *)
(***************************************************************************)
EXTENDS Sequences, Naturals, FiniteSets

CONSTANTS
  Workers,     \* goroutines and commands that decode into this file
  Layers,      \* layers for this path: the versions of the file
  SizeOf,      \* the size of a layer, in blocks
  None         \* an attribute or a file that is not there

ASSUME SizeAssumption == SizeOf \in [Layers -> Nat \ {0}]
ASSUME NoneAssumption == None \notin Layers /\ None \notin Nat

Junk   == {"wrong", "hole", "foreign"} \X {0}
Blocks == (Layers \X Nat) \cup Junk

VARIABLES
  exists,      \* the file is there
  content,     \* its blocks
  size,        \* attribute: the size written last
  digest,      \* attribute: the layer written last
  st,          \* the step each worker is at
  layer,       \* the layer it decodes
  remote,      \* whether it decodes straight from the registry
  copied,      \* blocks it has written
  intact,      \* whether what it received so far is the layer
  crew,        \* history: workers and layers since the file was last left alone
  spoiled      \* history: something happened that can leave the attributes wrong

fileVars   == <<exists, content, size, digest>>
workerVars == <<st, layer, remote, copied, intact>>
history    == <<crew, spoiled>>
vars       == <<fileVars, workerVars, history>>

Steps == {"idle", "check", "create", "copy", "restore", "stampSize", "stampDigest",
          "validate", "done", "failed"}

TypeOK ==
  /\ exists \in BOOLEAN
  /\ content \in Seq(Blocks)
  /\ size \in Nat \cup {None}
  /\ digest \in Layers \cup {None}
  /\ st \in [Workers -> Steps]
  /\ layer \in [Workers -> Layers \cup {None}]
  /\ \A w \in Workers : st[w] # "idle" => layer[w] \in Layers
  /\ remote \in [Workers -> BOOLEAN]
  /\ copied \in [Workers -> Nat]
  /\ intact \in [Workers -> BOOLEAN]
  /\ crew \subseteq Workers \X Layers
  /\ spoiled \in BOOLEAN

\* The directory is new or holds a file of the user under that path.
Init ==
  /\ \/ exists = FALSE /\ content = <<>>
     \/ exists = TRUE /\ content = <<<<"foreign", 0>>>>
  /\ size = None /\ digest = None
  /\ st = [w \in Workers |-> "idle"]
  /\ layer = [w \in Workers |-> None]
  /\ remote = [w \in Workers |-> FALSE]
  /\ copied = [w \in Workers |-> 0]
  /\ intact = [w \in Workers |-> TRUE]
  /\ crew = {} /\ spoiled = FALSE

-----------------------------------------------------------------------------
Prefix(d, n) == [i \in 1..n |-> <<d, i>>]
ContentOf(d) == Prefix(d, SizeOf[d])

Goes(w, s) == st' = [st EXCEPT ![w] = s]

\* The ways an interrupted worker can leave attributes on the file that do
\* not describe it: others were at work on it too, it was replacing another
\* version, or it had received bytes that are not the layer's.
Replacing(w) == digest \notin {None, layer[w]}
Harm(w) ==
  \/ \E x, y \in crew : x # y
  \/ Replacing(w)
  \/ ~intact[w]

\* w leaves the file; with the last one the crew is gone.
Leaves(w) ==
  /\ Goes(w, "idle")
  /\ layer' = [layer EXCEPT ![w] = None]
  /\ crew' = IF \A v \in Workers \ {w} : st[v] = "idle" THEN {} ELSE crew
  /\ UNCHANGED <<fileVars, remote, copied, intact>>

-----------------------------------------------------------------------------
\* A command starts on the layer: extract from the local storage, pull and
\* fetch from the registry.
Start(w, d, fromRemote) ==
  /\ st[w] = "idle"
  /\ Goes(w, "check")
  /\ layer' = [layer EXCEPT ![w] = d]
  /\ remote' = [remote EXCEPT ![w] = fromRemote]
  /\ copied' = [copied EXCEPT ![w] = 0]
  /\ intact' = [intact EXCEPT ![w] = TRUE]
  /\ crew' = crew \cup {<<w, d>>}
  /\ spoiled' = (spoiled \/ \E x \in crew : x[2] # d)
  /\ UNCHANGED fileVars

\* Wrong variant: the digest is not compared.
SameSize(d) == exists /\ Len(content) = SizeOf[d] /\ size = SizeOf[d]

\* fileNeedsUpdate: the size of the file and both attributes have to agree
\* with the descriptor.
UpToDate(d) ==
  /\ exists
  /\ Len(content) = SizeOf[d]
  /\ size = SizeOf[d]
  /\ digest = d

Check(w) ==
  /\ st[w] = "check"
  /\ Goes(w, IF UpToDate(layer[w]) THEN "done" ELSE "create")
  /\ UNCHANGED <<fileVars, layer, remote, copied, intact, history>>

\* os.Create truncates; the attributes of the file stay.
Create(w) ==
  /\ st[w] = "create"
  /\ exists' = TRUE
  /\ content' = <<>>
  /\ copied' = [copied EXCEPT ![w] = 0]
  /\ intact' = [intact EXCEPT ![w] = TRUE]
  /\ Goes(w, "copy")
  /\ UNCHANGED <<size, digest, layer, remote, history>>

\* A write at the offset of the worker's own descriptor, beyond the end if
\* another worker has truncated the file meanwhile.
WriteAt(i, b) ==
  [j \in 1..(IF i > Len(content) THEN i ELSE Len(content)) |->
     IF j = i THEN b ELSE IF j <= Len(content) THEN content[j] ELSE <<"hole", 0>>]

Copy(w, good) ==
  LET i == copied[w] + 1
      b == IF good THEN <<layer[w], i>> ELSE <<"wrong", 0>>
  IN  /\ st[w] = "copy" /\ i <= SizeOf[layer[w]]
      /\ ~good => remote[w]
      /\ content' = WriteAt(i, b)
      /\ copied' = [copied EXCEPT ![w] = i]
      /\ intact' = [intact EXCEPT ![w] = @ /\ good]
      /\ UNCHANGED <<exists, size, digest, st, layer, remote, history>>

\* io.Copy returns: the layer has ended, or a stream of unknown length has
\* ended too soon.
EndCopy(w) ==
  /\ st[w] = "copy"
  /\ copied[w] < SizeOf[layer[w]] => remote[w]
  /\ intact' = [intact EXCEPT ![w] = @ /\ copied[w] = SizeOf[layer[w]]]
  /\ Goes(w, "restore")
  /\ UNCHANGED <<fileVars, layer, remote, copied, history>>

\* Mode and time of the file are restored.
Restore(w) ==
  /\ st[w] = "restore"
  /\ Goes(w, "stampSize")
  /\ UNCHANGED <<fileVars, layer, remote, copied, intact, history>>

StampSize(w) ==
  /\ st[w] = "stampSize"
  /\ size' = SizeOf[layer[w]]
  /\ Goes(w, "stampDigest")
  /\ UNCHANGED <<exists, content, digest, layer, remote, copied, intact, history>>

StampDigest(w) ==
  /\ st[w] = "stampDigest"
  /\ digest' = layer[w]
  /\ Goes(w, "validate")
  /\ UNCHANGED <<exists, content, size, layer, remote, copied, intact, history>>

\* An attribute cannot be set: logged and ignored.
StampFails(w) ==
  /\ st[w] \in {"stampSize", "stampDigest"}
  /\ Goes(w, "validate")
  /\ spoiled' = (spoiled \/ Replacing(w))
  /\ UNCHANGED <<fileVars, layer, remote, copied, intact, crew>>

\* Only what comes from the registry is validated, and only now.
Accept(w) ==
  /\ st[w] = "validate"
  /\ remote[w] => intact[w]
  /\ Goes(w, "done")
  /\ UNCHANGED <<fileVars, layer, remote, copied, intact, history>>

Reject(w) ==
  /\ st[w] = "validate"
  /\ remote[w] /\ ~intact[w]
  /\ Goes(w, "failed")
  /\ spoiled' = (spoiled \/ Harm(w))
  /\ UNCHANGED <<fileVars, layer, remote, copied, intact, crew>>

\* The file cannot be created or written, the transfer breaks, or the mode
\* or time cannot be restored.
Fail(w) ==
  /\ st[w] \in {"create", "copy", "restore"}
  /\ Goes(w, "failed")
  /\ spoiled' = (spoiled \/ Harm(w))
  /\ UNCHANGED <<fileVars, layer, remote, copied, intact, crew>>

\* pull fetches the layer once more, on the same file.
Retry(w) ==
  /\ st[w] = "failed" /\ remote[w]
  /\ Goes(w, "check")
  /\ UNCHANGED <<fileVars, layer, remote, copied, intact, history>>

\* Wrong variant: the step is not reset.
KillKeepsStep(w) ==
  /\ st[w] \notin {"idle", "done", "failed"}
  /\ layer' = [layer EXCEPT ![w] = None]
  /\ UNCHANGED <<fileVars, st, remote, copied, intact, history>>

\* The command ends: with success, with an error, or killed at any step.
Return(w) == st[w] \in {"done", "failed"} /\ Leaves(w) /\ UNCHANGED spoiled
Kill(w) ==
  /\ st[w] \notin {"idle", "done", "failed"}
  /\ spoiled' = (spoiled \/ Harm(w))
  /\ Leaves(w)

Worker(w) ==
  \/ \E d \in Layers, fromRemote \in BOOLEAN : Start(w, d, fromRemote)
  \/ Check(w) \/ Create(w)
  \/ \E good \in BOOLEAN : Copy(w, good)
  \/ EndCopy(w) \/ Restore(w)
  \/ StampSize(w) \/ StampDigest(w) \/ StampFails(w)
  \/ Accept(w) \/ Reject(w) \/ Fail(w) \/ Retry(w)
  \/ Return(w) \/ Kill(w)

Next == \E w \in Workers : Worker(w)

Spec == Init /\ [][Next]_vars

-----------------------------------------------------------------------------
\* Nobody but w is at work on the file.
LeftTo(w) == \A v \in Workers \ {w} : st[v] \in {"idle", "done"}

\* Success means the file holds the layer, written by this command or taken
\* for up to date, after any number of earlier commands that were killed or
\* failed at any step, and also when several goroutines wrote the same layer
\* at the same time, as fetch does for a file that two patterns match.  The
\* exceptions are those of Harm, several layers at work on the same path, and
\* a version whose attributes could not replace those of the one before.
SuccessIsRight ==
  ~spoiled => \A w \in Workers : st[w] = "done" /\ LeftTo(w) => content = ContentOf(layer[w])

\* No success rests on bytes whose digest was found wrong ("validate the
\* digest of the blob", pull.go:296): meant for a single worker, where the
\* only bytes that are not the layer's are those a registry got wrong.
RejectedStaysRejected ==
  \A w \in Workers : st[w] = "done" => content = ContentOf(layer[w])
=============================================================================
