-------------------------- MODULE RegistryPublish ---------------------------
(***************************************************************************)
(* Publishing to a repository of a remote registry: push copies a local    *)
(* artifact (pkg/backend/push.go), build and attach with --output-remote   *)
(* write one directly (pkg/backend/build/remote.go), upload stores a layer *)
(* in advance.  Each asks the registry what it has, sends the rest, and    *)
(* retries a request whose answer got lost without knowing whether the     *)
(* registry carried it out.  Several clients may work on the repository.   *)
(*                                                                         *)
(* The registry only keeps what it is sent: it is not assumed to check the *)
(* references of a manifest, and nothing is deleted from it.               *)
(***************************************************************************)
EXTENDS FiniteSets, Naturals

CONSTANTS
  Clients,     \* modctl processes, on any machine
  Tags,        \* tags of the repository
  Manifests,   \* manifests, each standing for its digest
  Blobs,       \* layers and configs
  LayersOf,    \* the layers a manifest lists
  ConfigOf,    \* the config it names
  Kinds,       \* the commands the clients run
  None         \* an absent tag, or no command

AllKinds == {"push", "build", "attach", "upload"}

ASSUME RegistryAssumption ==
  /\ LayersOf \in [Manifests -> SUBSET Blobs]
  /\ ConfigOf \in [Manifests -> Blobs]
  /\ Kinds \subseteq AllKinds
  /\ None \notin Manifests

VARIABLES
  rblobs,      \* blobs in the repository
  rmans,       \* manifests in it
  rtags,       \* what its tags point at
  pc,          \* the step each client is at
  cmd,         \* its command
  want         \* the blobs it has yet to settle

registry == <<rblobs, rmans, rtags>>
vars     == <<registry, pc, cmd, want>>

RefsOf(m) == LayersOf[m] \cup {ConfigOf[m]}
Commands  == [kind : Kinds, tag : Tags, man : Manifests]
Steps     == {"idle", "layers", "config", "manifest", "exists", "absent", "settag", "done"}

TypeOK ==
  /\ rblobs \subseteq Blobs
  /\ rmans \subseteq Manifests
  /\ rtags \in [Tags -> Manifests \cup {None}]
  /\ pc \in [Clients -> Steps]
  /\ cmd \in [Clients -> Commands \cup {None}]
  /\ \A c \in Clients : pc[c] # "idle" => cmd[c] \in Commands
  /\ want \in [Clients -> SUBSET Blobs]

Init ==
  /\ rblobs = {} /\ rmans = {}
  /\ rtags = [t \in Tags |-> None]
  /\ pc = [c \in Clients |-> "idle"]
  /\ cmd = [c \in Clients |-> None]
  /\ want = [c \in Clients |-> {}]

-----------------------------------------------------------------------------
Goes(c, s) == pc' = [pc EXCEPT ![c] = s] /\ UNCHANGED <<cmd, want>>

Settles(c, b) == want' = [want EXCEPT ![c] = @ \ {b}] /\ UNCHANGED <<pc, cmd>>

Begin(c, kind, t, m, blobs) ==
  /\ kind \in Kinds
  /\ pc[c] = "idle"
  /\ pc' = [pc EXCEPT ![c] = "layers"]
  /\ cmd' = [cmd EXCEPT ![c] = [kind |-> kind, tag |-> t, man |-> m]]
  /\ want' = [want EXCEPT ![c] = blobs]
  /\ UNCHANGED registry

StartPush(c, t, m)  == Begin(c, "push", t, m, LayersOf[m])
StartBuild(c, t, m) == Begin(c, "build", t, m, LayersOf[m])

\* The source is read from the registry; only the new layer is sent.
StartAttach(c, s, t, m) ==
  \E old \in Manifests \ {m} :
    /\ rtags[s] = old
    /\ Cardinality(LayersOf[m] \ LayersOf[old]) <= 1
    /\ Cardinality(LayersOf[old] \ LayersOf[m]) <= 1
    /\ Begin(c, "attach", t, m, LayersOf[m] \ LayersOf[old])

StartUpload(c, t, m) == \E b \in LayersOf[m] : Begin(c, "upload", t, m, {b})

-----------------------------------------------------------------------------
SkipBlob(c, b) ==
  /\ pc[c] \in {"layers", "config"} /\ b \in want[c]
  /\ b \in rblobs
  /\ Settles(c, b)
  /\ UNCHANGED registry

SendBlob(c, b) ==
  /\ pc[c] \in {"layers", "config"} /\ b \in want[c]
  /\ rblobs' = rblobs \cup {b}
  /\ Settles(c, b)
  /\ UNCHANGED <<rmans, rtags>>

\* The registry has the blob, but the client does not learn it and retries.
\* Attach sends its config without retrying (SendBlob, then Return).
LoseBlobAnswer(c, b) ==
  /\ pc[c] \in {"layers", "config"} /\ b \in want[c]
  /\ cmd[c].kind = "attach" => pc[c] = "layers"
  /\ rblobs' = rblobs \cup {b}
  /\ UNCHANGED <<rmans, rtags, pc, cmd, want>>

\* Wrong variant: the config and the manifest do not wait for the layers.
SettleNothing(c) ==
  /\ pc[c] = "layers"
  /\ cmd[c].kind # "upload"
  /\ pc' = [pc EXCEPT ![c] = "config"]
  /\ want' = [want EXCEPT ![c] = {ConfigOf[cmd[c].man]}]
  /\ UNCHANGED <<cmd, registry>>

SettleLayers(c) ==
  /\ pc[c] = "layers" /\ want[c] = {}
  /\ cmd[c].kind # "upload"
  /\ pc' = [pc EXCEPT ![c] = "config"]
  /\ want' = [want EXCEPT ![c] = {ConfigOf[cmd[c].man]}]
  /\ UNCHANGED <<cmd, registry>>

EndUpload(c) ==
  /\ pc[c] = "layers" /\ want[c] = {}
  /\ cmd[c].kind = "upload"
  /\ Goes(c, "done")
  /\ UNCHANGED registry

SettleConfig(c) ==
  /\ pc[c] = "config" /\ want[c] = {}
  /\ Goes(c, "manifest")
  /\ UNCHANGED registry

-----------------------------------------------------------------------------
\* Ask whether the registry has the manifest.
AskManifest(c) ==
  /\ pc[c] = "manifest"
  /\ Goes(c, IF cmd[c].man \in rmans THEN "exists" ELSE "absent")
  /\ UNCHANGED registry

SendManifest(c) ==
  /\ pc[c] = "absent"
  /\ rmans' = rmans \cup {cmd[c].man}
  /\ Goes(c, "settag")
  /\ UNCHANGED <<rblobs, rtags>>

\* The request fails, before or after the registry has carried it out.  push
\* and build start over with the question; attach does not retry.
LosesAnswer(c) == Goes(c, IF cmd[c].kind = "attach" THEN "idle" ELSE "manifest")

LoseManifestAnswer(c) ==
  /\ pc[c] = "absent"
  /\ rmans' \in {rmans, rmans \cup {cmd[c].man}}
  /\ LosesAnswer(c)
  /\ UNCHANGED <<rblobs, rtags>>

\* Wrong variant: push takes the manifest for published whether or not the
\* tag is there.
KeepAnyTag(c) ==
  /\ pc[c] = "exists"
  /\ Goes(c, "done")
  /\ UNCHANGED registry

\* The manifest is there: push checks that the tag resolves, to whatever it
\* is; build and attach do not look at the tag.
KeepTag(c) ==
  /\ pc[c] = "exists"
  /\ cmd[c].kind = "push" => rtags[cmd[c].tag] # None
  /\ Goes(c, "done")
  /\ UNCHANGED registry

\* The tag does not resolve, or the request to resolve it fails.
MissTag(c) ==
  /\ pc[c] = "exists"
  /\ cmd[c].kind = "push"
  /\ Goes(c, "settag")
  /\ UNCHANGED registry

SendTag(c) ==
  /\ pc[c] = "settag"
  /\ rtags' = [rtags EXCEPT ![cmd[c].tag] = cmd[c].man]
  /\ Goes(c, "done")
  /\ UNCHANGED <<rblobs, rmans>>

LoseTagAnswer(c) ==
  /\ pc[c] = "settag"
  /\ rtags' \in {rtags, [rtags EXCEPT ![cmd[c].tag] = cmd[c].man]}
  /\ LosesAnswer(c)
  /\ UNCHANGED <<rblobs, rmans>>

\* Wrong variant: the step is not reset.
ReturnKeepsStep(c) ==
  /\ pc[c] # "idle"
  /\ cmd' = [cmd EXCEPT ![c] = None]
  /\ UNCHANGED <<pc, want, registry>>

\* The command ends: with success, after its retries, or killed.
Return(c) ==
  /\ pc[c] # "idle"
  /\ pc' = [pc EXCEPT ![c] = "idle"]
  /\ cmd' = [cmd EXCEPT ![c] = None]
  /\ want' = [want EXCEPT ![c] = {}]
  /\ UNCHANGED registry

-----------------------------------------------------------------------------
Start(c) ==
  \E t \in Tags, m \in Manifests :
    \/ StartPush(c, t, m) \/ StartBuild(c, t, m) \/ StartUpload(c, t, m)
    \/ \E s \in Tags : StartAttach(c, s, t, m)

MoveBlob(c, b) == SkipBlob(c, b) \/ SendBlob(c, b) \/ LoseBlobAnswer(c, b)

Publish(c) ==
  \/ SettleLayers(c) \/ EndUpload(c) \/ SettleConfig(c)
  \/ AskManifest(c) \/ SendManifest(c) \/ LoseManifestAnswer(c)
  \/ KeepTag(c) \/ MissTag(c) \/ SendTag(c) \/ LoseTagAnswer(c)

Next ==
  \E c \in Clients :
    Start(c) \/ (\E b \in Blobs : MoveBlob(c, b)) \/ Publish(c) \/ Return(c)

Spec == Init /\ [][Next]_vars

-----------------------------------------------------------------------------
RemoteComplete(m) == m \in rmans /\ RefsOf(m) \subseteq rblobs

\* A tag of the repository resolves to a manifest all of whose blobs the
\* registry has, whatever clients were interleaved, killed or had to retry,
\* even on a registry that does not check (push.go: "the order is important,
\* manifest should be pushed at last").
RemoteTaggedComplete ==
  \A t \in Tags : rtags[t] # None => RemoteComplete(rtags[t])

Publishers == {"push", "build", "attach"}

\* Success means that the whole artifact is in the registry, the parts that
\* were skipped included.
RemoteDelivered ==
  \A c \in Clients :
    pc[c] = "done" /\ cmd[c].kind \in Publishers => RemoteComplete(cmd[c].man)

\* After a push that reports success its tag resolves to something ("should
\* check the tag existence as well", push.go:150).
PushTagExists ==
  \A c \in Clients : pc[c] = "done" /\ cmd[c].kind = "push" => rtags[cmd[c].tag] # None

\* After a push, or a build with --output-remote, that reports success its
\* tag resolves to what it published ("Tag the manifest", build/remote.go:148).
\* Meant for a single client, when nobody else moves the tag.
PublishMovesTag ==
  \A c \in Clients :
    pc[c] = "done" /\ cmd[c].kind \in {"push", "build"} => rtags[cmd[c].tag] = cmd[c].man

\* What a user sees of the repository: under each tag, the manifest and the
\* parts of the artifact that the registry has.
Visible(t) ==
  IF rtags[t] = None THEN None
  ELSE [man |-> rtags[t],
        parts |-> RefsOf(rtags[t]) \cap rblobs,
        readable |-> rtags[t] \in rmans]

Catalog == INSTANCE ArtifactCatalog WITH
  Names <- Tags,
  catalog <- [t \in Tags |-> Visible(t)],
  NoArtifact <- None

\* The repository implements the catalogue too: a name only ever changes in
\* one step from one whole artifact to another.
RemoteCatalogSpec == Catalog!Spec
=============================================================================
