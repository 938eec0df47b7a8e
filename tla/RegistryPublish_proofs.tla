----------------------- MODULE RegistryPublish_proofs -----------------------
(***************************************************************************)
(* Theorems about RegistryPublish, for any clients, tags and artifacts.    *)
(***************************************************************************)
EXTENDS RegistryPublish, TLAPS

USE RegistryAssumption DEF registry, RefsOf

-----------------------------------------------------------------------------
(* Type correctness. *)

LEMMA BeginTypeOK ==
  ASSUME TypeOK, NEW c \in Clients, NEW kind, NEW t \in Tags, NEW m \in Manifests,
         NEW blobs \in SUBSET Blobs, Begin(c, kind, t, m, blobs)
  PROVE  TypeOK'
<1>1. [kind |-> kind, tag |-> t, man |-> m] \in Commands
  BY DEF Begin, Commands
<1>. QED
  BY <1>1 DEF TypeOK, Begin, Steps

LEMMA StartTypeOK ==
  ASSUME TypeOK, NEW c \in Clients, Start(c)
  PROVE  TypeOK'
<1>1. \A m \in Manifests : LayersOf[m] \in SUBSET Blobs
  OBVIOUS
<1>2. PICK t \in Tags, m \in Manifests :
        \/ StartPush(c, t, m) \/ StartBuild(c, t, m) \/ StartUpload(c, t, m)
        \/ \E s \in Tags : StartAttach(c, s, t, m)
  BY DEF Start
<1>3. \E kind \in AllKinds : \E blobs \in SUBSET LayersOf[m] : Begin(c, kind, t, m, blobs)
  <2>1. CASE StartPush(c, t, m) \/ StartBuild(c, t, m)
    BY <2>1 DEF StartPush, StartBuild, AllKinds
  <2>2. CASE StartUpload(c, t, m)
    <3>1. PICK b \in LayersOf[m] : Begin(c, "upload", t, m, {b})
      BY <2>2 DEF StartUpload
    <3>. QED
      BY <3>1 DEF AllKinds
  <2>3. ASSUME NEW s \in Tags, StartAttach(c, s, t, m)
        PROVE  \E kind \in AllKinds : \E blobs \in SUBSET LayersOf[m] : Begin(c, kind, t, m, blobs)
    <3>1. PICK old \in Manifests : Begin(c, "attach", t, m, LayersOf[m] \ LayersOf[old])
      BY <2>3 DEF StartAttach
    <3>. QED
      BY <3>1 DEF AllKinds
  <2>. QED
    BY <1>2, <2>1, <2>2, <2>3
<1>. QED
  BY <1>1, <1>3, BeginTypeOK

LEMMA ActTypeOK ==
  ASSUME TypeOK, NEW c \in Clients,
         (\E b \in Blobs : MoveBlob(c, b)) \/ Publish(c) \/ Return(c)
  PROVE  TypeOK'
<1>1. pc[c] # "idle" => cmd[c].man \in Manifests /\ cmd[c].tag \in Tags
  BY DEF TypeOK, Commands
<1>. USE DEF TypeOK, Steps, Goes, Settles
<1>2. ASSUME NEW b \in Blobs, MoveBlob(c, b)
      PROVE  TypeOK'
  BY <1>2 DEF MoveBlob, SkipBlob, SendBlob, LoseBlobAnswer
<1>3. CASE SettleLayers(c)
  <2>1. ConfigOf[cmd[c].man] \in Blobs
    BY <1>1, <1>3 DEF SettleLayers
  <2>. QED
    BY <1>3, <2>1 DEF SettleLayers
<1>4. CASE EndUpload(c) \/ SettleConfig(c) \/ AskManifest(c) \/ KeepTag(c) \/ MissTag(c)
  BY <1>4 DEF EndUpload, SettleConfig, AskManifest, KeepTag, MissTag
<1>5. CASE SendManifest(c) \/ LoseManifestAnswer(c)
  BY <1>1, <1>5 DEF SendManifest, LoseManifestAnswer, LosesAnswer
<1>6. CASE SendTag(c) \/ LoseTagAnswer(c)
  BY <1>1, <1>6 DEF SendTag, LoseTagAnswer, LosesAnswer
<1>7. CASE Return(c)
  BY <1>7 DEF Return
<1>. QED
  BY <1>2, <1>3, <1>4, <1>5, <1>6, <1>7 DEF Publish

\* The variables keep their types (TypeOK of RegistryPublish).
THEOREM RegistryTypeCorrect == Spec => []TypeOK
<1>1. Init => TypeOK
  BY DEF Init, TypeOK, Steps
<1>2. TypeOK /\ [Next]_vars => TypeOK'
  <2>1. ASSUME TypeOK, UNCHANGED vars
        PROVE  TypeOK'
    BY <2>1 DEF TypeOK, vars
  <2>. QED
    BY <2>1, StartTypeOK, ActTypeOK DEF Next
<1>. QED
  BY <1>1, <1>2, PTL DEF Spec

-----------------------------------------------------------------------------
(* Nothing is published before what it refers to.                          *)
(*                                                                         *)
(* A client past a step has put what the step stands for into the registry *)
(* or has found it there, and the registry deletes nothing.                *)

\* The part of the artifact c has behind it.
Behind(c) ==
  CASE pc[c] = "layers" -> LayersOf[cmd[c].man] \ want[c]
    [] pc[c] = "config" -> RefsOf(cmd[c].man) \ want[c]
    [] OTHER            -> RefsOf(cmd[c].man)

ClientInv(c) ==
  /\ pc[c] # "idle" /\ cmd[c].kind # "upload" => Behind(c) \subseteq rblobs
  /\ pc[c] # "idle" /\ cmd[c].kind = "upload" => pc[c] \in {"layers", "done"}
  /\ pc[c] \in {"exists", "settag", "done"} /\ cmd[c].kind # "upload" => cmd[c].man \in rmans

PublishInv ==
  /\ \A m \in rmans : RefsOf(m) \subseteq rblobs
  /\ \A t \in Tags : rtags[t] # None => rtags[t] \in rmans
  /\ \A c \in Clients : ClientInv(c)

\* The registry only grows, and the other clients stay where they are.
LEMMA OthersKeep ==
  ASSUME TypeOK, NEW c \in Clients, NEW d \in Clients \ {c}, ClientInv(d),
         Start(c) \/ (\E b \in Blobs : MoveBlob(c, b)) \/ Publish(c) \/ Return(c)
  PROVE  ClientInv(d)'
<1>1. /\ rblobs \subseteq rblobs' /\ rmans \subseteq rmans'
      /\ pc'[d] = pc[d] /\ cmd'[d] = cmd[d] /\ want'[d] = want[d]
  <2>. USE DEF TypeOK, Goes, Settles
  <2>1. CASE Start(c)
    BY <2>1 DEF Start, StartPush, StartBuild, StartUpload, StartAttach, Begin
  <2>2. CASE \E b \in Blobs : MoveBlob(c, b)
    BY <2>2 DEF MoveBlob, SkipBlob, SendBlob, LoseBlobAnswer
  <2>3. CASE Publish(c)
    BY <2>3 DEF Publish, SettleLayers, EndUpload, SettleConfig, AskManifest, KeepTag, MissTag,
                SendManifest, LoseManifestAnswer, LosesAnswer, SendTag, LoseTagAnswer
  <2>4. CASE Return(c)
    BY <2>4 DEF Return
  <2>. QED
    BY <2>1, <2>2, <2>3, <2>4
<1>. QED
  BY <1>1 DEF ClientInv, Behind

LEMMA StartPublishInv ==
  ASSUME TypeOK, PublishInv, NEW c \in Clients, Start(c)
  PROVE  PublishInv'
<1>1. UNCHANGED registry /\ ClientInv(c)'
  <2>1. PICK t \in Tags, m \in Manifests :
          \/ StartPush(c, t, m) \/ StartBuild(c, t, m) \/ StartUpload(c, t, m)
          \/ \E s \in Tags : StartAttach(c, s, t, m)
    BY DEF Start
  <2>2. CASE StartPush(c, t, m) \/ StartBuild(c, t, m)
    BY <2>2 DEF StartPush, StartBuild, Begin, ClientInv, Behind, TypeOK
  <2>3. CASE StartUpload(c, t, m)
    BY <2>3 DEF StartUpload, Begin, ClientInv, Behind, TypeOK
  <2>4. ASSUME NEW s \in Tags, StartAttach(c, s, t, m)
        PROVE  UNCHANGED registry /\ ClientInv(c)'
    <3>1. PICK old \in Manifests :
            rtags[s] = old /\ Begin(c, "attach", t, m, LayersOf[m] \ LayersOf[old])
      BY <2>4 DEF StartAttach
    <3>2. LayersOf[old] \subseteq rblobs
      BY <3>1 DEF PublishInv
    <3>. QED
      BY <3>1, <3>2 DEF Begin, ClientInv, Behind, TypeOK
  <2>. QED
    BY <2>1, <2>2, <2>3, <2>4
<1>2. \A d \in Clients : ClientInv(d)'
  BY <1>1, OthersKeep DEF PublishInv
<1>. QED
  BY <1>1, <1>2 DEF PublishInv

LEMMA ActPublishInv ==
  ASSUME TypeOK, PublishInv, NEW c \in Clients,
         (\E b \in Blobs : MoveBlob(c, b)) \/ Publish(c) \/ Return(c)
  PROVE  PublishInv'
<1>1. /\ \A m \in rmans' : RefsOf(m) \subseteq rblobs'
      /\ \A t \in Tags : rtags'[t] # None => rtags'[t] \in rmans'
      /\ ClientInv(c)'
  <2>. USE DEF TypeOK, PublishInv, ClientInv, Behind, Goes, Settles
  <2>0. pc[c] # "idle" => cmd[c].man \in Manifests /\ cmd[c].tag \in Tags
    BY DEF Commands
  <2>1. CASE \E b \in Blobs : MoveBlob(c, b)
    BY <2>0, <2>1 DEF MoveBlob, SkipBlob, SendBlob, LoseBlobAnswer
  <2>2. CASE SettleLayers(c)
    BY <2>0, <2>2 DEF SettleLayers
  <2>3. CASE EndUpload(c) \/ SettleConfig(c) \/ AskManifest(c) \/ KeepTag(c) \/ MissTag(c)
    BY <2>0, <2>3 DEF EndUpload, SettleConfig, AskManifest, KeepTag, MissTag
  <2>4. CASE SendManifest(c) \/ LoseManifestAnswer(c)
    BY <2>0, <2>4 DEF SendManifest, LoseManifestAnswer, LosesAnswer
  <2>5. CASE SendTag(c) \/ LoseTagAnswer(c)
    BY <2>0, <2>5 DEF SendTag, LoseTagAnswer, LosesAnswer
  <2>6. CASE Return(c)
    BY <2>6 DEF Return
  <2>. QED
    BY <2>1, <2>2, <2>3, <2>4, <2>5, <2>6 DEF Publish
<1>2. \A d \in Clients : ClientInv(d)'
  BY <1>1, OthersKeep DEF PublishInv
<1>. QED
  BY <1>1, <1>2 DEF PublishInv

\* What a client has behind it is in the registry.
THEOREM PublishInvariant == Spec => []PublishInv
<1>1. Init => PublishInv
  BY DEF Init, PublishInv, ClientInv
<1>2. TypeOK /\ PublishInv /\ [Next]_vars => PublishInv'
  <2>1. ASSUME PublishInv, UNCHANGED vars
        PROVE  PublishInv'
    BY <2>1 DEF PublishInv, ClientInv, Behind, vars
  <2>. QED
    BY <2>1, StartPublishInv, ActPublishInv DEF Next
<1>. QED
  BY <1>1, <1>2, RegistryTypeCorrect, PTL DEF Spec

\* A tag resolves to a manifest all of whose blobs are in the registry
\* (RemoteTaggedComplete), for any clients at work on the repository at the
\* same time, and without any check on the side of the registry.
THEOREM RemoteTagsComplete == Spec => []RemoteTaggedComplete
<1>1. PublishInv => RemoteTaggedComplete
  BY DEF PublishInv, RemoteTaggedComplete, RemoteComplete
<1>. QED
  BY <1>1, PublishInvariant, PTL

\* A push, build or attach that reports success has put the whole artifact
\* into the registry (RemoteDelivered).
THEOREM RemoteSuccessDelivers == Spec => []RemoteDelivered
<1>1. PublishInv => RemoteDelivered
  BY DEF PublishInv, ClientInv, Behind, RemoteDelivered, RemoteComplete, Publishers
<1>. QED
  BY <1>1, PublishInvariant, PTL

-----------------------------------------------------------------------------
(* The repository implements the catalogue of ArtifactCatalog.             *)

\* What a tag shows when its artifact is whole.
Shown(m) == IF m = None THEN None ELSE Catalog!Whole(m)

\* Every step publishes one name or leaves all of them as they are.
LEMMA TagsChangeOneByOne ==
  ASSUME TypeOK, Next
  PROVE  \/ UNCHANGED rtags
         \/ \E t \in Tags, m \in Manifests : rtags' = [rtags EXCEPT ![t] = m]
<1>1. PICK c \in Clients : Start(c) \/ (\E b \in Blobs : MoveBlob(c, b)) \/ Publish(c) \/ Return(c)
  BY DEF Next
<1>2. pc[c] # "idle" => cmd[c].man \in Manifests /\ cmd[c].tag \in Tags
  BY DEF TypeOK, Commands
<1>3. CASE SendTag(c) \/ LoseTagAnswer(c)
  BY <1>2, <1>3 DEF SendTag, LoseTagAnswer
<1>4. CASE ~(SendTag(c) \/ LoseTagAnswer(c))
  BY <1>1, <1>4 DEF Start, StartPush, StartBuild, StartUpload, StartAttach, Begin, MoveBlob, SkipBlob,
     SendBlob, LoseBlobAnswer, Publish, SettleLayers, EndUpload, SettleConfig, AskManifest, KeepTag,
     MissTag, SendManifest, LoseManifestAnswer, Return
<1>. QED
  BY <1>3, <1>4

\* The repository of a registry implements the abstract catalogue: under
\* each tag nothing or a whole artifact, changed one tag and one step at a
\* time (RemoteCatalogSpec).
THEOREM RegistryImplementsCatalog == Spec => RemoteCatalogSpec
<1>1. Init => Catalog!Init
  BY DEF Init, Catalog!Init, Visible
<1>2. TypeOK /\ RemoteTaggedComplete /\ RemoteTaggedComplete' /\ [Next]_vars =>
        [Catalog!Next]_([t \in Tags |-> Visible(t)])
  <2>1. ASSUME TypeOK, RemoteTaggedComplete, RemoteTaggedComplete', [Next]_vars
        PROVE  [Catalog!Next]_([t \in Tags |-> Visible(t)])
    <3>. DEFINE shown == [t \in Tags |-> Visible(t)]
    <3>1. shown = [t \in Tags |-> Shown(rtags[t])] /\ shown' = [t \in Tags |-> Shown(rtags'[t])]
      <4>. USE DEF RemoteTaggedComplete, RemoteComplete, Visible, Shown, Catalog!Whole
      <4>1. \A t \in Tags : Visible(t) = Shown(rtags[t])
        BY <2>1
      <4>2. \A t \in Tags : Visible(t)' = Shown(rtags'[t])
        BY <2>1
      <4>. HIDE DEF Visible, Shown
      <4>. QED
        BY <4>1, <4>2
    <3>2. CASE UNCHANGED rtags
      BY <3>1, <3>2
    <3>3. ASSUME NEW t \in Tags, NEW m \in Manifests, rtags' = [rtags EXCEPT ![t] = m]
          PROVE  Catalog!Next
      <4>1. shown' = [shown EXCEPT ![t] = Catalog!Whole(m)]
        BY <2>1, <3>1, <3>3 DEF Shown, TypeOK
      <4>. QED
        BY <4>1 DEF Catalog!Next, Catalog!Publish
    <3>. QED
      BY <2>1, <3>2, <3>3, TagsChangeOneByOne DEF vars
  <2>. QED
    BY <2>1
<1>. QED
  BY <1>1, <1>2, RegistryTypeCorrect, RemoteTagsComplete, PTL DEF Spec, RemoteCatalogSpec, Catalog!Spec

-----------------------------------------------------------------------------
(* No tag is ever taken away, so one that a push found or set stays.       *)

LEMMA TagsStay ==
  ASSUME TypeOK, [Next]_vars, NEW t \in Tags, rtags[t] # None
  PROVE  rtags'[t] # None
<1>1. CASE UNCHANGED vars
  BY <1>1 DEF vars
<1>2. CASE Next
  BY <1>2, TagsChangeOneByOne DEF TypeOK
<1>. QED
  BY <1>1, <1>2

\* How a client comes to the end of a command.
LEMMA WaysToSucceed ==
  ASSUME TypeOK, [Next]_vars, NEW d \in Clients, pc'[d] = "done"
  PROVE  /\ cmd'[d] = cmd[d]
         /\ pc[d] = "done" \/ EndUpload(d) \/ KeepTag(d) \/ SendTag(d)
<1>. USE DEF TypeOK, Goes, Settles
<1>1. CASE UNCHANGED vars
  BY <1>1 DEF vars
<1>2. ASSUME NEW c \in Clients, Start(c)
      PROVE  c # d /\ pc'[d] = pc[d] /\ cmd'[d] = cmd[d]
  BY <1>2, ZenonT(60) DEF Start, StartPush, StartBuild, StartUpload, StartAttach, Begin
<1>3. ASSUME NEW c \in Clients, NEW b \in Blobs, MoveBlob(c, b)
      PROVE  pc' = pc /\ cmd' = cmd
  BY <1>3 DEF MoveBlob, SkipBlob, SendBlob, LoseBlobAnswer
<1>4. ASSUME NEW c \in Clients, Publish(c) \/ Return(c), c # d
      PROVE  pc'[d] = pc[d] /\ cmd'[d] = cmd[d]
  BY <1>4 DEF Publish, SettleLayers, EndUpload, SettleConfig, AskManifest, KeepTag, MissTag,
              SendManifest, LoseManifestAnswer, LosesAnswer, SendTag, LoseTagAnswer, Return
<1>5. CASE Publish(d) \/ Return(d)
  BY <1>5 DEF Publish, SettleLayers, EndUpload, SettleConfig, AskManifest, KeepTag, MissTag,
              SendManifest, LoseManifestAnswer, LosesAnswer, SendTag, LoseTagAnswer, Return
<1>. QED
  BY <1>1, <1>2, <1>3, <1>4, <1>5 DEF Next

\* A push that reports success leaves its tag resolving to something
\* (PushTagExists): it has looked the tag up or has set it, and no client
\* takes one away.
THEOREM PushedTagsResolve == Spec => []PushTagExists
<1>1. Init => PushTagExists
  BY DEF Init, PushTagExists
<1>2. TypeOK /\ TypeOK' /\ PushTagExists /\ [Next]_vars => PushTagExists'
  <2>. SUFFICES ASSUME TypeOK, TypeOK', PushTagExists, [Next]_vars, NEW d \in Clients,
                       pc'[d] = "done", cmd'[d].kind = "push"
                PROVE  rtags'[cmd'[d].tag] # None
    BY DEF PushTagExists
  <2>1. cmd'[d] = cmd[d] /\ cmd[d].tag \in Tags /\ cmd[d].man \in Manifests
    <3>1. cmd'[d] \in Commands
      BY DEF TypeOK
    <3>. QED
      BY <3>1, WaysToSucceed DEF Commands
  <2>2. CASE pc[d] = "done" \/ KeepTag(d)
    <3>1. rtags[cmd[d].tag] # None
      BY <2>1, <2>2 DEF PushTagExists, KeepTag
    <3>. QED
      BY <2>1, <3>1, TagsStay
  <2>3. CASE SendTag(d)
    BY <2>1, <2>3 DEF SendTag, TypeOK
  <2>. QED
    BY <2>1, <2>2, <2>3, WaysToSucceed DEF EndUpload
<1>. QED
  BY <1>1, <1>2, RegistryTypeCorrect, PTL DEF Spec

=============================================================================
