---------------------------- MODULE ContentStore ----------------------------
(***************************************************************************)
(* The storage directory that every modctl command of a machine shares     *)
(* (pkg/storage/distribution): one pool of content addressed by digest,    *)
(* and per repository the layer links, the manifest revisions and the      *)
(* tags.  The directory has no lock: what is here is all that commands     *)
(* running at the same time know of each other.                            *)
(*                                                                         *)
(* The operators of this module are the calls of the Storage interface,    *)
(* each as one step on the variables it writes.  What a call does on disk  *)
(* is done by the distribution library; those parts are marked external in *)
(* the map of PROJECT.json and modelled from how distribution.go uses them.*)
(***************************************************************************)
EXTENDS FiniteSets

CONSTANTS
  Repos,       \* repositories
  Tags,        \* tag names
  Manifests,   \* manifests, each standing for its digest
  Blobs,       \* layer and config blobs, each standing for its digest
  LayersOf,    \* the layers a manifest lists
  ConfigOf,    \* the model config a manifest names
  NoManifest,  \* what an absent tag resolves to
  Procs,       \* modctl processes that read or publish artifacts
  Nobody       \* owner of an upload whose process gave up or died

ASSUME ManifestAssumption ==
  /\ LayersOf \in [Manifests -> SUBSET Blobs]
  /\ ConfigOf \in [Manifests -> Blobs]
  /\ Manifests \cap Blobs = {}
  /\ NoManifest \notin Manifests

ASSUME OwnerAssumption == Nobody \notin Procs

VARIABLES
  data,        \* content present in the pool: blobs and manifest bodies
  links,       \* <<r, b>>: blob b is linked into repository r
  revs,        \* <<r, m>>: manifest m is a revision of repository r
  tags,        \* what each <<repository, tag>> points at
  uploads      \* <<p, b>>: an upload session for b opened by p is on disk

store == <<data, links, revs, tags, uploads>>

Names   == Repos \X Tags
Digests == Blobs \cup Manifests
Owners  == Procs \cup {Nobody}

RefsOf(m)  == LayersOf[m] \cup {ConfigOf[m]}
Content(m) == {m} \cup RefsOf(m)

StoreTypeOK ==
  /\ data \subseteq Digests
  /\ links \subseteq Repos \X Blobs
  /\ revs \subseteq Repos \X Manifests
  /\ tags \in [Names -> Manifests \cup {NoManifest}]
  /\ uploads \subseteq Owners \X Blobs

StoreInit ==
  /\ data = {}
  /\ links = {}
  /\ revs = {}
  /\ tags = [n \in Names |-> NoManifest]
  /\ uploads = {}

-----------------------------------------------------------------------------
(***************************************************************************)
(* Reading.                                                                *)
(***************************************************************************)

\* StatBlob: the blob counts only when it is linked into the repository and
\* its content is in the pool.
StatBlob(r, b) == <<r, b>> \in links /\ b \in data

\* StatManifest: likewise for a revision.
StatManifest(r, m) == <<r, m>> \in revs /\ m \in data

\* PullManifest: resolve the tag, then read the revision.
PullManifest(n, m) == tags[n] = m /\ m # NoManifest /\ StatManifest(n[1], m)

\* Verification of a manifest before it is stored: every blob it references
\* has to be available in the same repository.
Verified(r, m) == \A b \in RefsOf(m) : StatBlob(r, b)

-----------------------------------------------------------------------------
(***************************************************************************)
(* Writing.  PushBlob is two steps, as a crash or another command can come *)
(* between opening the upload and committing it; PushManifest is two, the  *)
(* library stores the revision before modctl asks it to set the tag.       *)
(***************************************************************************)

CreateUpload(p, b) ==
  /\ uploads' = uploads \cup {<<p, b>>}
  /\ UNCHANGED <<data, links, revs, tags>>

CommitBlob(p, r, b) ==
  /\ <<p, b>> \in uploads
  /\ uploads' = uploads \ {<<p, b>>}
  /\ data' = data \cup {b}
  /\ links' = links \cup {<<r, b>>}
  /\ UNCHANGED <<revs, tags>>

PutManifest(r, m) ==
  /\ Verified(r, m)
  /\ data' = data \cup {m}
  /\ revs' = revs \cup {<<r, m>>}
  /\ UNCHANGED <<links, tags, uploads>>

TagManifest(n, m) ==
  /\ tags' = [tags EXCEPT ![n] = m]
  /\ UNCHANGED <<data, links, revs, uploads>>

\* Wrong variant: removing a name also deletes the contents it showed.
UntagDeletes(n) ==
  /\ tags[n] # NoManifest
  /\ tags' = [tags EXCEPT ![n] = NoManifest]
  /\ data' = data \ Content(tags[n])
  /\ UNCHANGED <<links, revs, uploads>>

\* DeleteManifest of a tag only drops the tag.  Of a digest it asks the
\* library to delete the revision, which a registry opened without
\* EnableDelete, as NewStorage opens it, refuses.
Untag(n) ==
  /\ tags[n] # NoManifest
  /\ tags' = [tags EXCEPT ![n] = NoManifest]
  /\ UNCHANGED <<data, links, revs, uploads>>

MountBlob(from, to, b) ==
  /\ StatBlob(from, b)
  /\ links' = links \cup {<<to, b>>}
  /\ UNCHANGED <<data, revs, tags, uploads>>

\* A mount whose source blob is missing: the library falls back to opening
\* an upload session, which MountBlob reports as an error and leaves behind.
MountMisses(from, b) ==
  /\ ~StatBlob(from, b)
  /\ uploads' = uploads \cup {<<Nobody, b>>}
  /\ UNCHANGED <<data, links, revs, tags>>

\* Upload sessions of p stay on disk when p stops before committing them.
Sending(p) == {b \in Blobs : <<p, b>> \in uploads}
AbandonUploads(p) ==
  /\ uploads' = {u \in uploads : u[1] # p} \cup ({Nobody} \X Sending(p))
  /\ UNCHANGED <<data, links, revs, tags>>

\* One failed upload among several of p.
AbandonUpload(p, b) ==
  /\ <<p, b>> \in uploads
  /\ uploads' = (uploads \ {<<p, b>>}) \cup {<<Nobody, b>>}
  /\ UNCHANGED <<data, links, revs, tags>>

-----------------------------------------------------------------------------
\* An artifact a reader of repository r can use in full: the manifest and
\* everything it references.  Stated on the variables, so that the checks do
\* not depend on the predicates the code evaluates.
Complete(r, m) ==
  /\ m \in Manifests
  /\ <<r, m>> \in revs
  /\ Content(m) \subseteq data
  /\ {r} \X RefsOf(m) \subseteq links
=============================================================================
