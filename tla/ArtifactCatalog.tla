--------------------------- MODULE ArtifactCatalog -------------------------
(***************************************************************************)
(* What the local storage promises its user: a set of names, each absent   *)
(* or showing a whole artifact.  Publishing and removing a name are atomic *)
(* and touch no other name; housekeeping is invisible.                     *)
(***************************************************************************)
CONSTANTS Names, Manifests, RefsOf(_), NoArtifact

VARIABLE catalog

Whole(m) == [man |-> m, parts |-> RefsOf(m), readable |-> TRUE]

Init == catalog = [n \in Names |-> NoArtifact]

Publish(n, m) == catalog' = [catalog EXCEPT ![n] = Whole(m)]

Withdraw(n) == catalog' = [catalog EXCEPT ![n] = NoArtifact]

Next ==
  \E n \in Names : Withdraw(n) \/ \E m \in Manifests : Publish(n, m)

Spec == Init /\ [][Next]_catalog
=============================================================================
