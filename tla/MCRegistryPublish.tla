-------------------------- MODULE MCRegistryPublish -------------------------
(* Instances of RegistryPublish for TLC: two versions of an artifact, the   *)
(* second with one layer more.                                              *)
EXTENDS RegistryPublish, TLC

CONSTANTS m1, m2, b1, b2, b3

MCLayersOf == [m \in Manifests |-> IF m = m1 THEN {b1} ELSE {b1, b2}]
MCConfigOf == [m \in Manifests |-> b3]

MCSymmetry == Permutations(Clients) \cup Permutations(Tags)
=============================================================================
