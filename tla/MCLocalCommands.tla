--------------------------- MODULE MCLocalCommands -------------------------
(* Instances of LocalCommands for TLC: two artifacts that share their first *)
(* layer, as two versions of a model do, and their config.                  *)
EXTENDS LocalCommands, TLC

CONSTANTS m1, m2, b1, b2, b3

MCLayersOf == [m \in Manifests |-> IF m = m1 THEN {b1} ELSE {b1, b2}]
MCConfigOf == [m \in Manifests |-> b3]

\* The smallest pair in which one artifact is part of the other.
MCSmallLayersOf == [m \in Manifests |-> IF m = m1 THEN {} ELSE {b1}]

MCAllFlags     == [dryRun : BOOLEAN, removeUntagged : BOOLEAN]
MCSweepFlags   == [dryRun : {FALSE}, removeUntagged : BOOLEAN]
MCDefaultFlags == {DefaultOpts}

MCSymmetry == Permutations(Procs)
=============================================================================
