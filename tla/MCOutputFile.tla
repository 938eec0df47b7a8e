---------------------------- MODULE MCOutputFile ----------------------------
(* Instances of OutputFile for TLC: versions of a file that have the same   *)
(* size, two blocks, so that a file can be half written.                    *)
EXTENDS OutputFile, TLC

MCSizeOf == [d \in Layers |-> 2]

MCSymmetry == Permutations(Workers) \cup Permutations(Layers)
=============================================================================
