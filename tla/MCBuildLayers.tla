--------------------------- MODULE MCBuildLayers ---------------------------
(* Instances of BuildLayers for TLC.                                       *)
EXTENDS BuildLayers

CONSTANTS x, y

\* A file that two patterns of a build match and that another build makes a
\* layer of too.
MCShared == [b \in Builds |-> IF b = "one" THEN <<x, x>> ELSE <<x>>]
=============================================================================
