--------------------------- MODULE MCAttachLayers ---------------------------
(* Instances of AttachLayers for TLC: two code files, of which one is where *)
(* --destination-dir can put the other, and a weight file between them.     *)
EXTENDS AttachLayers

MCTypeOf == [f \in Paths |-> IF f = 2 THEN "model" ELSE "code"]
MCDests  == [f \in Paths |-> IF f = 1 THEN {1, 3} \cap Paths ELSE {f}]
=============================================================================
