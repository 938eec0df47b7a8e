---------------------------- MODULE MCUnpackTree ----------------------------
(* An instance of UnpackTree for TLC.  In the first two artifacts a daemon   *)
(* keeps the archive of "w" where the other layer has its file: a raw layer, *)
(* or a tar layer that was attached to another path than its header has; in  *)
(* the third, where the other layer needs a directory.  The others are one   *)
(* layer each: one that two patterns match, a file with ".." in its name,    *)
(* and one that was attached to a directory of its own name.                 *)
EXTENDS UnpackTree

MCLayers    == {"weights", "bundle", "model", "script", "nested", "twice", "dots", "self"}
MCTar       == MCLayers \ {"bundle", "nested"}
MCReadOnly  == {"weights"}
MCEdited    == {"weights"}
MCDotted    == {"dots"}
MCPaths     == {"w", "w.tar", "d/w.tar", "d/w.tar.tar", "w.tar/n", "w..b", "s", "s/s", "s/s.tar", "other"}
MCPathOf    ==
  [l \in MCLayers |->
     CASE l \in {"weights", "model", "twice"} -> "w" [] l = "bundle" -> "w.tar" [] l = "script" -> "d/w.tar"
       [] l = "nested" -> "w.tar/n" [] l = "dots" -> "w..b" [] l = "self" -> "s/s"]
MCNameOf    ==
  [l \in MCLayers |-> CASE l = "script" -> "w.tar" [] l = "self" -> "s" [] OTHER -> MCPathOf[l]]
MCTempOf    ==
  [p \in MCPaths |-> CASE p = "w" -> "w.tar" [] p = "d/w.tar" -> "d/w.tar.tar" [] p = "s/s" -> "s/s.tar"
                       [] OTHER -> "other"]
MCAbove     ==
  [p \in MCPaths |-> CASE p = "w.tar/n" -> {"w.tar"} [] p \in {"s/s", "s/s.tar"} -> {"s"} [] OTHER -> {}]
MCArtifacts == {<<"weights", "bundle">>, <<"model", "script">>, <<"weights", "nested">>,
                <<"twice">>, <<"dots">>, <<"self">>}
MCPatterns  == {<<{"weights"}>>, <<{"twice"}, {"twice"}>>}
=============================================================================
