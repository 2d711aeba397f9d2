--------------------------- MODULE MCCoordination ---------------------------
(***************************************************************************)
(* Coordination on a small instance: two node-level cleanups of one node   *)
(* (they share the node's resource) and one granular cleanup of an ENI of  *)
(* its own, which is registered to wait for the first.                     *)
(***************************************************************************)
EXTENDS Coordination, TLC

CONSTANTS a, b, c, e1, e2, e3, node

MCOps == {a, b, c}
MCResources == {e1, e2, e3, node}
MCResourceIDs == a :> <<e1, node>> @@ b :> <<e2, node>> @@ c :> <<e3>>
MCDependsOn == a :> {} @@ b :> {} @@ c :> {a}

=============================================================================
