----------------------------- MODULE MCNodeOps -----------------------------
(* One dialog about node n1; s1 belongs to a StatefulSet, b1 to nobody.     *)
EXTENDS NodeOps

MCNode == {"n1", "n2"}
MCPod == {"s1", "b1"}
MCKind == [s1 |-> "managed", b1 |-> "bare"]
MCAbout == [m \in Message |-> "n1"]
=============================================================================
