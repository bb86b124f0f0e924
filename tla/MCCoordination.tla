--------------------------- MODULE MCCoordination ---------------------------
(* Instances of Coordination.  Two processes serve one project, two        *)
(* projects on one state_root, or two projects with a state_root each.     *)
EXTENDS Coordination

CONSTANTS p1, p2, jA, jB, rootX, rootY

MCOneProject ==
    {[proj |-> [p \in Procs |-> jA], root |-> [j \in Projects |-> rootX]]}
MCNeighbours ==
    {[proj |-> (p1 :> jA) @@ (p2 :> jB), root |-> [j \in Projects |-> rootX]]}
MCApart ==
    {[proj |-> (p1 :> jA) @@ (p2 :> jB), root |-> (jA :> rootX) @@ (jB :> rootY)]}
MCAnyDeployment == MCOneProject \cup MCNeighbours \cup MCApart

MCOneResource == {1}
MCTwoResources == {1, 2}
MCNothing == {}
MCPoison == {<<FALSE, {}>>}
MCAuditPoison == {<<TRUE, {}>>}
=============================================================================
