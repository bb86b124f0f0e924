----------------------------- MODULE MCCoordRuns -----------------------------
(* Four instances of Coordination under one run, one per `question`.  A     *)
(* behaviour keeps the question it starts with; an invariant holds of the   *)
(* instances it is about, the ones whose bounds let its hazard happen.      *)
EXTENDS MCCoordination

VARIABLE question

\* One owner and an operator's command line over one resource, with every
\* optional call that raises or hands over an incident and a death between
\* any two record writes.
Incident == INSTANCE Coordination
\* An owner with two leases on two resources whose audits break.
Sessions == INSTANCE Coordination WITH
    Procs <- {p1}, Projects <- {jA}, Resources <- MCTwoResources,
    Physical <- MCTwoResources, Policy <- {}, Reasons <- {"audit_broken"},
    MaxLeases <- 2, Torn <- {}, Uses <- {}
\* Two owners of one project, of neighbours, or of projects kept apart.
Shared == INSTANCE Coordination WITH
    Owners <- {p1, p2}, Projects <- {jA, jB},
    Deployments <- {[proj |-> (p1 :> jA) @@ (p2 :> j), root |-> (jA :> rootX) @@ (jB :> r)] :
                        <<j, r>> \in {<<jA, rootX>>, <<jB, rootX>>, <<jB, rootY>>}},
    Reasons <- {"unconfirmed"}, Torn <- {}, Uses <- {"run", "hold"}
\* An owner that dies between contact, report and release, and comes back.
DeadOwner == INSTANCE Coordination WITH
    Reasons <- {"unconfirmed"}, Torn <- {}, Poisons <- MCPoison, Uses <- {"report"}, MaxId <- 2

-----------------------------------------------------------------------------
MCInit ==
    /\ \/ question = "incident" /\ Incident!Init
       \/ question = "sessions" /\ Sessions!Init
       \/ question = "shared" /\ Shared!Init
       \/ question = "dead owner" /\ DeadOwner!Init
MCNext ==
    /\ UNCHANGED question
    /\ \/ question = "incident" /\ Incident!Next
       \/ question = "sessions" /\ Sessions!Next
       \/ question = "shared" /\ Shared!Next
       \/ question = "dead owner" /\ DeadOwner!Next
allVars == <<vars, question>>
MCSpec == MCInit /\ [][MCNext]_allVars

-----------------------------------------------------------------------------
(* The properties, each asked of the instances named here.                  *)

\* Type correctness, in all four.
LeasesTypeOK ==
    /\ question = "incident" => Incident!TypeOK
    /\ question = "sessions" => Sessions!TypeOK
    /\ question = "shared" => Shared!TypeOK
    /\ question = "dead owner" => DeadOwner!TypeOK

\* An audit halt outlives its owner (HaltKept), with one lease and its
\* hand-overs, adoptions and resolutions, and with two leases side by side.
AuditHaltKept ==
    /\ question = "incident" => Incident!HaltKept
    /\ question = "sessions" => Sessions!HaltKept

\* An audit halt on disk that nobody holds can be signed for (HaltSignable), and
\* a blocked owner that gave its locks back learns of it (SignatureLearned).
AuditSignatureWorks == question = "incident" => Incident!HaltSignable /\ Incident!SignatureLearned

\* A recovery cut short by a death can be run again (RecoverResumable).
RecoveryResumable == question = "incident" => Incident!RecoverResumable

\* No owner is granted an ordinary lease under an unsigned audit halt
\* (HaltGatesStimulus), with one lease and with two.
AuditHaltGates ==
    [][/\ question = "incident" => Incident!GatedStep
       /\ question = "sessions" => Sessions!GatedStep]_allVars

\* No step replaces the standing marker of another project
\* (ForeignRecordUntouched).
NeighbourUntouched ==
    [][question = "shared" => Shared!ForeignStep]_allVars

\* A death at any moment leaves every active lease named on disk (LeaseOnDisk),
\* and a dead owner's devices are given back unseen only where no call reached
\* them (DeadOwnerHarmless).
DeathLeavesTruth ==
    /\ question = "sessions" => Sessions!LeaseOnDisk
    /\ question = "dead owner" => DeadOwner!DeadOwnerHarmless
=============================================================================
