----------------------------- MODULE MCServices -----------------------------
(* The services that stand beside each other, one instance each, under one  *)
(* run.  A behaviour is of one `part`; the variables of the others stay     *)
(* where they start.  Reports are the module itself, with the constants of  *)
(* the cfg.                                                                 *)
EXTENDS ReportCommit, CanFramesPromise

VARIABLE part

-----------------------------------------------------------------------------
(* CAN frames: a writer and two readers, of which one sees one identifier   *)
(* and has a frame less to spend, and one that needs the bus silent.        *)
VARIABLES seq, heard, closing

Frames == INSTANCE CanFrames WITH
    Writers <- {"a"}, Readers <- {"a", "b"}, Silent <- {"c"},
    View <- [p \in Participants |-> IF p = "b" THEN {2} ELSE {1, 2}], Ids <- {1, 2},
    Budget <- [p \in Participants |-> IF p = "b" THEN 1 ELSE 2], Buffer <- 2,
    MaxSeq <- 2, MaxHeard <- 2

framesVars == <<seat, call, seq, heard, gated, closing, owed, got>>

-----------------------------------------------------------------------------
(* The CAN rendezvous with one client (9) and two mishaps, for what     *)
(* must happen in the end.                                                  *)
VARIABLES busLock, holder, descriptor, keyFile, broker, conns, client, mishaps

Rendezvous == INSTANCE CanBroker WITH
    Clients <- {9}, Brokers <- {1, 2}, Nobody <- 0,
    Faults <- {"adapter", "config", "files"}, MaxCounter <- 2, MaxMishaps <- 2

rendezvousVars == <<busLock, holder, descriptor, keyFile, broker, conns, client, mishaps>>

-----------------------------------------------------------------------------
(* A COM port with two chunks of input, one write and one failing operation, *)
(* for what must happen in the end.                                         *)
VARIABLES session, lease, halt, caller, why, failed, drain, reader, audit, ready, received, batch,
          line, arrived, before, sent, log, opened, slips

Serial == INSTANCE SerialSession WITH MaxChunks <- 2, MaxWrites <- 1, MaxSessions <- 1, MaxFaults <- 1,
    faults <- slips

serialVars == <<session, lease, halt, caller, why, failed, drain, reader, audit, ready, received, batch,
                line, arrived, before, sent, log, opened, slips>>

-----------------------------------------------------------------------------
allVars == <<part, vars, framesVars, rendezvousVars, serialVars>>

MCInit ==
    /\ part \in {"reports", "frames", "rendezvous", "serial"}
    /\ Init /\ Frames!Init /\ Rendezvous!Init /\ Serial!Init

Reporting == part = "reports" /\ Next /\ UNCHANGED <<part, framesVars, rendezvousVars, serialVars>>
Framing == part = "frames" /\ Frames!Next /\ UNCHANGED <<part, vars, rendezvousVars, serialVars>>
\* A step of the rendezvous by A.
Meets(A) == part = "rendezvous" /\ A /\ UNCHANGED <<part, vars, framesVars, serialVars>>

\* A step of the COM port by A.
Serves(A) == part = "serial" /\ A /\ UNCHANGED <<part, vars, framesVars, rendezvousVars>>

MCNext == Reporting \/ Framing \/ Meets(Rendezvous!Next) \/ Serves(Serial!Next)

\* Fairness as in CanBroker and SerialSession, over the variables of the run.
MCFairness ==
    /\ \A b \in {1, 2} : WF_allVars(Meets(Rendezvous!Lifecycle(b)))
    /\ WF_allVars(Meets(Rendezvous!Connection(9)))
    /\ WF_allVars(Meets(Rendezvous!Attaching(9) \/ Rendezvous!Detached(9)))
    /\ SF_allVars(Meets(Rendezvous!GiveUp(9)))
    /\ WF_allVars(Serves(Serial!Drain)) /\ WF_allVars(Serves(Serial!Reader))
    /\ WF_allVars(Serves(Serial!Continues))

MCSpec == MCInit /\ [][MCNext]_allVars
MCFairSpec == MCSpec /\ MCFairness

-----------------------------------------------------------------------------
(* The properties of the parts, under the names they have there; those of  *)
(* the reports are ReportCommit's own, those of the frames are the ones     *)
(* CanFramesPromise states.                                                 *)

\* Type correctness of every part.
ServicesTypeOK == TypeOK /\ (part = "frames" => Frames!TypeOK)

\* The broker does not reorder frames (docs/can-service-design.md:129).
WireOrderKept == part = "frames" => Frames!WireOrderKept

\* A bus incident aborts every run with its own scope (docs/can-service-design.md:81).
BusScopeKept == part = "frames" => Frames!BusScopeKept

\* A broker without a participant gets one or leaves, and every attach is
\* answered.
RendezvousSettles == Rendezvous!BusGivenBack /\ Rendezvous!AttachEnds

\* Input received is logged, and every call on the port ends.
SerialSettles == Serial!SerialSettles

\* What must happen in the end, of either part.
ServicesSettle == RendezvousSettles /\ SerialSettles
=============================================================================
