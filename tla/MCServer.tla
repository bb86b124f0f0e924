------------------------------ MODULE MCServer ------------------------------
(* What a server keeps open from one call to the next, or talks to in one,  *)
(* one instance each, under one run: its seat on a CAN bus, a COM port      *)
(* session and a power supply.  A behaviour is of one `part`; the variables *)
(* of the others stay where they start.  The CAN rendezvous is the module   *)
(* itself, with the constants of the cfg; what the others promise is said   *)
(* of their variables here.                                                 *)
EXTENDS MCCanBroker, SerialPromise, PowerSupplyPromise

VARIABLE part

-----------------------------------------------------------------------------
(* A COM port with two chunks of input, one write, a second session and two *)
(* failing operations.                                                      *)
VARIABLES halt, why, failed, ready, received, batch, line, opened, faults

Serial == INSTANCE SerialSession WITH MaxChunks <- 2, MaxWrites <- 1, MaxSessions <- 2, MaxFaults <- 2

serialVars == <<session, lease, halt, caller, why, failed, drain, reader, audit, ready, received, batch,
                line, arrived, before, sent, log, opened, faults>>

-----------------------------------------------------------------------------
(* A supply with three values of a set point, of which two are allowed, two *)
(* late replies and two faults.                                             *)
VARIABLES replies, hold, inRun, owed, slips

Supply == INSTANCE PowerSupply WITH
    MaxLate <- 2, MaxFaults <- 2,
    line <- replies, mishaps <- slips

supplyVars == <<unit, replies, task, hold, inRun, owed, slips>>

-----------------------------------------------------------------------------
MCInit ==
    /\ part \in {"rendezvous", "serial", "supply"}
    /\ Init /\ Serial!Init
    /\ Supply!Init /\ (part # "supply" => unit = [v |-> 0, i |-> 0, on |-> FALSE])

MCNext ==
    /\ UNCHANGED part
    /\ \/ part = "rendezvous" /\ Next /\ UNCHANGED <<serialVars, supplyVars>>
       \/ part = "serial" /\ Serial!Next /\ UNCHANGED <<vars, supplyVars>>
       \/ part = "supply" /\ Supply!Next /\ UNCHANGED <<vars, serialVars>>

allVars == <<part, vars, serialVars, supplyVars>>
MCSpec == MCInit /\ [][MCNext]_allVars

-----------------------------------------------------------------------------
(* Type correctness; what else is checked is RendezvousHonest of CanBroker, *)
(* SessionHonest of SerialPromise, and PairKept, SupplyHonest and           *)
(* SwitchedOnWithinLimits of PowerSupplyPromise.                            *)

\* Type correctness of every part.
ServerTypeOK ==
    /\ part = "rendezvous" => TypeOK
    /\ part = "serial" => Serial!TypeOK
    /\ part = "supply" => Supply!TypeOK
=============================================================================
