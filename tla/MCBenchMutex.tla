---------------------------- MODULE MCBenchMutex ----------------------------
(* Two owners compete for two devices; and, under the same run, a debug    *)
(* session.  A behaviour keeps the `part` it starts with, the variables of *)
(* the other where they start.                                             *)
EXTENDS BenchMutex, DebugSessionPromise

VARIABLE part

MCDevices == {1, 2}

-----------------------------------------------------------------------------
(* A debug session of either kind of server: five calls, up to three        *)
(* attempts to connect and two failing operations.                          *)
VARIABLES todo, pipe, last, calls, faults

Debug == INSTANCE DebugSession WITH
    Kinds <- {"command", "ended"}, MaxAttempts <- 3, MaxCalls <- 5, MaxFaults <- 2

debugVars == <<kind, session, server, gdb, todo, pipe, last, core, call, lease, answer, doubt,
               reached, calls, faults>>

-----------------------------------------------------------------------------
MCInit ==
    /\ part \in {"bench", "debug"}
    /\ Init /\ Debug!Init /\ (part = "bench" => kind = "command")
MCNext ==
    /\ UNCHANGED part
    /\ \/ part = "bench" /\ Next /\ UNCHANGED debugVars
       \/ part = "debug" /\ Debug!Next /\ UNCHANGED vars
       \* A caller that makes no further call.
       \/ part = "debug" /\ call = Idle /\ UNCHANGED <<vars, debugVars>>
MCSpec == MCInit /\ [][MCNext]_<<vars, part, debugVars>>

\* Type correctness, of the bench and of the session.
BenchTypeOK == TypeOK /\ Debug!TypeOK
=============================================================================
