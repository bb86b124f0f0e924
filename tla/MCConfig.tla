------------------------------ MODULE MCConfig ------------------------------
(* A configuration of one device that may be at two places, with one server *)
(* and the operator.  A behaviour is of one `part`: their writes race beside *)
(* one edit (the bounds of the cfg), or the file is edited three times under *)
(* the server's reloads, or three owners wait for the device.               *)
EXTENDS ConfigChange

VARIABLE part

AtFirst == [at |-> [d \in {"dut"} |-> "p"], grants |-> {"dut"}, rights |-> {"description", "permissions"},
            rest |-> 0, loads |-> TRUE, writes |-> 0]

Editors == INSTANCE ConfigChange WITH MaxWrites <- 0, MaxEdits <- 3

-----------------------------------------------------------------------------
(* The device mutex, for what must happen in the end.                       *)
VARIABLES osLock, holders, holderFile, reclaimed, inCall, wanted, counted, locking, expired,
          stopAsked, alive, base, died, faulted

Mutex == INSTANCE BenchMutex WITH
    Owners <- {"o1", "o2", "o3"}, Devices <- {1}, NoOwner <- "nobody", NoDevice <- 0, MaxHolders <- 2

mutexVars == <<osLock, holders, holderFile, reclaimed, inCall, wanted, counted, locking, expired,
               stopAsked, alive, base, died, faulted>>

-----------------------------------------------------------------------------
allVars == <<part, vars, mutexVars>>

MCInit ==
    /\ part \in {"writers", "editors", "waiters"}
    /\ Init /\ Mutex!Init

\* A step of the mutex by A.
Waits(A) == part = "waiters" /\ A /\ UNCHANGED <<part, vars>>

MCNext ==
    \/ part = "writers" /\ Next /\ UNCHANGED <<part, mutexVars>>
    \/ part = "editors" /\ Editors!Next /\ UNCHANGED <<part, mutexVars>>
    \/ Waits(Mutex!Next)

\* Fairness as in BenchMutex, over the variables of the run.
MCFairness ==
    \A o \in {"o1", "o2", "o3"} : WF_allVars(Waits(Mutex!Take(o))) /\ WF_allVars(Waits(Mutex!Expire(o)))

MCSpec == MCInit /\ [][MCNext]_allVars
MCFairSpec == MCSpec /\ MCFairness

-----------------------------------------------------------------------------
(* Those of the configuration are ConfigChange's own.                       *)

\* Type correctness, under either bounds.
ConfigTypeOK == IF part = "editors" THEN Editors!TypeOK ELSE TypeOK

\* Every acquire returns, whatever the others take and drop (bench.py:595-692).
CallEnds == Mutex!CallEnds
=============================================================================
