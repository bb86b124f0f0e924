----------------------------- MODULE DeviceLock -----------------------------
(***************************************************************************)
(* What the bench mutex promises its callers: a physical device has at     *)
(* most one owner on the whole machine.  An owner takes a free device,     *)
(* gives any of its devices back, and a process that dies gives all of     *)
(* them back at once, with no operator and no waiting (bench.py, module    *)
(* docstring: "Crash safety without an operator").                         *)
(***************************************************************************)
CONSTANTS Owners, Devices, NoOwner

VARIABLE owner

Init == owner = [d \in Devices |-> NoOwner]

\* One owner takes one free device.
Take(o, d) ==
    /\ owner[d] = NoOwner
    /\ owner' = [owner EXCEPT ![d] = o]

\* One owner gives back a set of devices, all of them its own.
GiveBack(o, D) ==
    /\ \A d \in D : owner[d] = o
    /\ owner' = [d \in Devices |-> IF d \in D THEN NoOwner ELSE owner[d]]

Next == \E o \in Owners :
            \/ \E d \in Devices : Take(o, d)
            \/ \E D \in SUBSET Devices : GiveBack(o, D)

Spec == Init /\ [][Next]_owner
=============================================================================
