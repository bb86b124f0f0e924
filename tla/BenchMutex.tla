----------------------------- MODULE BenchMutex -----------------------------
(***************************************************************************)
(* The machine-wide device mutex of bench.py.  An owner is one BenchMutex  *)
(* object (one coordinator, or the throw-away one a status query probes    *)
(* with).  Ownership is the operating system's advisory lock on            *)
(* <digest>.lock; the sibling <digest>.holder.json only describes the      *)
(* holder.  An owner counts how often it took a device (`_held[d].holders`)*)
(* and drops the lock when the count returns to zero.                      *)
(*                                                                         *)
(* `acquire` holds the object's guard from its first device to its last,   *)
(* its waiting included, so a release or a heartbeat of the same owner     *)
(* waits for it; owners interleave between any two devices, and between    *)
(* taking the operating system's lock and writing the holder record.       *)
(*                                                                         *)
(* Devices are numbers: their order is the sorted order of the folded      *)
(* resource names, which is the order `acquire` walks.                     *)
(***************************************************************************)
EXTENDS Naturals, FiniteSets

CONSTANTS
    Owners,      \* BenchMutex objects on this machine
    Devices,     \* physical resources, in the order of their sorted names
    NoOwner,     \* nobody holds the operating system's lock
    NoDevice,    \* no lock taken and still unregistered
    MaxHolders   \* bound: how often one owner may count one device

ASSUME BenchAssumption ==
    /\ Devices \subseteq Nat
    /\ NoOwner \notin Owners
    /\ NoDevice \notin Devices
    /\ MaxHolders \in Nat \ {0}

VARIABLES
    osLock,      \* device -> the owner the kernel granted the lock to
    holders,     \* owner -> device -> `_held[d].holders`, 0 when not in `_held`
    holderFile,  \* device -> state named in its holder.json
    reclaimed,   \* owner -> devices whose `reclaimed_from` is set
    inCall,      \* owner -> is a thread of it inside `acquire` (guard taken)
    wanted,      \* owner -> devices the running `acquire` has still to take
    counted,     \* owner -> devices the running `acquire` has counted
    locking,     \* owner -> device locked by the kernel, not yet in `_held`
    expired,     \* owner -> has the running wait met its deadline
    stopAsked,   \* owner -> would `stop_requested()` answer true
    alive,       \* owner -> is its process running
    base,        \* history: the counts at the start of the running `acquire`
    died,        \* history: devices a process died holding, not retaken since
    faulted      \* history: devices whose holder.json failed to be read or written

vars == <<osLock, holders, reclaimed, alive, inCall, wanted, counted,
          locking, expired, stopAsked, base, holderFile, died, faulted>>

FileStates == {"absent", "held", "released"}

TypeOK ==
    /\ osLock \in [Devices -> Owners \cup {NoOwner}]
    /\ holders \in [Owners -> [Devices -> 0..MaxHolders]]
    /\ holderFile \in [Devices -> FileStates]
    /\ reclaimed \in [Owners -> SUBSET Devices]
    /\ inCall \in [Owners -> BOOLEAN]
    /\ wanted \in [Owners -> SUBSET Devices]
    /\ counted \in [Owners -> SUBSET Devices]
    /\ locking \in [Owners -> Devices \cup {NoDevice}]
    /\ expired \in [Owners -> BOOLEAN]
    /\ stopAsked \in [Owners -> BOOLEAN]
    /\ alive \in [Owners -> BOOLEAN]
    /\ base \in [Owners -> [Devices -> 0..MaxHolders]]
    /\ died \in SUBSET Devices
    /\ faulted \in SUBSET Devices

NoHolds == [d \in Devices |-> 0]

Init ==
    /\ osLock = [d \in Devices |-> NoOwner]
    /\ holders = [o \in Owners |-> NoHolds]
    /\ holderFile = [d \in Devices |-> "absent"]
    /\ reclaimed = [o \in Owners |-> {}]
    /\ inCall = [o \in Owners |-> FALSE]
    /\ wanted = [o \in Owners |-> {}]
    /\ counted = [o \in Owners |-> {}]
    /\ locking = [o \in Owners |-> NoDevice]
    /\ expired = [o \in Owners |-> FALSE]
    /\ stopAsked = [o \in Owners |-> FALSE]
    /\ alive = [o \in Owners |-> TRUE]
    /\ base = [o \in Owners |-> NoHolds]
    /\ died = {}
    /\ faulted = {}

-----------------------------------------------------------------------------
(* The holder record and the two primitives `_take` and `_drop`.           *)

\* `_write_holder` under `suppress(ConfigError, OSError)`: the writes for the
\* devices in ok land, the ones for the other devices of D fail unnoticed.
WriteHolder(D, ok, state) ==
    /\ holderFile' = [d \in Devices |-> IF d \in ok THEN state ELSE holderFile[d]]
    /\ faulted' = (faulted \ ok) \cup (D \ ok)

\* Mutation: the count of a device not in `_held` goes down as well.
DropCountsUnheld(o, D) ==
    [d \in Devices |-> IF d \in D THEN holders[o][d] - 1 ELSE holders[o][d]]

\* `_drop`: one hold less on every device of D; a device not held is left alone.
DropCounts(o, D) ==
    [d \in Devices |-> IF d \in D /\ holders[o][d] > 0
                       THEN holders[o][d] - 1 ELSE holders[o][d]]

\* Mutation: the lock goes back although a hold is still counted.
FreedEarly(o, left) == {d \in Devices : left[d] < holders[o][d]}

\* The devices whose last hold is gone: their lock goes back.
Freed(o, left) == {d \in Devices : holders[o][d] > 0 /\ left[d] = 0}

\* Mutation: the record of a device let go still names its last owner.
ForgetRecord(o, left) ==
    /\ holders' = [holders EXCEPT ![o] = left]
    /\ osLock' = [d \in Devices |-> IF d \in Freed(o, left) THEN NoOwner ELSE osLock[d]]
    /\ reclaimed' = [reclaimed EXCEPT ![o] = @ \ Freed(o, left)]
    /\ UNCHANGED <<holderFile, faulted>>

\* Leave the owner with the counts `left`: where the count reaches zero the
\* record is written `released` (or fails to be) and then the lock goes back.
LetGo(o, left) ==
    /\ holders' = [holders EXCEPT ![o] = left]
    /\ osLock' = [d \in Devices |-> IF d \in Freed(o, left) THEN NoOwner ELSE osLock[d]]
    /\ reclaimed' = [reclaimed EXCEPT ![o] = @ \ Freed(o, left)]
    /\ \E ok \in SUBSET Freed(o, left) : WriteHolder(Freed(o, left), ok, "released")

-----------------------------------------------------------------------------
(* `acquire` and `acquire_named`, one step per device and two per lock.    *)

\* The call takes the guard.  A call without a wait meets its deadline at once.
AcquireStart(o, D, waits) ==
    /\ alive[o] /\ ~inCall[o]
    /\ D # {}
    /\ \A d \in D : holders[o][d] < MaxHolders
    /\ inCall' = [inCall EXCEPT ![o] = TRUE]
    /\ wanted' = [wanted EXCEPT ![o] = D]
    /\ expired' = [expired EXCEPT ![o] = ~waits]
    /\ base' = [base EXCEPT ![o] = holders[o]]
    /\ UNCHANGED <<osLock, holders, reclaimed, alive, counted, locking, stopAsked,
                   holderFile, died, faulted>>

\* The device `acquire` has reached in its sorted walk.
Reached(o, d) ==
    /\ inCall[o] /\ locking[o] = NoDevice
    /\ d \in wanted[o]
    /\ \A e \in wanted[o] : d <= e

\* The call returns or raises: the guard is dropped, its locals are gone.
CallOver(o) ==
    /\ inCall' = [inCall EXCEPT ![o] = FALSE]
    /\ wanted' = [wanted EXCEPT ![o] = {}]
    /\ counted' = [counted EXCEPT ![o] = {}]
    /\ expired' = [expired EXCEPT ![o] = FALSE]
    /\ stopAsked' = [stopAsked EXCEPT ![o] = FALSE]
    /\ base' = [base EXCEPT ![o] = NoHolds]

\* Device d is counted, and the walk goes on or, after the last one, returns.
Counted(o, d) ==
    /\ holders' = [holders EXCEPT ![o][d] = @ + 1]
    /\ \/ /\ wanted[o] = {d}
          /\ CallOver(o)
       \/ /\ wanted[o] # {d}
          /\ wanted' = [wanted EXCEPT ![o] = @ \ {d}]
          /\ counted' = [counted EXCEPT ![o] = @ \cup {d}]
          /\ UNCHANGED <<inCall, expired, stopAsked, base>>

\* `_take` of a device this owner holds already.
TakeAgain(o, d) ==
    /\ Reached(o, d)
    /\ holders[o][d] > 0
    /\ Counted(o, d)
    /\ UNCHANGED <<osLock, reclaimed, alive, locking, holderFile, died, faulted>>

\* `_LifetimeLock.acquire` inside `_take`: the kernel grants a free lock.
TakeLock(o, d) ==
    /\ Reached(o, d)
    /\ holders[o][d] = 0
    /\ osLock[d] = NoOwner
    /\ osLock' = [osLock EXCEPT ![d] = o]
    /\ locking' = [locking EXCEPT ![o] = d]
    /\ UNCHANGED <<holders, reclaimed, alive, inCall, wanted, counted, expired,
                   stopAsked, base, holderFile, died, faulted>>

\* Mutation: the record is overwritten before it is read.
SeesDeadOwnerLate(d) == FALSE

\* `_read_holder` under the lock: the record still says `held`.
SeesDeadOwner(d) == holderFile[d] = "held"

\* The rest of `_take`: read the previous record, enter `_held`, write the own
\* record.  Either of the two file operations may fail, and the hold stands.
Register(o, d) ==
    /\ locking[o] = d
    /\ Counted(o, d)
    /\ locking' = [locking EXCEPT ![o] = NoDevice]
    /\ died' = died \ {d}
    /\ \E readable, writable \in BOOLEAN :
        /\ reclaimed' = [reclaimed EXCEPT ![o] =
                            IF readable /\ SeesDeadOwner(d) THEN @ \cup {d} ELSE @]
        /\ holderFile' = [holderFile EXCEPT ![d] = IF writable THEN "held" ELSE @]
        /\ faulted' = IF readable /\ writable THEN faulted \ {d} ELSE faulted \cup {d}
    /\ UNCHANGED <<osLock, alive>>

\* Mutation: only devices newly taken by the refused call are given back.
RollbackTaken(o) == {d \in counted[o] : base[o][d] = 0}

\* What a refused `acquire` gives back: everything this call counted.
Rollback(o) == counted[o]

\* Mutation: the deadline is never judged.
GivesUpOnStop(o) == stopAsked[o]

\* A failed attempt ends the wait when a stop was asked for or the deadline met.
GivesUp(o) == stopAsked[o] \/ expired[o]

\* The lock is somebody else's, or opening it failed, and the wait is over: the
\* call raises DeviceWaitStoppedError or DeviceBusyError and rolls back.
TakeRefused(o, d) ==
    /\ Reached(o, d)
    /\ holders[o][d] = 0
    /\ GivesUp(o)
    /\ LetGo(o, DropCounts(o, Rollback(o)))
    /\ CallOver(o)
    /\ UNCHANGED <<alive, locking, died>>

\* The clock reaches the deadline of a bounded wait.
Expire(o) ==
    /\ inCall[o] /\ ~expired[o]
    /\ expired' = [expired EXCEPT ![o] = TRUE]
    /\ UNCHANGED <<osLock, holders, reclaimed, alive, inCall, wanted, counted,
                   locking, stopAsked, base, holderFile, died, faulted>>

\* Somebody writes the stop file of the waiting run.
AskStop(o) ==
    /\ inCall[o] /\ ~stopAsked[o]
    /\ stopAsked' = [stopAsked EXCEPT ![o] = TRUE]
    /\ UNCHANGED <<osLock, holders, reclaimed, alive, inCall, wanted, counted,
                   locking, expired, base, holderFile, died, faulted>>

-----------------------------------------------------------------------------
(* `release`, `release_all` and `heartbeat`, each under the guard.         *)

\* `release(D)`, of devices held or not.
Release(o, D) ==
    /\ alive[o] /\ ~inCall[o]
    /\ LetGo(o, DropCounts(o, D))
    /\ UNCHANGED <<alive, inCall, wanted, counted, locking, expired, stopAsked, base, died>>

\* `release_all()`: every count is set to one and dropped.
ReleaseAll(o) ==
    /\ alive[o] /\ ~inCall[o]
    /\ LetGo(o, NoHolds)
    /\ UNCHANGED <<alive, inCall, wanted, counted, locking, expired, stopAsked, base, died>>

\* The pump's refresh of every held device's record.
Heartbeat(o) ==
    LET held == {d \in Devices : holders[o][d] > 0}
    IN  /\ alive[o] /\ ~inCall[o]
        /\ held # {}
        /\ \E ok \in SUBSET held : WriteHolder(held, ok, "held")
        /\ UNCHANGED <<osLock, holders, reclaimed, alive, inCall, wanted, counted,
                       locking, expired, stopAsked, base, died>>

-----------------------------------------------------------------------------
(* The operating system: a process dies and its locks go with it.          *)

Crash(o) ==
    /\ alive[o]
    /\ alive' = [alive EXCEPT ![o] = FALSE]
    /\ osLock' = [d \in Devices |-> IF osLock[d] = o THEN NoOwner ELSE osLock[d]]
    /\ holders' = [holders EXCEPT ![o] = NoHolds]
    /\ reclaimed' = [reclaimed EXCEPT ![o] = {}]
    /\ CallOver(o)
    /\ locking' = [locking EXCEPT ![o] = NoDevice]
    /\ died' = died \cup {d \in Devices : holders[o][d] > 0}
    /\ UNCHANGED <<holderFile, faulted>>

Restart(o) ==
    /\ ~alive[o]
    /\ alive' = [alive EXCEPT ![o] = TRUE]
    /\ UNCHANGED <<osLock, holders, reclaimed, inCall, wanted, counted, locking,
                   expired, stopAsked, base, holderFile, died, faulted>>

-----------------------------------------------------------------------------
Take(o) == \E d \in Devices :
    TakeAgain(o, d) \/ TakeLock(o, d) \/ Register(o, d) \/ TakeRefused(o, d)

Next == \E o \in Owners :
    \/ \E D \in SUBSET Devices, waits \in BOOLEAN : AcquireStart(o, D, waits)
    \/ Take(o)
    \/ Expire(o)
    \/ AskStop(o)
    \/ \E D \in SUBSET Devices : Release(o, D)
    \/ ReleaseAll(o)
    \/ Heartbeat(o)
    \/ Crash(o)
    \/ Restart(o)

Spec == Init /\ [][Next]_vars

\* The kernel schedules a thread that can run, and the monotonic clock moves.
Fairness == \A o \in Owners : WF_vars(Take(o)) /\ WF_vars(Expire(o))

FairSpec == Spec /\ Fairness

-----------------------------------------------------------------------------
(* Properties.                                                             *)

\* A device in one owner's `_held` is locked by the kernel for that very owner,
\* however holds are counted up by nested calls, rolled back and dropped: so no
\* two owners hold one device (`_take`, `_drop`, `acquire`'s except branch).
MutualExclusion ==
    \A o \in Owners, d \in Devices : holders[o][d] > 0 => osLock[d] = o

\* Every device the ended or running `acquire` named.
Asked(o) == wanted[o] \cup counted[o]

\* "Hold every named physical device, or hold none of them": when the call of a
\* living owner ends, it has counted each named device once more, or each count
\* is what it was when the call began, whatever other owners did meanwhile.
AllOrNothing ==
    [][\A o \in Owners :
        inCall[o] /\ ~inCall'[o] /\ alive'[o] =>
            \/ holders'[o] = base[o]
            \/ holders'[o] = [d \in Devices |->
                    IF d \in Asked(o) THEN base[o][d] + 1 ELSE base[o][d]]]_vars

\* Where no file operation failed, a holder record says `held` exactly while
\* somebody holds the device or the last process to hold it died doing so: the
\* record never sends a contender to an owner that let go.
HolderRecordExact ==
    \A d \in Devices \ faulted :
        holderFile[d] = "held" <=> d \in died \/ \E o \in Owners : holders[o][d] > 0

\* "Taking the OS lock over a record that still says `held` is how this module
\* detects that the previous owner died": the first owner to hold a device after
\* a process died with it reports the reclaim, also when owners took the lock and
\* failed or died themselves in between, unless a file operation failed.
ReclaimReported ==
    [][\A o \in Owners, d \in Devices :
        d \in died \ faulted /\ holders[o][d] = 0 /\ holders'[o][d] > 0
            => d \in reclaimed'[o] \cup faulted']_vars

\* A wait is bounded: an `acquire` returns, is refused or is stopped, even when
\* others keep taking and dropping the device it waits for.
CallEnds == \A o \in Owners : inCall[o] ~> ~inCall[o]

\* The devices as the promise of DeviceLock sees them: a registered hold counts.
OwnerOf == [d \in Devices |-> IF \E o \in Owners : holders[o][d] > 0
                              THEN CHOOSE o \in Owners : holders[o][d] > 0
                              ELSE NoOwner]

Promise == INSTANCE DeviceLock WITH owner <- OwnerOf

\* Counted, nested, half-failed acquires still implement one owner per device.
ImplementsDeviceLock == Promise!Spec
=============================================================================
