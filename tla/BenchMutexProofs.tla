-------------------------- MODULE BenchMutexProofs --------------------------
(***************************************************************************)
(* Proofs about BenchMutex for any set of owners and devices and any bound *)
(* on the nesting of holds: the types, mutual exclusion, the all-or-       *)
(* nothing promise of `acquire`, the refinement of DeviceLock, what the    *)
(* holder record says, and that a dead owner's device is reported.  Then   *)
(* about DebugSession, the session that a lease on a debug probe's lock is *)
(* for, for any bounds: its claims of the halt, and its failed starts.     *)
(***************************************************************************)
EXTENDS BenchMutex, DebugSessionPromise, SequenceTheorems, TLAPS

\* The lock a call has just won belongs to it, is not yet counted, and is one
\* of the devices the call still wants.
LockingBacked ==
    \A o \in Owners, d \in Devices :
        locking[o] = d => /\ osLock[d] = o
                          /\ holders[o][d] = 0
                          /\ inCall[o]
                          /\ d \in wanted[o]

\* Outside a call nothing is wanted or counted; inside it the counts are those
\* of the start plus one for each device counted so far.
CallShape ==
    \A o \in Owners :
        /\ ~inCall[o] => wanted[o] = {} /\ counted[o] = {}
        /\ wanted[o] \cap counted[o] = {}
        /\ \A d \in wanted[o] : holders[o][d] < MaxHolders
        /\ inCall[o] => \A d \in Devices :
               holders[o][d] = IF d \in counted[o] THEN base[o][d] + 1 ELSE base[o][d]

\* The inductive invariant.
IInv == TypeOK /\ MutualExclusion /\ LockingBacked /\ CallShape

-----------------------------------------------------------------------------
\* The initial state satisfies the inductive invariant: nothing is held.
LEMMA InitIInv == Init => IInv
  BY BenchAssumption DEF Init, IInv, TypeOK, MutualExclusion, LockingBacked, CallShape,
     NoHolds, FileStates

\* `_drop` keeps counts in range and never frees a lock whose count stays.
LEMMA LetGoIInv ==
  ASSUME IInv, NEW o \in Owners, NEW left \in [Devices -> 0..MaxHolders],
         \A d \in Devices : left[d] <= holders[o][d],
         LetGo(o, left)
  PROVE  /\ holders' = [holders EXCEPT ![o] = left]
         /\ osLock' = [d \in Devices |-> IF d \in Freed(o, left) THEN NoOwner ELSE osLock[d]]
         /\ osLock' \in [Devices -> Owners \cup {NoOwner}]
         /\ holders' \in [Owners -> [Devices -> 0..MaxHolders]]
         /\ reclaimed' \in [Owners -> SUBSET Devices]
         /\ holderFile' \in [Devices -> FileStates]
         /\ faulted' \in SUBSET Devices
         /\ MutualExclusion'
         /\ \A p \in Owners, d \in Devices :
                p # o /\ osLock[d] = p => osLock'[d] = p
  <1>1. TypeOK /\ MutualExclusion
    BY DEF IInv
  <1>2. Freed(o, left) \subseteq Devices
    BY DEF Freed
  <1>3. /\ holders' = [holders EXCEPT ![o] = left]
        /\ osLock' = [d \in Devices |-> IF d \in Freed(o, left) THEN NoOwner ELSE osLock[d]]
        /\ reclaimed' = [reclaimed EXCEPT ![o] = @ \ Freed(o, left)]
    BY DEF LetGo
  <1>4. PICK ok \in SUBSET Freed(o, left) : WriteHolder(Freed(o, left), ok, "released")
    BY DEF LetGo
  <1>5. holderFile' \in [Devices -> FileStates] /\ faulted' \in SUBSET Devices
    BY <1>1, <1>2, <1>4 DEF WriteHolder, TypeOK, FileStates
  <1>6. /\ osLock' \in [Devices -> Owners \cup {NoOwner}]
        /\ holders' \in [Owners -> [Devices -> 0..MaxHolders]]
        /\ reclaimed' \in [Owners -> SUBSET Devices]
    BY <1>1, <1>3 DEF TypeOK
  <1>7. MutualExclusion'
    <2>1. SUFFICES ASSUME NEW p \in Owners, NEW d \in Devices, holders'[p][d] > 0
                   PROVE  osLock'[d] = p
      BY DEF MutualExclusion
    <2>2. CASE p = o
      <3>1. left[d] > 0 /\ holders[o][d] > 0
        BY <1>1, <1>3, <2>1, <2>2 DEF TypeOK
      <3>2. d \notin Freed(o, left)
        BY <3>1 DEF Freed
      <3> QED BY <1>1, <1>3, <2>2, <3>1, <3>2 DEF MutualExclusion
    <2>3. CASE p # o
      <3>1. holders[p][d] > 0
        BY <1>1, <1>3, <2>1, <2>3 DEF TypeOK
      <3>2. osLock[d] = p
        BY <1>1, <3>1 DEF MutualExclusion
      <3>3. d \notin Freed(o, left)
        BY <1>1, <2>3, <3>2 DEF Freed, MutualExclusion
      <3> QED BY <1>3, <3>2, <3>3
    <2> QED BY <2>2, <2>3
  <1>8. ASSUME NEW p \in Owners, NEW d \in Devices, p # o, osLock[d] = p
        PROVE  osLock'[d] = p
    <2>1. d \notin Freed(o, left)
      BY <1>1, <1>8 DEF Freed, MutualExclusion
    <2> QED BY <1>3, <1>8, <2>1
  <1> QED BY <1>3, <1>5, <1>6, <1>7, <1>8

\* The counts after a `_drop` are counts, and none grows.
LEMMA DropCountsBound ==
  ASSUME TypeOK, NEW o \in Owners, NEW D
  PROVE  /\ DropCounts(o, D) \in [Devices -> 0..MaxHolders]
         /\ \A d \in Devices : DropCounts(o, D)[d] <= holders[o][d]
         /\ \A d \in Devices : holders[o][d] = 0 => DropCounts(o, D)[d] = 0
  BY BenchAssumption DEF DropCounts, TypeOK

\* The variables that only a running call has.
CallTypes ==
    /\ inCall \in [Owners -> BOOLEAN]
    /\ wanted \in [Owners -> SUBSET Devices]
    /\ counted \in [Owners -> SUBSET Devices]
    /\ expired \in [Owners -> BOOLEAN]
    /\ stopAsked \in [Owners -> BOOLEAN]
    /\ base \in [Owners -> [Devices -> 0..MaxHolders]]

\* A call that returns leaves well-typed locals behind.
LEMMA CallOverTypes ==
  ASSUME TypeOK, NEW o \in Owners, CallOver(o)
  PROVE  CallTypes'
  <1>1. NoHolds \in [Devices -> 0..MaxHolders]
    BY BenchAssumption DEF NoHolds
  <1>2. base' \in [Owners -> [Devices -> 0..MaxHolders]]
    BY <1>1 DEF CallOver, TypeOK
  <1> QED BY <1>2, Zenon DEF CallOver, TypeOK, CallTypes

\* Counting a device that the call wants keeps the types and the call's shape.
LEMMA CountedShape ==
  ASSUME TypeOK, CallShape, NEW o \in Owners, NEW d \in Devices,
         d \in wanted[o], inCall[o], holders[o][d] < MaxHolders, Counted(o, d)
  PROVE  /\ CallTypes' /\ CallShape'
         /\ holders' \in [Owners -> [Devices -> 0..MaxHolders]]
  <1> USE BenchAssumption
  <1>1. holders' = [holders EXCEPT ![o][d] = @ + 1]
    BY DEF Counted
  <1>2. holders' \in [Owners -> [Devices -> 0..MaxHolders]]
    BY <1>1 DEF TypeOK
  <1>3. CASE CallOver(o)
    <2>1. CallTypes'
      BY <1>3, CallOverTypes
    <2>2. CallShape'
      BY <1>1, <1>3 DEF CallOver, CallShape, TypeOK
    <2> QED BY <1>2, <2>1, <2>2
  <1>4. CASE /\ wanted' = [wanted EXCEPT ![o] = @ \ {d}]
             /\ counted' = [counted EXCEPT ![o] = @ \cup {d}]
             /\ UNCHANGED <<inCall, expired, stopAsked, base>>
    <2>1. CallTypes'
      BY <1>4 DEF CallTypes, TypeOK
    <2>2. CallShape'
      <3>1. SUFFICES ASSUME NEW p \in Owners
                     PROVE  /\ ~inCall'[p] => wanted'[p] = {} /\ counted'[p] = {}
                            /\ wanted'[p] \cap counted'[p] = {}
                            /\ \A e \in wanted'[p] : holders'[p][e] < MaxHolders
                            /\ inCall'[p] => \A e \in Devices :
                                 holders'[p][e] = IF e \in counted'[p]
                                                  THEN base'[p][e] + 1 ELSE base'[p][e]
        BY DEF CallShape
      <3>2. CASE p # o
        BY <1>1, <1>4, <3>2 DEF CallShape, TypeOK
      <3>3. CASE p = o
        <4>1. wanted'[o] = wanted[o] \ {d} /\ counted'[o] = counted[o] \cup {d}
              /\ inCall'[o] /\ base'[o] = base[o]
          BY <1>4 DEF TypeOK
        <4>2. holders'[o][d] = holders[o][d] + 1
              /\ \A e \in Devices \ {d} : holders'[o][e] = holders[o][e]
          BY <1>1 DEF TypeOK
        <4>3. d \notin counted[o] /\ wanted[o] \subseteq Devices
          BY DEF CallShape, TypeOK
        <4> QED BY <3>3, <4>1, <4>2, <4>3 DEF CallShape, TypeOK
      <3> QED BY <3>2, <3>3
    <2> QED BY <1>2, <2>1, <2>2
  <1> QED BY <1>3, <1>4 DEF Counted

\* Every step of every owner, and every crash, keeps the inductive invariant.
LEMMA NextIInv == IInv /\ [Next]_vars => IInv'
  <1> SUFFICES ASSUME IInv, [Next]_vars PROVE IInv'
    OBVIOUS
  <1> USE BenchAssumption
  <1>t. TypeOK /\ MutualExclusion /\ LockingBacked /\ CallShape
    BY DEF IInv
  <1>1. ASSUME NEW o \in Owners, NEW D \in SUBSET Devices, NEW waits \in BOOLEAN,
               AcquireStart(o, D, waits)
        PROVE  IInv'
    <2>1. TypeOK'
      BY <1>t, <1>1 DEF AcquireStart, TypeOK
    <2>2. MutualExclusion'
      BY <1>t, <1>1 DEF AcquireStart, MutualExclusion
    <2>3. LockingBacked'
      BY <1>t, <1>1 DEF AcquireStart, LockingBacked, TypeOK
    <2>4. CallShape'
      BY <1>t, <1>1 DEF AcquireStart, CallShape, TypeOK
    <2> QED BY <2>1, <2>2, <2>3, <2>4 DEF IInv
  <1>2. ASSUME NEW o \in Owners, NEW d \in Devices, TakeAgain(o, d)
        PROVE  IInv'
    <2>1. d \in wanted[o] /\ inCall[o] /\ holders[o][d] < MaxHolders
      BY <1>t, <1>2 DEF TakeAgain, Reached, CallShape
    <2>a. Counted(o, d)
      BY <1>2 DEF TakeAgain
    <2>b. TypeOK /\ CallShape /\ d \in wanted[o] /\ inCall[o] /\ holders[o][d] < MaxHolders
      BY <1>t, <2>1
    <2>c. CallTypes' /\ CallShape' /\ holders' \in [Owners -> [Devices -> 0..MaxHolders]]
      BY <2>a, <2>b, CountedShape, Zenon
    <2>2. TypeOK'
      BY <1>t, <1>2, <2>c DEF TakeAgain, TypeOK, CallTypes
    <2>3. MutualExclusion'
      BY <1>t, <1>2 DEF TakeAgain, Counted, MutualExclusion, TypeOK
    <2>4. LockingBacked'
      BY <1>t, <1>2 DEF TakeAgain, Reached, Counted, CallOver, LockingBacked, TypeOK
    <2>5. CallShape'
      BY <2>c
    <2> QED BY <2>2, <2>3, <2>4, <2>5 DEF IInv
  <1>3. ASSUME NEW o \in Owners, NEW d \in Devices, TakeLock(o, d)
        PROVE  IInv'
    <2>1. TypeOK'
      BY <1>t, <1>3 DEF TakeLock, TypeOK
    <2>2. MutualExclusion'
      BY <1>t, <1>3 DEF TakeLock, MutualExclusion, TypeOK
    <2>3. LockingBacked'
      BY <1>t, <1>3 DEF TakeLock, Reached, LockingBacked, TypeOK
    <2>4. CallShape'
      BY <1>t, <1>3 DEF TakeLock, CallShape
    <2> QED BY <2>1, <2>2, <2>3, <2>4 DEF IInv
  <1>4. ASSUME NEW o \in Owners, NEW d \in Devices, Register(o, d)
        PROVE  IInv'
    <2>1. /\ d \in wanted[o] /\ inCall[o]
          /\ holders[o][d] = 0 /\ osLock[d] = o
      BY <1>t, <1>4 DEF Register, LockingBacked
    <2>a. Counted(o, d)
      BY <1>4 DEF Register
    <2>b. TypeOK /\ CallShape /\ d \in wanted[o] /\ inCall[o] /\ holders[o][d] < MaxHolders
      BY <1>t, <2>1, BenchAssumption
    <2>c. CallTypes' /\ CallShape' /\ holders' \in [Owners -> [Devices -> 0..MaxHolders]]
      BY <2>a, <2>b, CountedShape, Zenon
    <2>2. TypeOK'
      <3>1. PICK readable \in BOOLEAN, writable \in BOOLEAN :
               /\ reclaimed' = [reclaimed EXCEPT ![o] =
                       IF readable /\ SeesDeadOwner(d) THEN @ \cup {d} ELSE @]
               /\ holderFile' = [holderFile EXCEPT ![d] = IF writable THEN "held" ELSE @]
               /\ faulted' = IF readable /\ writable THEN faulted \ {d} ELSE faulted \cup {d}
        BY <1>4 DEF Register
      <3>2. reclaimed' \in [Owners -> SUBSET Devices] /\ faulted' \in SUBSET Devices
        BY <1>t, <3>1 DEF TypeOK
      <3>3. holderFile' \in [Devices -> FileStates]
        BY <1>t, <3>1 DEF TypeOK, FileStates
      <3>4. UNCHANGED <<osLock, alive>> /\ locking' = [locking EXCEPT ![o] = NoDevice]
            /\ died' = died \ {d}
        BY <1>4 DEF Register
      <3>5. locking' \in [Owners -> Devices \cup {NoDevice}] /\ died' \in SUBSET Devices
        BY <1>t, <3>4 DEF TypeOK
      <3> QED BY <1>t, <2>c, <3>2, <3>3, <3>4, <3>5 DEF TypeOK, CallTypes
    <2>3. MutualExclusion'
      BY <1>t, <1>4, <2>1 DEF Register, Counted, MutualExclusion, TypeOK
    <2>4. LockingBacked'
      BY <1>t, <1>4 DEF Register, Counted, CallOver, LockingBacked, TypeOK
    <2>5. CallShape'
      BY <2>c
    <2> QED BY <2>2, <2>3, <2>4, <2>5 DEF IInv
  <1>5. ASSUME NEW o \in Owners, NEW d \in Devices, TakeRefused(o, d)
        PROVE  IInv'
    <2> DEFINE left == DropCounts(o, Rollback(o))
    <2>1. LetGo(o, left) /\ CallOver(o) /\ UNCHANGED <<alive, locking, died>>
      BY <1>5 DEF TakeRefused
    <2>2. /\ left \in [Devices -> 0..MaxHolders]
          /\ \A e \in Devices : left[e] <= holders[o][e]
      BY <1>t, DropCountsBound
    <2>q. locking[o] = NoDevice
      BY <1>5 DEF TakeRefused, Reached
    <2> HIDE DEF left
    <2>3. IInv
      BY <1>t DEF IInv
    <2>4. /\ holders' = [holders EXCEPT ![o] = left]
          /\ osLock' \in [Devices -> Owners \cup {NoOwner}]
          /\ holders' \in [Owners -> [Devices -> 0..MaxHolders]]
          /\ reclaimed' \in [Owners -> SUBSET Devices]
          /\ holderFile' \in [Devices -> FileStates]
          /\ faulted' \in SUBSET Devices
          /\ MutualExclusion'
          /\ \A p \in Owners, e \in Devices :
                p # o /\ osLock[e] = p => osLock'[e] = p
      BY <2>1, <2>2, <2>3, LetGoIInv
    <2>5. TypeOK'
      BY <1>t, <2>1, <2>4 DEF TypeOK, CallOver, NoHolds
    <2>6. LockingBacked'
      BY <1>t, <2>q, <2>1, <2>4 DEF LockingBacked, CallOver, TypeOK
    <2>7. CallShape'
      BY <1>t, <2>1, <2>4 DEF CallShape, CallOver, TypeOK
    <2> QED BY <2>4, <2>5, <2>6, <2>7 DEF IInv
  <1>6. ASSUME NEW o \in Owners, Expire(o) \/ AskStop(o)
        PROVE  IInv'
    <2>1. UNCHANGED <<osLock, holders, reclaimed, alive, inCall, wanted, counted,
                      locking, base, holderFile, died, faulted>>
      BY <1>6 DEF Expire, AskStop
    <2>2. expired' \in [Owners -> BOOLEAN] /\ stopAsked' \in [Owners -> BOOLEAN]
      BY <1>t, <1>6, Zenon DEF Expire, AskStop, TypeOK
    <2>3. TypeOK'
      BY <1>t, <2>1, <2>2 DEF TypeOK
    <2> QED BY <1>t, <2>1, <2>3 DEF IInv, MutualExclusion, LockingBacked, CallShape
  <1>7. ASSUME NEW o \in Owners, NEW left, left \in [Devices -> 0..MaxHolders],
               \A e \in Devices : left[e] <= holders[o][e],
               ~inCall[o], LetGo(o, left),
               UNCHANGED <<alive, inCall, wanted, counted, locking, expired, stopAsked, base, died>>
        PROVE  IInv'
    <2>3. IInv
      BY <1>t DEF IInv
    <2>4. /\ holders' = [holders EXCEPT ![o] = left]
          /\ osLock' \in [Devices -> Owners \cup {NoOwner}]
          /\ holders' \in [Owners -> [Devices -> 0..MaxHolders]]
          /\ reclaimed' \in [Owners -> SUBSET Devices]
          /\ holderFile' \in [Devices -> FileStates]
          /\ faulted' \in SUBSET Devices
          /\ MutualExclusion'
          /\ \A p \in Owners, e \in Devices :
                p # o /\ osLock[e] = p => osLock'[e] = p
      BY <1>7, <2>3, LetGoIInv
    <2>5. TypeOK'
      BY <1>t, <1>7, <2>4 DEF TypeOK
    <2>6. LockingBacked'
      BY <1>t, <1>7, <2>4 DEF LockingBacked, TypeOK
    <2>7. CallShape'
      BY <1>t, <1>7, <2>4 DEF CallShape, TypeOK
    <2> QED BY <2>4, <2>5, <2>6, <2>7 DEF IInv
  <1>8. ASSUME NEW o \in Owners, NEW D \in SUBSET Devices, Release(o, D)
        PROVE  IInv'
    BY <1>t, <1>7, <1>8, DropCountsBound DEF Release
  <1>9. ASSUME NEW o \in Owners, ReleaseAll(o)
        PROVE  IInv'
    <2>1. NoHolds \in [Devices -> 0..MaxHolders] /\ \A e \in Devices : NoHolds[e] <= holders[o][e]
      BY <1>t DEF NoHolds, TypeOK
    <2> QED BY <1>7, <1>9, <2>1 DEF ReleaseAll
  <1>10. ASSUME NEW o \in Owners, Heartbeat(o)
         PROVE  IInv'
    <2> DEFINE held == {d \in Devices : holders[o][d] > 0}
    <2>1. PICK ok \in SUBSET held : WriteHolder(held, ok, "held")
      BY <1>10 DEF Heartbeat
    <2>2. UNCHANGED <<osLock, holders, reclaimed, alive, inCall, wanted, counted,
                      locking, expired, stopAsked, base, died>>
      BY <1>10 DEF Heartbeat
    <2>3. holderFile' \in [Devices -> FileStates] /\ faulted' \in SUBSET Devices
      BY <1>t, <2>1 DEF WriteHolder, TypeOK, FileStates
    <2> QED BY <1>t, <2>2, <2>3 DEF IInv, TypeOK, MutualExclusion, LockingBacked, CallShape
  <1>11. ASSUME NEW o \in Owners, Crash(o)
         PROVE  IInv'
    <2>1. TypeOK'
      <3>1. CallTypes' /\ NoHolds \in [Devices -> 0..MaxHolders]
        BY <1>t, <1>11, CallOverTypes DEF Crash, NoHolds
      <3>2. /\ osLock' \in [Devices -> Owners \cup {NoOwner}]
            /\ holders' \in [Owners -> [Devices -> 0..MaxHolders]]
            /\ reclaimed' \in [Owners -> SUBSET Devices]
            /\ locking' \in [Owners -> Devices \cup {NoDevice}]
            /\ died' \in SUBSET Devices
        BY <1>t, <1>11, <3>1 DEF Crash, TypeOK
      <3>3. alive' \in [Owners -> BOOLEAN]
        BY <1>t, <1>11, Zenon DEF Crash, TypeOK
      <3> QED BY <1>t, <1>11, <3>1, <3>2, <3>3 DEF Crash, TypeOK, CallTypes
    <2>2. MutualExclusion'
      BY <1>t, <1>11 DEF Crash, MutualExclusion, TypeOK, NoHolds
    <2>3. LockingBacked'
      BY <1>t, <1>11 DEF Crash, CallOver, LockingBacked, TypeOK, NoHolds
    <2>4. CallShape'
      BY <1>t, <1>11 DEF Crash, CallOver, CallShape, TypeOK
    <2> QED BY <2>1, <2>2, <2>3, <2>4 DEF IInv
  <1>12. ASSUME NEW o \in Owners, Restart(o)
         PROVE  IInv'
    BY <1>t, <1>12 DEF Restart, IInv, TypeOK, MutualExclusion, LockingBacked, CallShape
  <1>13. ASSUME UNCHANGED vars
         PROVE  IInv'
    BY <1>t, <1>13 DEF vars, IInv, TypeOK, MutualExclusion, LockingBacked, CallShape
  <1> QED BY <1>1, <1>2, <1>3, <1>4, <1>5, <1>6, <1>8, <1>9, <1>10, <1>11, <1>12, <1>13
          DEF Next, Take

-----------------------------------------------------------------------------
\* The inductive invariant holds in every reachable state of BenchMutex.
THEOREM AlwaysIInv == Spec => []IInv
  BY InitIInv, NextIInv, PTL DEF Spec

\* Type correctness of the mutex, for every nesting bound of its counts.
THEOREM TypeCorrect == Spec => []TypeOK
  BY AlwaysIInv, PTL DEF IInv

\* Mutual exclusion: an owner's counted devices are locked by the kernel for it,
\* through nested acquires, rollbacks, releases and crashes of any number of
\* owners; so no device is in two owners' `_held` at once.
THEOREM Exclusive == Spec => []MutualExclusion
  BY AlwaysIInv, PTL DEF IInv

-----------------------------------------------------------------------------
(* `acquire` holds every device it was asked for, or none.                 *)

\* How the counts stand after the step that ends a call.
Settled(o) ==
    \/ holders'[o] = base[o]
    \/ holders'[o] = [d \in Devices |->
            IF d \in Asked(o) THEN base[o][d] + 1 ELSE base[o][d]]

\* Rolling back what the call counted restores the counts of its start.
LEMMA RollbackRestores ==
  ASSUME IInv, NEW o \in Owners, inCall[o]
  PROVE  DropCounts(o, Rollback(o)) = base[o]
  <1>1. base[o] \in [Devices -> 0..MaxHolders] /\ counted[o] \subseteq Devices
    BY DEF IInv, TypeOK
  <1>2. \A d \in Devices :
           holders[o][d] = IF d \in counted[o] THEN base[o][d] + 1 ELSE base[o][d]
    BY DEF IInv, CallShape
  <1>3. \A d \in Devices : DropCounts(o, Rollback(o))[d] = base[o][d]
    BY <1>1, <1>2, BenchAssumption DEF DropCounts, Rollback
  <1>4. DropCounts(o, Rollback(o)) = [d \in Devices |-> DropCounts(o, Rollback(o))[d]]
    BY DEF DropCounts
  <1> QED BY <1>1, <1>3, <1>4

\* The device counted last completes the set the call was asked for.
LEMMA LastCounted ==
  ASSUME IInv, NEW o \in Owners, NEW d \in Devices, inCall[o],
         Counted(o, d), wanted[o] = {d}
  PROVE  Settled(o)
  <1>1. /\ base[o] \in [Devices -> 0..MaxHolders]
        /\ holders \in [Owners -> [Devices -> 0..MaxHolders]]
    BY DEF IInv, TypeOK
  <1>2. /\ d \notin counted[o]
        /\ \A e \in Devices :
              holders[o][e] = IF e \in counted[o] THEN base[o][e] + 1 ELSE base[o][e]
    BY DEF IInv, CallShape
  <1>3. holders' = [holders EXCEPT ![o][d] = @ + 1]
    BY DEF Counted
  <1>4. holders'[o] = [e \in Devices |-> IF e = d THEN holders[o][d] + 1 ELSE holders[o][e]]
    BY <1>1, <1>3
  <1>5. Asked(o) = counted[o] \cup {d}
    BY DEF Asked
  <1> QED BY <1>1, <1>2, <1>4, <1>5 DEF Settled

\* A step that ends a call of a living owner settles its counts.
LEMMA StepSettles ==
  ASSUME IInv, [Next]_vars, NEW o \in Owners, inCall[o], ~inCall'[o], alive'[o]
  PROVE  Settled(o)
  <1> USE BenchAssumption
  <1>t. TypeOK
    BY DEF IInv
  <1>1. ASSUME NEW p \in Owners, NEW d \in Devices, TakeAgain(p, d)
        PROVE  Settled(o)
    <2>1. Counted(p, d)
      BY <1>1 DEF TakeAgain
    <2>2. p = o /\ wanted[p] = {d}
      BY <1>t, <2>1 DEF Counted, CallOver, TypeOK
    <2> QED BY <2>1, <2>2, LastCounted
  <1>2. ASSUME NEW p \in Owners, NEW d \in Devices, Register(p, d)
        PROVE  Settled(o)
    <2>1. Counted(p, d)
      BY <1>2 DEF Register
    <2>2. p = o /\ wanted[p] = {d}
      BY <1>t, <2>1 DEF Counted, CallOver, TypeOK
    <2> QED BY <2>1, <2>2, LastCounted
  <1>3. ASSUME NEW p \in Owners, NEW d \in Devices, TakeRefused(p, d)
        PROVE  Settled(o)
    <2>1. p = o
      BY <1>t, <1>3 DEF TakeRefused, CallOver, TypeOK
    <2>2. holders' = [holders EXCEPT ![o] = DropCounts(o, Rollback(o))]
      BY <1>3, <2>1 DEF TakeRefused, LetGo
    <2>3. holders'[o] = DropCounts(o, Rollback(o))
      BY <1>t, <2>2 DEF TypeOK
    <2> QED BY <2>3, RollbackRestores DEF Settled
  <1>4. ASSUME NEW p \in Owners, Crash(p)
        PROVE  Settled(o)
    <2>1. p = o
      BY <1>t, <1>4 DEF Crash, CallOver, TypeOK
    <2> QED BY <1>t, <1>4, <2>1 DEF Crash, TypeOK
  <1>5. ASSUME NEW p \in Owners,
               \/ \E D \in SUBSET Devices, waits \in BOOLEAN : AcquireStart(p, D, waits)
               \/ \E d \in Devices : TakeLock(p, d)
               \/ Expire(p) \/ AskStop(p)
               \/ \E D \in SUBSET Devices : Release(p, D)
               \/ ReleaseAll(p) \/ Heartbeat(p) \/ Restart(p)
        PROVE  Settled(o)
    BY <1>t, <1>5 DEF AcquireStart, TakeLock, Expire, AskStop, Release, ReleaseAll,
       Heartbeat, Restart, TypeOK
  <1>6. CASE UNCHANGED vars
    BY <1>6 DEF vars
  <1> QED BY <1>1, <1>2, <1>3, <1>4, <1>5, <1>6 DEF Next, Take

\* A refused or stopped `acquire` leaves every count where it found it, nested
\* holds included; a granted one has counted each named device exactly once more.
THEOREM AcquireAllOrNothing == Spec => AllOrNothing
  <1>1. IInv /\ [Next]_vars =>
          [\A o \in Owners :
             inCall[o] /\ ~inCall'[o] /\ alive'[o] =>
                 \/ holders'[o] = base[o]
                 \/ holders'[o] = [d \in Devices |->
                         IF d \in Asked(o) THEN base[o][d] + 1 ELSE base[o][d]]]_vars
    BY StepSettles DEF Settled
  <1> QED BY <1>1, AlwaysIInv, PTL DEF Spec, AllOrNothing

-----------------------------------------------------------------------------
(* BenchMutex implements DeviceLock.                                       *)

\* Under mutual exclusion the abstract owner is the one that counts the device.
LEMMA OwnerIsHolder ==
  ASSUME IInv, NEW d \in Devices
  PROVE  /\ \A o \in Owners : holders[o][d] > 0 <=> OwnerOf[d] = o
         /\ (\A o \in Owners : holders[o][d] = 0) <=> OwnerOf[d] = NoOwner
  <1>1. TypeOK /\ MutualExclusion
    BY DEF IInv
  <1>2. \A o, p \in Owners : holders[o][d] > 0 /\ holders[p][d] > 0 => o = p
    BY <1>1 DEF MutualExclusion
  <1>3. \A o \in Owners : ~(holders[o][d] > 0) <=> holders[o][d] = 0
    BY <1>1, BenchAssumption DEF TypeOK
  <1>4. ASSUME NEW o \in Owners, holders[o][d] > 0
        PROVE  OwnerOf[d] = o
    BY <1>2, <1>4 DEF OwnerOf
  <1>5. ASSUME \A o \in Owners : ~(holders[o][d] > 0)
        PROVE  OwnerOf[d] = NoOwner
    BY <1>5 DEF OwnerOf
  <1> QED BY <1>3, <1>4, <1>5, BenchAssumption

\* The same fact of all devices, in the form that can be primed.
OwnersAreHolders ==
    \A d \in Devices :
        /\ \A o \in Owners : holders[o][d] > 0 <=> OwnerOf[d] = o
        /\ (\A o \in Owners : holders[o][d] = 0) <=> OwnerOf[d] = NoOwner

\* The abstract owners agree with the counts after a step as well.
LEMMA OwnersAfterStep == IInv' => OwnersAreHolders'
  <1>1. IInv => OwnersAreHolders
    BY OwnerIsHolder DEF OwnersAreHolders
  <1> QED BY <1>1, PTL

\* Two states with the same holders show the same owners.
LEMMA SameHolders ==
  ASSUME IInv, IInv', \A o \in Owners, d \in Devices : holders'[o][d] > 0 <=> holders[o][d] > 0
  PROVE  OwnerOf' = OwnerOf
  BY DEF OwnerOf

\* Dropping holds shows as giving back exactly the devices let go.
LEMMA LetGoGivesBack ==
  ASSUME IInv, IInv', NEW o \in Owners, NEW left \in [Devices -> 0..MaxHolders],
         \A d \in Devices : left[d] <= holders[o][d],
         holders' = [holders EXCEPT ![o] = left]
  PROVE  Promise!GiveBack(o, Freed(o, left))
  <1> USE BenchAssumption
  <1>1. TypeOK
    BY DEF IInv
  <1>2. \A d \in Freed(o, left) : OwnerOf[d] = o
    BY OwnerIsHolder DEF Freed
  <1>3. ASSUME NEW d \in Devices
        PROVE  OwnerOf'[d] = IF d \in Freed(o, left) THEN NoOwner ELSE OwnerOf[d]
    <2>1. /\ \A p \in Owners : holders'[p][d] > 0 <=> OwnerOf'[d] = p
          /\ (\A p \in Owners : holders'[p][d] = 0) <=> OwnerOf'[d] = NoOwner
      BY OwnersAfterStep DEF OwnersAreHolders
    <2>2. /\ \A p \in Owners : holders[p][d] > 0 <=> OwnerOf[d] = p
          /\ (\A p \in Owners : holders[p][d] = 0) <=> OwnerOf[d] = NoOwner
      BY OwnerIsHolder
    <2>3. /\ holders'[o][d] = left[d]
          /\ \A p \in Owners \ {o} : holders'[p][d] = holders[p][d]
          /\ \A p \in Owners : holders[p][d] \in Nat /\ holders'[p][d] \in Nat
      BY <1>1 DEF TypeOK
    <2>4. left[d] \in Nat /\ left[d] <= holders[o][d]
      OBVIOUS
    <2>5. OwnerOf[d] \in Owners \cup {NoOwner} /\ OwnerOf'[d] \in Owners \cup {NoOwner}
      BY <2>1, <2>2, <2>3
    <2>6. CASE d \in Freed(o, left)
      BY <2>1, <2>2, <2>3, <2>4, <2>6 DEF Freed
    <2>7. CASE d \notin Freed(o, left)
      BY <2>1, <2>2, <2>3, <2>4, <2>5, <2>7 DEF Freed
    <2> QED BY <2>6, <2>7
  <1>4. OwnerOf' = [d \in Devices |-> OwnerOf'[d]]
    BY DEF OwnerOf
  <1> QED BY <1>2, <1>3, <1>4 DEF Promise!GiveBack

\* Every step of BenchMutex is a step of DeviceLock or leaves the owners alone.
LEMMA StepImplements ==
  ASSUME IInv, IInv', [Next]_vars
  PROVE  [Promise!Next]_OwnerOf
  <1> USE BenchAssumption
  <1>t. TypeOK
    BY DEF IInv
  <1>1. ASSUME NEW o \in Owners, NEW left, left \in [Devices -> 0..MaxHolders],
               \A d \in Devices : left[d] <= holders[o][d],
               holders' = [holders EXCEPT ![o] = left]
        PROVE  [Promise!Next]_OwnerOf
    <2>1. Promise!GiveBack(o, Freed(o, left)) /\ Freed(o, left) \in SUBSET Devices
      BY <1>1, LetGoGivesBack DEF Freed
    <2> QED BY <2>1 DEF Promise!Next
  <1>2. ASSUME NEW o \in Owners, NEW d \in Devices, TakeAgain(o, d)
        PROVE  [Promise!Next]_OwnerOf
    <2>1. holders' = [holders EXCEPT ![o][d] = @ + 1] /\ holders[o][d] > 0
      BY <1>2 DEF TakeAgain, Counted
    <2>2. \A p \in Owners, e \in Devices : holders'[p][e] > 0 <=> holders[p][e] > 0
      BY <1>t, <2>1 DEF TypeOK
    <2> QED BY <2>2, SameHolders
  <1>3. ASSUME NEW o \in Owners, NEW d \in Devices, Register(o, d)
        PROVE  [Promise!Next]_OwnerOf
    <2>1. holders' = [holders EXCEPT ![o][d] = @ + 1] /\ osLock[d] = o /\ holders[o][d] = 0
      BY <1>3 DEF Register, Counted, IInv, LockingBacked
    <2>2. \A p \in Owners : ~(holders[p][d] > 0)
      <3>1. MutualExclusion
        BY DEF IInv
      <3> QED BY <2>1, <3>1 DEF MutualExclusion
    <2>3. OwnerOf[d] = NoOwner
      BY <2>2 DEF OwnerOf
    <2>4. ASSUME NEW e \in Devices
          PROVE  OwnerOf'[e] = IF e = d THEN o ELSE OwnerOf[e]
      <3>1. \A p \in Owners : holders'[p][e] > 0 <=> (holders[p][e] > 0 \/ (p = o /\ e = d))
        BY <1>t, <2>1 DEF TypeOK
      <3>2. CASE e = d
        <4>1. holders'[o][d] > 0
          BY <3>1, <3>2
        <4>2. \A p \in Owners : holders'[p][d] > 0 <=> OwnerOf'[d] = p
          BY OwnersAfterStep DEF OwnersAreHolders
        <4> QED BY <3>2, <4>1, <4>2
      <3>3. CASE e # d
        BY <3>1, <3>3 DEF OwnerOf
      <3> QED BY <3>2, <3>3
    <2>5. OwnerOf' = [e \in Devices |-> IF e = d THEN o ELSE OwnerOf[e]]
      BY <2>4 DEF OwnerOf
    <2>6. OwnerOf' = [OwnerOf EXCEPT ![d] = o]
      BY <2>5 DEF OwnerOf
    <2> QED BY <2>3, <2>6 DEF Promise!Next, Promise!Take
  <1>4. ASSUME NEW o \in Owners, NEW d \in Devices, TakeRefused(o, d)
        PROVE  [Promise!Next]_OwnerOf
    <2>1. holders' = [holders EXCEPT ![o] = DropCounts(o, Rollback(o))]
      BY <1>4 DEF TakeRefused, LetGo
    <2> QED BY <1>t, <1>1, <2>1, DropCountsBound
  <1>5. ASSUME NEW o \in Owners, NEW D \in SUBSET Devices, Release(o, D)
        PROVE  [Promise!Next]_OwnerOf
    <2>1. holders' = [holders EXCEPT ![o] = DropCounts(o, D)]
      BY <1>5 DEF Release, LetGo
    <2> QED BY <1>t, <1>1, <2>1, DropCountsBound
  <1>6. ASSUME NEW o \in Owners, ReleaseAll(o) \/ Crash(o)
        PROVE  [Promise!Next]_OwnerOf
    <2>1. holders' = [holders EXCEPT ![o] = NoHolds]
      BY <1>6 DEF ReleaseAll, LetGo, Crash
    <2>2. NoHolds \in [Devices -> 0..MaxHolders] /\ \A d \in Devices : NoHolds[d] <= holders[o][d]
      BY <1>t DEF NoHolds, TypeOK
    <2> QED BY <1>1, <2>1, <2>2
  <1>7. ASSUME UNCHANGED holders
        PROVE  [Promise!Next]_OwnerOf
    BY <1>7, SameHolders
  <1>8. ASSUME NEW o \in Owners,
               \/ \E D \in SUBSET Devices, waits \in BOOLEAN : AcquireStart(o, D, waits)
               \/ \E d \in Devices : TakeLock(o, d)
               \/ Expire(o) \/ AskStop(o) \/ Heartbeat(o) \/ Restart(o)
        PROVE  UNCHANGED holders
    BY <1>8 DEF AcquireStart, TakeLock, Expire, AskStop, Heartbeat, Restart
  <1>9. CASE UNCHANGED vars
    BY <1>7, <1>9 DEF vars
  <1> QED BY <1>2, <1>3, <1>4, <1>5, <1>6, <1>7, <1>8, <1>9 DEF Next, Take

\* The counted, nested and crashing mutex implements one owner per device.
THEOREM Implements == Spec => ImplementsDeviceLock
  <1>1. Init => Promise!Init
    <2>1. SUFFICES ASSUME Init PROVE OwnerOf = [d \in Devices |-> NoOwner]
      BY DEF Promise!Init
    <2>2. \A o \in Owners, d \in Devices : ~(holders[o][d] > 0)
      BY <2>1 DEF Init, NoHolds
    <2> QED BY <2>2 DEF OwnerOf
  <1>2. IInv /\ IInv' /\ [Next]_vars => [Promise!Next]_OwnerOf
    BY StepImplements
  <1> QED BY <1>1, <1>2, AlwaysIInv, PTL DEF Spec, ImplementsDeviceLock, Promise!Spec

-----------------------------------------------------------------------------
(* The holder record, and the reclaim it lets the next owner report.       *)

\* A device a process died holding is counted by nobody until it is retaken.
DiedUncounted == \A d \in died, o \in Owners : holders[o][d] = 0

\* What the record says and whose device it is, inductive beside IInv.
RecordInv == DiedUncounted /\ HolderRecordExact

\* No record and no holder at the start.
LEMMA InitRecord == Init => RecordInv
  BY DEF Init, RecordInv, DiedUncounted, HolderRecordExact, NoHolds

\* `_drop` writes `released` where it ends the last hold, and nowhere else.
LEMMA LetGoRecord ==
  ASSUME IInv, RecordInv, NEW o \in Owners, NEW left \in [Devices -> 0..MaxHolders],
         \A d \in Devices : left[d] <= holders[o][d],
         LetGo(o, left), UNCHANGED died
  PROVE  RecordInv'
  <1> USE BenchAssumption
  <1>t. TypeOK /\ MutualExclusion /\ DiedUncounted /\ HolderRecordExact
    BY DEF IInv, RecordInv
  <1>1. PICK ok \in SUBSET Freed(o, left) : WriteHolder(Freed(o, left), ok, "released")
    BY DEF LetGo
  <1>2. holders' = [holders EXCEPT ![o] = left]
    BY DEF LetGo
  <1>3. \A p \in Owners, d \in Devices :
           holders'[p][d] = IF p = o THEN left[d] ELSE holders[p][d]
    BY <1>t, <1>2 DEF TypeOK
  <1>4. DiedUncounted'
    BY <1>t, <1>3 DEF DiedUncounted, TypeOK
  <1>5. ASSUME NEW d \in Devices, d \notin faulted'
        PROVE  holderFile'[d] = "held" <=> d \in died' \/ \E p \in Owners : holders'[p][d] > 0
    <2>1. CASE d \in Freed(o, left)
      <3>1. d \in ok /\ holderFile'[d] = "released"
        BY <1>1, <1>5, <2>1 DEF WriteHolder
      <3>2. holders[o][d] > 0 /\ left[d] = 0
        BY <2>1 DEF Freed
      <3>3. d \notin died
        BY <1>t, <3>2 DEF DiedUncounted
      <3>4. \A p \in Owners : ~(holders'[p][d] > 0)
        BY <1>t, <1>3, <3>2 DEF MutualExclusion
      <3> QED BY <3>1, <3>3, <3>4
    <2>2. CASE d \notin Freed(o, left)
      <3>1. d \notin faulted /\ holderFile'[d] = holderFile[d]
        BY <1>1, <1>5, <2>2 DEF WriteHolder
      <3>2. \A p \in Owners : holders'[p][d] > 0 <=> holders[p][d] > 0
        BY <1>t, <1>3, <2>2 DEF Freed, TypeOK
      <3> QED BY <1>t, <3>1, <3>2 DEF HolderRecordExact
    <2> QED BY <2>1, <2>2
  <1> QED BY <1>4, <1>5 DEF RecordInv, HolderRecordExact

\* The owner that registers a device writes its record, or a fault is noted.
LEMMA RegisterRecord ==
  ASSUME IInv, RecordInv, NEW o \in Owners, NEW d \in Devices, Register(o, d)
  PROVE  RecordInv'
  <1> USE BenchAssumption
  <1>t. TypeOK /\ DiedUncounted /\ HolderRecordExact
    BY DEF IInv, RecordInv
  <1>1. PICK readable \in BOOLEAN, writable \in BOOLEAN :
           /\ holderFile' = [holderFile EXCEPT ![d] = IF writable THEN "held" ELSE @]
           /\ faulted' = IF readable /\ writable THEN faulted \ {d} ELSE faulted \cup {d}
    BY DEF Register
  <1>2. died' = died \ {d} /\ holders' = [holders EXCEPT ![o][d] = @ + 1]
    BY DEF Register, Counted
  <1>3. \A p \in Owners, e \in Devices :
           holders'[p][e] = IF p = o /\ e = d THEN holders[o][d] + 1 ELSE holders[p][e]
    BY <1>t, <1>2 DEF TypeOK
  <1>4. DiedUncounted'
    BY <1>t, <1>2, <1>3 DEF DiedUncounted, TypeOK
  <1>5. ASSUME NEW e \in Devices, e \notin faulted'
        PROVE  holderFile'[e] = "held" <=> e \in died' \/ \E p \in Owners : holders'[p][e] > 0
    <2>1. CASE e = d
      <3>1. holderFile'[d] = "held"
        BY <1>t, <1>1, <1>5, <2>1 DEF TypeOK
      <3>2. holders'[o][d] > 0
        BY <1>t, <1>3 DEF TypeOK
      <3> QED BY <2>1, <3>1, <3>2
    <2>2. CASE e # d
      <3>1. e \notin faulted /\ holderFile'[e] = holderFile[e]
        BY <1>t, <1>1, <1>5, <2>2 DEF TypeOK
      <3>2. \A p \in Owners : holders'[p][e] = holders[p][e]
        BY <1>3, <2>2
      <3> QED BY <1>t, <1>2, <2>2, <3>1, <3>2 DEF HolderRecordExact
    <2> QED BY <2>1, <2>2
  <1> QED BY <1>4, <1>5 DEF RecordInv, HolderRecordExact

\* A heartbeat rewrites only records of devices this owner holds.
LEMMA HeartbeatRecord ==
  ASSUME IInv, RecordInv, NEW o \in Owners, Heartbeat(o)
  PROVE  RecordInv'
  <1> DEFINE held == {d \in Devices : holders[o][d] > 0}
  <1>t. DiedUncounted /\ HolderRecordExact
    BY DEF RecordInv
  <1>1. PICK ok \in SUBSET held : WriteHolder(held, ok, "held")
    BY DEF Heartbeat
  <1>2. UNCHANGED <<holders, died>>
    BY DEF Heartbeat
  <1>3. ASSUME NEW d \in Devices, d \notin faulted'
        PROVE  holderFile'[d] = "held" <=> d \in died' \/ \E p \in Owners : holders'[p][d] > 0
    <2>1. CASE d \in held
      BY <1>1, <1>2, <1>3, <2>1 DEF WriteHolder
    <2>2. CASE d \notin held
      BY <1>t, <1>1, <1>2, <1>3, <2>2 DEF WriteHolder, HolderRecordExact
    <2> QED BY <2>1, <2>2
  <1> QED BY <1>t, <1>2, <1>3 DEF RecordInv, DiedUncounted, HolderRecordExact

\* A process that dies leaves its records behind, and its devices among the died.
LEMMA CrashRecord ==
  ASSUME IInv, RecordInv, NEW o \in Owners, Crash(o)
  PROVE  RecordInv'
  <1> USE BenchAssumption
  <1>t. TypeOK /\ MutualExclusion /\ DiedUncounted /\ HolderRecordExact
    BY DEF IInv, RecordInv
  <1>1. /\ holders' = [holders EXCEPT ![o] = NoHolds]
        /\ died' = died \cup {d \in Devices : holders[o][d] > 0}
        /\ UNCHANGED <<holderFile, faulted>>
    BY DEF Crash
  <1>2. \A p \in Owners, d \in Devices :
           holders'[p][d] = IF p = o THEN 0 ELSE holders[p][d]
    BY <1>t, <1>1 DEF TypeOK, NoHolds
  <1>3. \A p \in Owners, d \in Devices : p # o /\ holders[o][d] > 0 => holders[p][d] = 0
    BY <1>t DEF MutualExclusion, TypeOK
  <1>4. DiedUncounted'
    <2>1. SUFFICES ASSUME NEW d \in died', NEW p \in Owners PROVE holders'[p][d] = 0
      BY DEF DiedUncounted
    <2>2. d \in Devices
      BY <1>t, <1>1 DEF TypeOK
    <2> QED BY <1>t, <1>1, <1>2, <1>3, <2>2 DEF DiedUncounted
  <1>5. HolderRecordExact'
    BY <1>t, <1>1, <1>2 DEF HolderRecordExact
  <1> QED BY <1>4, <1>5 DEF RecordInv

\* Every step keeps the holder records exact.
LEMMA NextRecord == IInv /\ RecordInv /\ [Next]_vars => RecordInv'
  <1> SUFFICES ASSUME IInv, RecordInv, [Next]_vars PROVE RecordInv'
    OBVIOUS
  <1> USE BenchAssumption
  <1>t. TypeOK /\ DiedUncounted /\ HolderRecordExact
    BY DEF IInv, RecordInv
  <1>1. ASSUME NEW o \in Owners, NEW d \in Devices, TakeAgain(o, d)
        PROVE  RecordInv'
    <2>1. /\ holders' = [holders EXCEPT ![o][d] = @ + 1] /\ holders[o][d] > 0
          /\ UNCHANGED <<holderFile, died, faulted>>
      BY <1>1 DEF TakeAgain, Counted
    <2>2. \A p \in Owners, e \in Devices :
             holders'[p][e] = IF p = o /\ e = d THEN holders[o][d] + 1 ELSE holders[p][e]
      BY <1>t, <2>1 DEF TypeOK
    <2>3. \A p \in Owners, e \in Devices : holders'[p][e] > 0 <=> holders[p][e] > 0
      BY <1>t, <2>1, <2>2 DEF TypeOK
    <2>4. DiedUncounted'
      BY <1>t, <2>1, <2>2 DEF DiedUncounted, TypeOK
    <2> QED BY <1>t, <2>1, <2>3, <2>4 DEF RecordInv, HolderRecordExact
  <1>2. ASSUME NEW o \in Owners, NEW left, left \in [Devices -> 0..MaxHolders],
               \A d \in Devices : left[d] <= holders[o][d], LetGo(o, left), UNCHANGED died
        PROVE  RecordInv'
    BY <1>2, LetGoRecord
  <1>3. ASSUME NEW o \in Owners, NEW d \in Devices, TakeRefused(o, d)
        PROVE  RecordInv'
    BY <1>t, <1>2, <1>3, DropCountsBound DEF TakeRefused
  <1>4. ASSUME NEW o \in Owners, NEW D \in SUBSET Devices, Release(o, D)
        PROVE  RecordInv'
    BY <1>t, <1>2, <1>4, DropCountsBound DEF Release
  <1>5. ASSUME NEW o \in Owners, ReleaseAll(o)
        PROVE  RecordInv'
    <2>1. NoHolds \in [Devices -> 0..MaxHolders] /\ \A e \in Devices : NoHolds[e] <= holders[o][e]
      BY <1>t DEF NoHolds, TypeOK
    <2> QED BY <1>2, <1>5, <2>1 DEF ReleaseAll
  <1>6. ASSUME UNCHANGED <<holders, holderFile, died, faulted>>
        PROVE  RecordInv'
    BY <1>t, <1>6 DEF RecordInv, DiedUncounted, HolderRecordExact
  <1>7. ASSUME NEW o \in Owners,
               \/ \E D \in SUBSET Devices, waits \in BOOLEAN : AcquireStart(o, D, waits)
               \/ \E d \in Devices : TakeLock(o, d)
               \/ Expire(o) \/ AskStop(o) \/ Restart(o)
        PROVE  RecordInv'
    <2>1. UNCHANGED <<holders, holderFile, died, faulted>>
      BY <1>7 DEF AcquireStart, TakeLock, Expire, AskStop, Restart
    <2> QED BY <1>6, <2>1
  <1>8. CASE UNCHANGED vars
    BY <1>6, <1>8 DEF vars
  <1> QED BY <1>1, <1>3, <1>4, <1>5, <1>7, <1>8, RegisterRecord, HeartbeatRecord, CrashRecord
          DEF Next, Take

\* The record and its history hold in every reachable state.
THEOREM AlwaysRecordInv == Spec => []RecordInv
  BY InitRecord, NextRecord, AlwaysIInv, PTL DEF Spec

\* Where no file operation failed, a holder record says `held` exactly while the
\* device is held or its last holder died with it: no contender is ever sent to
\* an owner that let go.
THEOREM RecordExact == Spec => []HolderRecordExact
  BY AlwaysRecordInv, PTL DEF RecordInv

\* Only registering a device raises its count from zero.
LEMMA FirstHoldRegisters ==
  ASSUME IInv, [Next]_vars, NEW o \in Owners, NEW d \in Devices,
         holders[o][d] = 0, holders'[o][d] > 0
  PROVE  Register(o, d)
  <1> USE BenchAssumption
  <1>t. TypeOK
    BY DEF IInv
  <1>1. ASSUME NEW p \in Owners, NEW e \in Devices, TakeAgain(p, e)
        PROVE  FALSE
    BY <1>t, <1>1 DEF TakeAgain, Counted, TypeOK
  <1>2. ASSUME NEW p \in Owners, NEW e \in Devices, Register(p, e)
        PROVE  p = o /\ e = d
    BY <1>t, <1>2 DEF Register, Counted, TypeOK
  <1>3. ASSUME NEW p \in Owners, NEW left, left \in [Devices -> 0..MaxHolders],
               \A e \in Devices : left[e] <= holders[p][e],
               holders' = [holders EXCEPT ![p] = left]
        PROVE  FALSE
    <2>1. CASE p = o
      <3>1. holders'[o][d] = left[d]
        BY <1>t, <1>3, <2>1 DEF TypeOK
      <3> QED BY <1>3, <2>1, <3>1
    <2>2. CASE p # o
      BY <1>t, <1>3, <2>2 DEF TypeOK
    <2> QED BY <2>1, <2>2
  <1>4. ASSUME NEW p \in Owners, NEW e \in Devices, TakeRefused(p, e)
        PROVE  FALSE
    BY <1>t, <1>3, <1>4, DropCountsBound DEF TakeRefused, LetGo
  <1>5. ASSUME NEW p \in Owners, NEW D \in SUBSET Devices, Release(p, D)
        PROVE  FALSE
    BY <1>t, <1>3, <1>5, DropCountsBound DEF Release, LetGo
  <1>6. ASSUME NEW p \in Owners, ReleaseAll(p) \/ Crash(p)
        PROVE  FALSE
    <2>1. NoHolds \in [Devices -> 0..MaxHolders] /\ \A e \in Devices : NoHolds[e] <= holders[p][e]
      BY <1>t DEF NoHolds, TypeOK
    <2> QED BY <1>3, <1>6, <2>1 DEF ReleaseAll, LetGo, Crash
  <1>7. ASSUME NEW p \in Owners,
               \/ \E D \in SUBSET Devices, waits \in BOOLEAN : AcquireStart(p, D, waits)
               \/ \E e \in Devices : TakeLock(p, e)
               \/ Expire(p) \/ AskStop(p) \/ Heartbeat(p) \/ Restart(p)
        PROVE  FALSE
    BY <1>7 DEF AcquireStart, TakeLock, Expire, AskStop, Heartbeat, Restart
  <1>8. ~UNCHANGED vars
    BY DEF vars
  <1> QED BY <1>1, <1>2, <1>4, <1>5, <1>6, <1>7, <1>8 DEF Next, Take

\* Whoever first holds a device after a process died with it reports the reclaim,
\* unless a file operation on its record failed.
THEOREM ReclaimsReported == Spec => ReclaimReported
  <1>1. ASSUME IInv, RecordInv, [Next]_vars, NEW o \in Owners, NEW d \in Devices,
               d \in died \ faulted, holders[o][d] = 0, holders'[o][d] > 0
        PROVE  d \in reclaimed'[o] \cup faulted'
    <2>t. TypeOK
      BY <1>1 DEF IInv
    <2>1. Register(o, d)
      BY <1>1, FirstHoldRegisters
    <2>2. SeesDeadOwner(d)
      BY <1>1 DEF RecordInv, HolderRecordExact, SeesDeadOwner
    <2>3. PICK readable \in BOOLEAN, writable \in BOOLEAN :
             /\ reclaimed' = [reclaimed EXCEPT ![o] =
                     IF readable /\ SeesDeadOwner(d) THEN @ \cup {d} ELSE @]
             /\ faulted' = IF readable /\ writable THEN faulted \ {d} ELSE faulted \cup {d}
      BY <2>1 DEF Register
    <2>4. CASE readable
      BY <2>t, <2>2, <2>3, <2>4 DEF TypeOK
    <2>5. CASE ~readable
      BY <2>3, <2>5
    <2> QED BY <2>4, <2>5
  <1>2. IInv /\ RecordInv /\ [Next]_vars =>
          [\A o \in Owners, d \in Devices :
             d \in died \ faulted /\ holders[o][d] = 0 /\ holders'[o][d] > 0
                 => d \in reclaimed'[o] \cup faulted']_vars
    BY <1>1
  <1> QED BY <1>2, AlwaysIInv, AlwaysRecordInv, PTL DEF Spec, ReclaimReported

-----------------------------------------------------------------------------
(* A debug session, whose lease is on one of these devices: the instance is *)
(* of DebugSession, the invariant follows the call, the stream and the core. *)
CONSTANTS Kinds, MaxAttempts, MaxCalls, MaxFaults
VARIABLES todo, pipe, last, calls, faults

Debug == INSTANCE DebugSession

Tools == {"none", "start", "set", "clear", "continue", "halt", "stop"}
Resting == {"none", "spawn", "ready", "removal", "pin", "end"}
Steps == Debug!Commands \cup Debug!StopWaits \cup Resting

SessionType == [status : {"none", "starting", "halted", "running", "error", "cleanup_required"},
                phase : Debug!BeforeConnect \cup {"not_started", "connect_started", "connected", "reset_started"},
                resets : BOOLEAN, reason : {"none", "stop", "debugger_error", "timeout"},
                breakpoints : BOOLEAN, unconfirmed : BOOLEAN]
CallType == [tool : Tools, step : Steps, res : Debug!Results, resets : BOOLEAN, halted : BOOLEAN,
             removed : BOOLEAN, pinned : BOOLEAN, attempts : Nat]
AnswerType == [tool : Tools, ok : BOOLEAN, effect : {"none", "unknown", "committed"}, safe : BOOLEAN]
LeaseType == [state : {"none", "active", "cleanup_required"}, why : SUBSET Debug!CleanupReasons]
OnItsWay == [command : Debug!Commands, live : BOOLEAN]
Output == [record : {"stop", "ok", "refused", "dropped"}, live : BOOLEAN]

SessionTyped ==
    /\ session \in SessionType /\ call \in CallType /\ answer \in AnswerType /\ lease \in LeaseType
    /\ todo \in Seq(OnItsWay) /\ pipe \in Seq(Output) /\ last \in BOOLEAN
    /\ server \in {"none", "up", "gone"} /\ gdb \in [up : BOOLEAN, linked : BOOLEAN]
    /\ core \in [halted : BOOLEAN, armed : BOOLEAN, guarded : BOOLEAN]
    /\ doubt \in BOOLEAN /\ reached \subseteq {"server", "gdb"}

StepsOf ==
    /\ call.tool = "none" => call = Debug!Idle
    /\ call.tool = "none" => call.step = "none"
    /\ call.tool = "start" => call.step \in {"spawn", "ready", "setup", "connect", "reset", "poll"}
    /\ call.tool = "set" => call.step = "insert"
    /\ call.tool = "clear" => call.step = "remove"
    /\ call.tool = "continue" => call.step \in {"continue", "stop", "interrupt", "halted"}
    /\ call.tool = "halt" => call.step \in {"interrupt", "halted"}
    /\ call.tool = "stop" => call.step \in {"interrupt", "halted", "removal", "remove", "pin", "guard", "end"}
    /\ call.res = "stop" => call.step \in Debug!StopWaits
    /\ call.res \in {"ok", "refused", "dropped"} => call.step \in Debug!Commands
    /\ call.step \in Resting => call.res = ""

LeaseReasoned == lease.why = {} <=> lease.state # "cleanup_required"

\* Where a call is, and what its session is there.
Places ==
    /\ LeaseReasoned
    /\ session.status = "none" => session = Debug!NoSession
    /\ call.tool = "start" => lease.state # "none"
    /\ call.tool = "start" /\ call.step = "spawn" => session.status = "none"
    /\ call.tool = "start" /\ call.step = "ready" => session.status = "starting" /\ session.phase = "server_spawned"
    /\ call.tool = "start" /\ call.step = "setup" => session.status = "starting" /\ session.phase = "server_ready"
    /\ call.tool = "start" /\ call.step = "connect" => session.status = "starting" /\ session.phase = "connect_started"
    /\ call.tool = "start" /\ call.step = "reset" => session.status = "starting" /\ session.phase = "reset_started"
    /\ call.tool = "start" /\ call.step = "poll" => session.status = "halted" /\ session.phase = "connected"
    /\ call.tool \in {"set", "clear", "continue", "halt"} => session.status \in {"halted", "running"}
    /\ call.tool = "stop" => session.status # "none"
    /\ session.status = "starting" => call.tool = "start" /\ ~session.breakpoints
    /\ session.status = "cleanup_required" => ~gdb.up /\ (call.tool = "stop" => call.step = "end")

\* Whose processes these are.
ProcessesNamed ==
    /\ session.status # "none" => lease.state # "none"
    /\ session.status = "none" => ~gdb.up /\ server # "up"
    /\ call.step = "ready" => ~gdb.up
    /\ ~gdb.up => ~gdb.linked

-----------------------------------------------------------------------------
(* The stream.  What is said of it depends on `pipe` alone or `todo` alone. *)

IsStop(r) == r.record = "stop"
LiveResult(r) == r.live /\ r.record # "stop"
LiveOk(r) == r.live /\ r.record = "ok"
NoStops == \A i \in DOMAIN pipe : ~IsStop(pipe[i])
OneStop == \A i, j \in DOMAIN pipe : IsStop(pipe[i]) /\ IsStop(pipe[j]) => i = j
Answering == \E i \in DOMAIN pipe : LiveResult(pipe[i])
OneAnswer == \A i, j \in DOMAIN pipe : LiveResult(pipe[i]) /\ LiveResult(pipe[j]) => i = j
Taken == \E i \in DOMAIN pipe : LiveOk(pipe[i])
StopsLive == \A i \in DOMAIN pipe : IsStop(pipe[i]) => pipe[i].live
\* A stop behind every result that is waited for.
NewStop(i) == i \in DOMAIN pipe /\ IsStop(pipe[i]) /\ \A j \in DOMAIN pipe : LiveResult(pipe[j]) => j < i
NewStops == \E i \in DOMAIN pipe : NewStop(i)
OneNewStop == \A i, j \in DOMAIN pipe : NewStop(i) /\ NewStop(j) => i = j
\* No stop is ahead of the result, and none is without one behind it.
StopsFollow == \A i, j \in DOMAIN pipe : LiveOk(pipe[i]) /\ IsStop(pipe[j]) => i < j
StopsLead == \A i \in DOMAIN pipe : IsStop(pipe[i]) => \E j \in DOMAIN pipe : i < j /\ LiveOk(pipe[j])

Writing(c) == \E i \in DOMAIN todo : todo[i].command = c
SetupOnly == \A i \in DOMAIN todo : todo[i].command = "setup"
\* A command is on its way that nobody waits for.
Late(c) == \E i \in DOMAIN todo : todo[i].command = c /\ ~todo[i].live
Alone == \A i, j \in DOMAIN todo : i = j
Awaiting == \E i \in DOMAIN todo : todo[i].live
AwaitedLast(c) == \A i \in DOMAIN todo : todo[i].live => i = Len(todo) /\ todo[i].command = c

\* One command is waited for, and it is the last one written.
OneAwaited ==
    /\ ~gdb.up => todo = <<>>
    /\ call.res = "dead" => ~gdb.up
    /\ AwaitedLast(call.step) /\ (Awaiting => call.res = "")
    /\ Answering => todo = <<>> /\ call.res = "" /\ call.step \in Debug!Commands
    /\ call.res \in {"ok", "refused", "dropped"} => todo = <<>>
    /\ OneAnswer /\ StopsLive

-----------------------------------------------------------------------------
\* A start that has not asked GDB to connect has not reached the target.
Untouched ==
    /\ call.tool = "start" /\ call.attempts = 0 /\ call.step \in {"spawn", "ready", "setup"} => "gdb" \notin reached
    /\ call.step = "setup" => SetupOnly
    /\ answer.tool = "start" /\ answer.effect = "none" /\ call.tool = "none" =>
          "gdb" \notin reached /\ ~gdb.up /\ session.status \in {"none", "cleanup_required"}

\* The session is one that a later answer may speak of the core for.
Trusted == ~doubt \/ call.tool = "start" \/ (session.status \in {"halted", "running"} /\ call.tool # "stop")

\* No command is on its way that nobody waits for and that lets the core run.
NoLateContinue ==
    Trusted /\ Writing("continue") => call.step = "continue" /\ (Late("continue") => call.res = "timeout")

\* A connect is written to a GDB that has not connected and has nothing else to do.
ConnectAlone ==
    Writing("connect") =>
        call.tool = "start" /\ call.step = "connect" /\ ~gdb.linked /\ Alone /\ (Late("connect") => call.res # "")

Quiet == core.halted /\ ~last /\ NoStops
Resuming == call.step = "continue" /\ (call.res = "ok" \/ Taken)
Lost == call.step = "continue" /\ call.res = "timeout"

\* A stop that was kept or is under way is the core's last one.  A GDB that has
\* not connected has seen none.
StopsFresh ==
    /\ gdb.up /\ ~gdb.linked => NoStops /\ ~last
    /\ Trusted /\ gdb.up /\ ~Lost /\ ~(Resuming /\ doubt) =>
          OneStop /\ (last => core.halted /\ NoStops) /\ (~NoStops => core.halted)
    /\ Trusted /\ gdb.up /\ Resuming => OneNewStop /\ (NewStops => core.halted)

\* Where nothing is open the code is right about the core.
HaltKnown ==
    /\ ~doubt /\ gdb.up /\ session.status = "halted" /\ call.tool \in {"none", "set", "clear"} => Quiet
    /\ ~doubt /\ gdb.up /\ call.step = "continue" /\ call.res = "" =>
          (Writing("continue") => Quiet) /\ (Taken => ~last /\ StopsFollow)
    /\ Trusted /\ gdb.up /\ call.res = "stop" /\ (call.step = "halted" \/ (call.step = "stop" /\ ~doubt)) => Quiet
    /\ session.status = "running" /\ call.tool \in {"none", "set", "clear", "halt"} => doubt
    /\ call.tool = "halt" => session.status = "running"

\* A start has the core halted from the connect on, and has met its stop.
StartHalts ==
    call.tool = "start" /\ gdb.up =>
        /\ gdb.linked => core.halted
        /\ call.step = "setup" => ~gdb.linked
        /\ call.step \in {"setup", "reset", "poll"} => NoStops
        /\ call.step = "connect" /\ call.res = "ok" => NoStops
        /\ call.step = "connect" /\ call.res = "" => StopsLead
        /\ call.step \in {"reset", "poll"} => gdb.linked
        /\ call.step = "connect" /\ (call.res = "ok" \/ Taken) => gdb.linked
        /\ call.step = "poll" => ~last
        /\ ~Writing("continue")

\* What a stop has proved.
StopProves ==
    call.tool = "stop" /\ call.halted /\ ~doubt =>
        /\ session.status = "cleanup_required" => ~session.unconfirmed
        /\ gdb.up /\ call.step \in {"removal", "remove", "pin", "guard"} => core.halted
        /\ call.step = "guard" /\ (call.res = "ok" \/ Taken) => core.halted /\ core.guarded
        /\ call.step = "end" /\ call.pinned => core.halted /\ (core.guarded \/ server # "up" \/ ~gdb.up)

\* Where the breakpoints are.
Disarmed == ~core.armed /\ ~Writing("insert")
BreakpointsKnown ==
    kind = "ended" =>
        /\ session.status # "none" /\ ~session.breakpoints /\ call.step # "insert" => Disarmed
        /\ call.tool = "start" /\ call.attempts # 0 => Disarmed
        /\ call.step = "insert" /\ ~session.breakpoints =>
              /\ core.armed => call.res \in {"ok", "timeout"} \/ Taken
              /\ Late("insert") => call.res = "timeout"
        /\ call.step = "remove" /\ (call.res = "ok" \/ Taken) => Disarmed
        /\ call.tool = "stop" /\ call.removed /\ call.step \in {"pin", "guard", "end"} /\ session.status # "cleanup_required" => Disarmed

\* A session left for its processes alone has what it claims, and so has the
\* answer that the session is over.
LeftProved ==
    session.status = "cleanup_required" /\ ~session.unconfirmed /\ ~doubt =>
        core.halted /\ (kind = "ended" => Disarmed)
EndProved == answer.tool = "stop" /\ answer.safe /\ call.tool = "none" =>
    /\ session = Debug!NoSession /\ ~gdb.up /\ server # "up"
    /\ ~doubt => core.halted /\ (kind = "ended" => ~core.armed)

DebugInv == /\ SessionTyped /\ StepsOf /\ Places /\ ProcessesNamed /\ Untouched /\ OneAwaited /\ NoLateContinue
        /\ ConnectAlone /\ StopsFresh
        /\ HaltKnown /\ StartHalts /\ StopProves /\ BreakpointsKnown /\ LeftProved /\ EndProved
-----------------------------------------------------------------------------
(* Types.                                                                   *)

LEMMA RefreshedTyped ==
    ASSUME SessionTyped
    PROVE  /\ Debug!Refreshed \in SessionType
           /\ Debug!Refreshed.status = (IF last THEN "halted" ELSE session.status)
           /\ Debug!Refreshed.phase = session.phase /\ Debug!Refreshed.breakpoints = session.breakpoints
           /\ Debug!Refreshed.unconfirmed = session.unconfirmed
  BY DEF SessionTyped, Debug!Refreshed, SessionType

LEMMA PoisonedTyped ==
    ASSUME NEW s \in SessionType
    PROVE  /\ Debug!Poisoned(s) \in SessionType
           /\ Debug!Poisoned(s).status = s.status /\ Debug!Poisoned(s).phase = s.phase /\ Debug!Poisoned(s).breakpoints = s.breakpoints
           /\ Debug!Poisoned(s).unconfirmed = s.unconfirmed
  BY DEF Debug!Poisoned, SessionType

LEMMA ResolvedTyped ==
    ASSUME SessionTyped, NEW r
    PROVE  /\ Debug!Resolved(r) \in LeaseType
           /\ lease.state # "none" => Debug!Resolved(r).state # "none"
           /\ LeaseReasoned => (Debug!Resolved(r).why = {} <=> Debug!Resolved(r).state # "cleanup_required")
  BY DEF Debug!Resolved, SessionTyped, LeaseType, LeaseReasoned

LEMMA HeldTyped ==
    ASSUME SessionTyped, NEW r \in Debug!CleanupReasons
    PROVE  Debug!Held(r) \in LeaseType /\ Debug!Held(r).state = "cleanup_required" /\ Debug!Held(r).why # {}
  BY DEF Debug!Held, SessionTyped, LeaseType

LEMMA IdleTyped ==
    /\ Debug!Idle \in CallType /\ Debug!Idle.tool = "none" /\ Debug!Idle.step = "none" /\ Debug!Idle.res = "" /\ Debug!Idle.attempts = 0
    /\ Debug!Idle.halted /\ Debug!Idle.removed /\ Debug!Idle.pinned
  BY DEF Debug!Idle, CallType, Tools, Steps, Resting, Debug!Results

LEMMA NoSessionTyped ==
    /\ Debug!NoSession \in SessionType /\ Debug!NoSession.status = "none" /\ ~Debug!NoSession.breakpoints /\ ~Debug!NoSession.unconfirmed
    /\ Debug!NoSession.phase = "not_started"
  BY DEF Debug!NoSession, SessionType, Debug!BeforeConnect

LEMMA NoLeaseTyped == Debug!NoLease \in LeaseType /\ Debug!NoLease.state = "none" /\ Debug!NoLease.why = {}
  BY DEF Debug!NoLease, LeaseType

\* A call that moves on.
LEMMA TurnsTyped ==
    ASSUME NEW k \in CallType, NEW s \in Steps, Debug!Turns(k, s)
    PROVE  /\ call' \in CallType /\ call'.tool = k.tool /\ call'.step = s /\ call'.res = "" /\ call'.attempts = k.attempts
           /\ call'.halted = k.halted /\ call'.removed = k.removed /\ call'.pinned = k.pinned
  BY DEF Debug!Turns, CallType, Debug!Results

LEMMA AnswersTyped ==
    ASSUME SessionTyped, LeaseReasoned, NEW k \in CallType, NEW ok \in BOOLEAN,
           NEW effect \in {"none", "unknown", "committed"}, NEW reason \in Debug!CleanupReasons, Debug!Answers(k, ok, effect, reason)
    PROVE  /\ call' = Debug!Idle /\ answer' \in AnswerType /\ answer'.tool = k.tool /\ ~answer'.safe /\ answer'.effect = effect
           /\ lease' \in LeaseType /\ LeaseReasoned' /\ (lease.state # "none" => lease'.state # "none")
           /\ doubt' \in BOOLEAN /\ (doubt' <=> doubt \/ effect = "unknown")
<1>1. k.tool \in Tools
  BY DEF CallType
<1>2. answer' \in AnswerType /\ answer'.tool = k.tool /\ ~answer'.safe /\ answer'.effect = effect
  BY <1>1 DEF Debug!Answers, AnswerType
<1>3. lease' \in LeaseType /\ LeaseReasoned' /\ (lease.state # "none" => lease'.state # "none")
  <2>1. CASE effect = "unknown"
    BY <2>1, HeldTyped DEF Debug!Answers, LeaseReasoned
  <2>2. CASE effect # "unknown"
    BY <2>2 DEF Debug!Answers, SessionTyped, LeaseReasoned
  <2> QED BY <2>1, <2>2
<1> QED BY <1>2, <1>3 DEF Debug!Answers, SessionTyped

LEMMA SettledTyped ==
    ASSUME SessionTyped, LeaseReasoned, NEW k \in CallType, NEW ok \in BOOLEAN, NEW fresh \in BOOLEAN, Debug!Settled(k, ok, fresh)
    PROVE  /\ call' = Debug!Idle /\ answer' \in AnswerType /\ answer'.tool = k.tool /\ ~answer'.safe /\ answer'.effect = "committed"
           /\ lease' \in LeaseType /\ LeaseReasoned' /\ (lease.state # "none" => lease'.state # "none")
           /\ doubt' \in BOOLEAN /\ (doubt' <=> doubt /\ ~fresh)
<1>1. k.tool \in Tools
  BY DEF CallType
<1>2. answer' \in AnswerType /\ answer'.tool = k.tool /\ ~answer'.safe /\ answer'.effect = "committed"
  BY <1>1 DEF Debug!Settled, AnswerType
<1>3. lease' \in LeaseType /\ LeaseReasoned' /\ (lease.state # "none" => lease'.state # "none")
  <2>1. CASE lease' = lease
    BY <2>1 DEF SessionTyped, LeaseReasoned
  <2>2. CASE lease' = Debug!Resolved("state")
    BY <2>2, ResolvedTyped DEF LeaseReasoned
  <2> QED BY <2>1, <2>2 DEF Debug!Settled
<1> QED BY <1>2, <1>3 DEF Debug!Settled, SessionTyped

LEMMA FailsTyped ==
    ASSUME SessionTyped, LeaseReasoned, NEW kept \in SessionType, NEW effect \in {"none", "unknown"}, Debug!FailsWith(effect, kept)
    PROVE  /\ call' = Debug!Idle /\ answer' \in AnswerType /\ answer'.tool = "start" /\ ~answer'.safe
           /\ (answer'.effect = "none" => call.attempts = 0 /\ effect = "none")
           /\ session' \in SessionType /\ (session' = Debug!NoSession => kept = Debug!NoSession /\ call.attempts = 0)
           /\ (session' = Debug!NoSession \/ session'.status = "cleanup_required" \/ session' = kept)
           /\ (session' # Debug!NoSession => doubt' /\ lease'.state # "none")
           /\ (session' = Debug!NoSession => (doubt' <=> doubt))
           /\ doubt' \in BOOLEAN /\ lease' \in LeaseType /\ LeaseReasoned'
           /\ (session' # Debug!NoSession /\ session' # kept => ~session'.breakpoints)
           /\ (session' # Debug!NoSession /\ kept = Debug!NoSession => call.attempts # 0)
<1> DEFINE dropped == [Debug!NoSession EXCEPT !.status = "cleanup_required", !.phase = "connect_started"]
           told == IF call.attempts > 0 THEN "unknown" ELSE effect
           left == IF kept = Debug!NoSession /\ call.attempts > 0 THEN dropped ELSE kept
<1>1. dropped \in SessionType /\ dropped.status = "cleanup_required" /\ ~dropped.breakpoints
  BY DEF Debug!NoSession, SessionType, Debug!BeforeConnect
<1>2. dropped # Debug!NoSession
  BY <1>1, NoSessionTyped
<1>3. call.attempts \in Nat
  BY DEF SessionTyped, CallType
<1>4. /\ session' = left /\ call' = Debug!Idle
      /\ answer' = [tool |-> "start", ok |-> FALSE, effect |-> told, safe |-> FALSE]
      /\ doubt' = (doubt \/ left # Debug!NoSession)
      /\ lease' = IF left # Debug!NoSession THEN Debug!Held("start") ELSE IF lease.state = "active" THEN Debug!NoLease ELSE lease
  BY DEF Debug!FailsWith
<1>5. told \in {"none", "unknown"} /\ (told = "none" => call.attempts = 0 /\ effect = "none")
  BY <1>3
<1>6. answer' \in AnswerType /\ answer'.tool = "start" /\ ~answer'.safe /\ answer'.effect = told
  BY <1>4, <1>5 DEF AnswerType, Tools
<1>7. /\ left \in SessionType /\ (left = Debug!NoSession => kept = Debug!NoSession /\ call.attempts = 0)
      /\ (left = dropped \/ left = kept) /\ (left # Debug!NoSession /\ kept = Debug!NoSession => call.attempts # 0)
  BY <1>1, <1>2, <1>3
<1>8. lease' \in LeaseType /\ LeaseReasoned' /\ (left # Debug!NoSession => lease'.state # "none")
  <2>1. CASE left # Debug!NoSession
    BY <1>4, <2>1, HeldTyped DEF LeaseReasoned, Debug!CleanupReasons
  <2>2. CASE left = Debug!NoSession /\ lease.state = "active"
    BY <1>4, <2>2, NoLeaseTyped DEF LeaseReasoned
  <2>3. CASE left = Debug!NoSession /\ lease.state # "active"
    BY <1>4, <2>3 DEF LeaseReasoned, SessionTyped
  <2> QED BY <2>1, <2>2, <2>3
<1> HIDE DEF dropped, told, left
<1> QED BY <1>1, <1>4, <1>5, <1>6, <1>7, <1>8 DEF SessionTyped

LEMMA CleanUpTyped ==
    ASSUME SessionTyped, NEW ended \in BOOLEAN, Debug!CleanUp(ended)
    PROVE  /\ server' = (IF ended THEN "gone" ELSE server) /\ server' \in {"none", "up", "gone"}
           /\ gdb' \in [up : BOOLEAN, linked : BOOLEAN] /\ ~gdb'.up /\ ~gdb'.linked
           /\ core' \in [halted : BOOLEAN, armed : BOOLEAN, guarded : BOOLEAN]
           /\ (core.halted /\ (core.guarded \/ server # "up" \/ ~gdb.linked) => core'.halted)
           /\ (~core.armed => ~core'.armed)
           /\ todo' = <<>> /\ pipe' = <<>> /\ last' = FALSE
           /\ todo' \in Seq(OnItsWay) /\ pipe' \in Seq(Output)
<1>1. gdb' = [up |-> FALSE, linked |-> FALSE] /\ todo' = <<>> /\ pipe' = <<>> /\ last' = FALSE
  BY DEF Debug!CleanUp
<1>2. gdb' \in [up : BOOLEAN, linked : BOOLEAN] /\ ~gdb'.up /\ ~gdb'.linked
  BY <1>1
<1>3. /\ core' \in [halted : BOOLEAN, armed : BOOLEAN, guarded : BOOLEAN]
      /\ (core.halted /\ (core.guarded \/ server # "up" \/ ~gdb.linked) => core'.halted)
      /\ (~core.armed => ~core'.armed)
  <2> core \in [halted : BOOLEAN, armed : BOOLEAN, guarded : BOOLEAN] /\ gdb \in [up : BOOLEAN, linked : BOOLEAN]
    BY DEF SessionTyped
  <2>1. CASE core' = core
    BY <2>1
  <2>2. CASE core' # core
    <3>1. PICK b \in BOOLEAN : core' = Debug!LetGo([core EXCEPT !.armed = b]) /\ (b => core.armed)
      BY <2>2 DEF Debug!CleanUp, Debug!Connected
    <3> QED BY <3>1 DEF Debug!LetGo
  <2> QED BY <2>1, <2>2
<1>4. server' = (IF ended THEN "gone" ELSE server) /\ server' \in {"none", "up", "gone"}
  BY DEF Debug!CleanUp, SessionTyped
<1> QED BY <1>1, <1>2, <1>3, <1>4

LEMMA AwaitTyped ==
    ASSUME SessionTyped, NEW k \in CallType, NEW wait \in Debug!StopWaits, Debug!Await(k, wait)
    PROVE  /\ call' \in CallType /\ call'.tool = k.tool /\ call'.step = wait /\ call'.attempts = k.attempts
           /\ call'.res = (IF last THEN "stop" ELSE "")
           /\ call'.halted = k.halted /\ call'.removed = k.removed /\ call'.pinned = k.pinned
           /\ last' = FALSE /\ UNCHANGED <<todo, pipe, server, gdb, core>>
<1>1. call' = [k EXCEPT !.step = wait, !.res = IF last THEN "stop" ELSE ""]
  BY DEF Debug!Await
<1>2. wait \in Steps /\ (IF last THEN "stop" ELSE "") \in Debug!Results
  BY DEF Steps, Debug!Results
<1>3. /\ call' \in CallType /\ call'.tool = k.tool /\ call'.step = wait /\ call'.attempts = k.attempts
      /\ call'.res = (IF last THEN "stop" ELSE "")
      /\ call'.halted = k.halted /\ call'.removed = k.removed /\ call'.pinned = k.pinned
  BY <1>1, <1>2 DEF CallType
<1> QED BY <1>3 DEF Debug!Await, Debug!target

-----------------------------------------------------------------------------
(* The stream.                                                              *)

SamePipe ==
    /\ NoStops' <=> NoStops
    /\ OneStop' <=> OneStop
    /\ Answering' <=> Answering
    /\ OneAnswer' <=> OneAnswer
    /\ Taken' <=> Taken
    /\ StopsLive' <=> StopsLive
    /\ NewStops' <=> NewStops
    /\ OneNewStop' <=> OneNewStop
    /\ StopsFollow' <=> StopsFollow
    /\ StopsLead' <=> StopsLead

LEMMA PipeStays == ASSUME pipe' = pipe PROVE SamePipe
<1>1. \A i : NewStop(i)' <=> NewStop(i)
  BY DEF NewStop
<1> QED
  BY <1>1 DEF SamePipe, NoStops, OneStop, Answering, OneAnswer, Taken, StopsLive, NewStops, OneNewStop, StopsFollow, StopsLead

SameTodo ==
    /\ \A c : Writing(c)' <=> Writing(c)
    /\ \A c : AwaitedLast(c)' <=> AwaitedLast(c)
    /\ SetupOnly' <=> SetupOnly
    /\ Awaiting' <=> Awaiting
    /\ \A c : Late(c)' <=> Late(c)
    /\ Alone' <=> Alone

LEMMA TodoStays == ASSUME todo' = todo PROVE SameTodo
  BY DEF SameTodo, Late, Alone, Writing, SetupOnly, Awaiting, AwaitedLast

\* An empty pipe, and nothing written.
Emptied ==
    /\ todo' = <<>> /\ pipe' = <<>> /\ last' = FALSE
    /\ NoStops' /\ OneStop' /\ ~Answering' /\ OneAnswer' /\ ~Taken' /\ StopsLive' /\ ~NewStops' /\ OneNewStop'
    /\ StopsFollow' /\ StopsLead'
    /\ SetupOnly' /\ ~Awaiting' /\ Alone'
    /\ \A c : ~Late(c)'
    /\ \A c : ~Writing(c)'
    /\ \A c : AwaitedLast(c)'

LEMMA StreamEmptied ==
    ASSUME todo' = <<>>, pipe' = <<>>, last' = FALSE
    PROVE  Emptied
  BY DEF Emptied, NoStops, OneStop, Answering, OneAnswer, Taken, StopsLive, NewStops, NewStop, OneNewStop, StopsFollow,
         StopsLead, SetupOnly, Awaiting, Late, Alone, AwaitedLast, Writing

LEMMA Elements ==
    ASSUME NEW S, NEW s \in Seq(S)
    PROVE  DOMAIN s = 1..Len(s) /\ Len(s) \in Nat /\ \A i \in DOMAIN s : s[i] \in S
<1>1. DOMAIN s = 1..Len(s) /\ Len(s) \in Nat
  BY LenProperties
<1> QED BY <1>1, ElementOfSeq

LEMMA NoElements == DOMAIN <<>> = {}
<1>1. <<>> \in Seq({}) /\ Len(<<>>) = 0
  BY EmptySeq
<1>2. DOMAIN <<>> = 1..Len(<<>>)
  BY <1>1, LenProperties
<1> QED BY <1>1, <1>2

LEMMA OkIsResult == Taken => Answering
  BY DEF Taken, Answering, LiveOk, LiveResult

\* Between two commands nothing is waited for.
LEMMA NothingAwaited ==
    ASSUME OneAwaited, call.res # "" \/ call.step \notin Debug!Commands
    PROVE  ~Answering /\ ~Taken /\ (~Awaiting \/ call.step \notin Debug!Commands)
  BY OkIsResult DEF OneAwaited

LEMMA NoneAwaited ==
    ASSUME OneAwaited, SessionTyped, call.res # "" \/ call.step \notin Debug!Commands
    PROVE  ~Awaiting /\ \A c : AwaitedLast(c)
<1>1. \A i \in DOMAIN todo : todo[i].command \in Debug!Commands
  <2>1. PICK q \in Seq(OnItsWay) : q = todo
    BY DEF SessionTyped
  <2>2. ASSUME NEW i \in DOMAIN q PROVE q[i] \in OnItsWay
    BY Elements
  <2> QED BY <2>1, <2>2 DEF OnItsWay
<1>2. ~Awaiting
  BY <1>1 DEF OneAwaited, Awaiting, AwaitedLast
<1> QED BY <1>2 DEF AwaitedLast, Awaiting

\* A sequence with one more element behind it, and without its first one.
LEMMA Lengthened ==
    ASSUME NEW S, NEW s \in Seq(S), NEW e \in S
    PROVE  /\ Append(s, e) \in Seq(S) /\ Len(Append(s, e)) = Len(s) + 1 /\ Append(s, e)[Len(s) + 1] = e
           /\ \A i : i \in DOMAIN Append(s, e) <=> i = Len(s) + 1 \/ i \in DOMAIN s
           /\ \A i \in DOMAIN s : Append(s, e)[i] = s[i] /\ i < Len(s) + 1
<1>1. PICK a : a = Append(s, e)
  OBVIOUS
<1>2. a \in Seq(S) /\ Len(a) = Len(s) + 1 /\ a[Len(s) + 1] = e /\ \A i \in 1..Len(s) : a[i] = s[i]
  BY <1>1, AppendProperties
<1>3. DOMAIN a = 1..(Len(s) + 1) /\ DOMAIN s = 1..Len(s) /\ Len(s) \in Nat
  BY <1>2
<1>4. \A i : i \in 1..(Len(s) + 1) <=> i = Len(s) + 1 \/ i \in 1..Len(s)
  BY <1>3
<1> QED BY <1>1, <1>2, <1>3, <1>4

LEMMA Shortened ==
    ASSUME NEW S, NEW s \in Seq(S), s # <<>>
    PROVE  /\ Tail(s) \in Seq(S) /\ Head(s) \in S /\ Head(s) = s[1] /\ 1 \in DOMAIN s /\ Len(Tail(s)) = Len(s) - 1 /\ Len(s) \in Nat
           /\ \A i \in DOMAIN s : i = 1 \/ (i - 1 \in DOMAIN Tail(s) /\ s[i] = Tail(s)[i - 1] /\ 1 < i)
           /\ \A i \in DOMAIN Tail(s) : i + 1 \in DOMAIN s /\ Tail(s)[i] = s[i + 1] /\ i \in Nat
<1>1. PICK t : t = Tail(s)
  OBVIOUS
<1>2. t \in Seq(S) /\ Head(s) \in S /\ Len(t) = Len(s) - 1 /\ \A i \in 1..Len(t) : t[i] = s[i + 1]
  BY <1>1, HeadTailProperties
<1>3. DOMAIN t = 1..(Len(s) - 1) /\ DOMAIN s = 1..Len(s) /\ Len(s) \in Nat /\ Len(s) # 0
  BY <1>2, EmptySeq
<1>4. Head(s) = s[1] /\ 1 \in DOMAIN s
  BY <1>3
<1>5. \A i \in 1..Len(s) : i = 1 \/ (i - 1 \in 1..(Len(s) - 1) /\ s[i] = t[i - 1] /\ 1 < i)
  BY <1>2, <1>3
<1>6. \A i \in 1..(Len(s) - 1) : i + 1 \in 1..Len(s) /\ t[i] = s[i + 1] /\ i \in Nat
  BY <1>2, <1>3
<1> QED BY <1>1, <1>2, <1>3, <1>4, <1>5, <1>6

\* A command is written, to a GDB that is there.
WrittenTo(c) ==
    /\ SamePipe /\ ~Taken /\ ~Answering
    /\ gdb.up => \A d : Writing(d)' <=> Writing(d) \/ d = c
    /\ ~gdb.up => \A d : Writing(d)' <=> Writing(d)
    /\ AwaitedLast(c)'
    /\ \A d : Late(d)' => Late(d)
    /\ \A d : Late(d) => Writing(d)
    /\ todo = <<>> => Alone'
    /\ Awaiting' => call'.res = ""
    /\ todo = <<>> /\ c = "setup" => SetupOnly'
    /\ ~gdb.up => todo' = todo

LEMMA OneMoreWritten ==
    ASSUME NEW q \in Seq(OnItsWay), NEW r \in OnItsWay
    PROVE  /\ Len(Append(q, r)) = Len(q) + 1
           /\ \A i : i \in DOMAIN Append(q, r) <=> i = Len(q) + 1 \/ i \in DOMAIN q
           /\ Append(q, r)[Len(q) + 1] = r /\ \A i \in DOMAIN q : Append(q, r)[i] = q[i]
  BY Lengthened

LEMMA AskTyped ==
    ASSUME SessionTyped, NEW k \in CallType, NEW c \in Debug!Commands, Debug!Ask(k, c)
    PROVE  /\ call' \in CallType /\ call'.tool = k.tool /\ call'.step = c /\ call'.attempts = k.attempts
           /\ call'.res = (IF gdb.up THEN "" ELSE "dead")
           /\ call'.halted = k.halted /\ call'.removed = k.removed /\ call'.pinned = k.pinned
           /\ todo' \in Seq(OnItsWay) /\ UNCHANGED <<pipe, server, gdb, core>>
<1>1. [command |-> c, live |-> TRUE] \in OnItsWay
  BY DEF OnItsWay
<1>2. todo' \in Seq(OnItsWay)
  BY <1>1 DEF SessionTyped, Debug!Ask
<1>3. /\ call' \in CallType /\ call'.tool = k.tool /\ call'.step = c /\ call'.attempts = k.attempts
      /\ call'.res = (IF gdb.up THEN "" ELSE "dead")
      /\ call'.halted = k.halted /\ call'.removed = k.removed /\ call'.pinned = k.pinned
  BY DEF Debug!Ask, CallType, Debug!Results, Steps
<1> QED BY <1>2, <1>3 DEF Debug!Ask, Debug!target

LEMMA AskAsks ==
    ASSUME SessionTyped, OneAwaited, call.res # "" \/ call.step \notin Debug!Commands,
           NEW k \in CallType, NEW c \in Debug!Commands, Debug!Ask(k, c)
    PROVE  WrittenTo(c)
<1>1. ~Answering /\ ~Taken /\ ~Awaiting
  BY NothingAwaited, NoneAwaited
<1>2. SamePipe /\ call'.res = (IF gdb.up THEN "" ELSE "dead")
  BY PipeStays, AskTyped DEF Debug!Ask
<1>3. CASE gdb.up
  <2>1. todo' = Append(todo, [command |-> c, live |-> TRUE])
    BY <1>3 DEF Debug!Ask
  <2>2. PICK r \in OnItsWay : r = [command |-> c, live |-> TRUE]
    BY DEF OnItsWay
  <2>3. todo \in Seq(OnItsWay) /\ todo' = Append(todo, r) /\ r.command = c /\ r.live
    BY <2>1, <2>2 DEF SessionTyped
  <2>4. PICK q \in Seq(OnItsWay), n \in Nat : q = todo /\ n = Len(q)
    <3>1. PICK q \in Seq(OnItsWay) : q = todo
      BY <2>3
    <3> QED BY <3>1, Elements
  <2>5. /\ Len(todo') = n + 1 /\ \A i : i \in DOMAIN todo' <=> i = n + 1 \/ i \in DOMAIN todo
        /\ todo'[n + 1] = r /\ \A i \in DOMAIN todo : todo'[i] = todo[i]
    <3>1. todo' = Append(q, r) /\ q \in Seq(OnItsWay) /\ r \in OnItsWay
      BY <2>2, <2>3, <2>4
    <3>2. /\ Len(Append(q, r)) = Len(q) + 1
          /\ \A i : i \in DOMAIN Append(q, r) <=> i = Len(q) + 1 \/ i \in DOMAIN q
          /\ Append(q, r)[Len(q) + 1] = r /\ \A i \in DOMAIN q : Append(q, r)[i] = q[i]
      BY <2>2, <2>4, OneMoreWritten
    <3> QED BY <2>4, <3>1, <3>2
  <2>6. \A d : Writing(d)' <=> Writing(d) \/ d = c
    BY <2>3, <2>5 DEF Writing
  <2>7. AwaitedLast(c)'
    BY <1>1, <2>3, <2>5 DEF AwaitedLast, Awaiting
  <2>8. todo = <<>> /\ c = "setup" => SetupOnly'
    <3> SUFFICES ASSUME todo = <<>>, c = "setup" PROVE SetupOnly'
      OBVIOUS
    <3>1. DOMAIN todo = {}
      BY NoElements
    <3> QED BY <2>3, <2>5, <3>1 DEF SetupOnly
  <2>9. (\A d : Late(d)' => Late(d)) /\ (\A d : Late(d) => Writing(d))
    BY <2>3, <2>5 DEF Late, Writing
  <2>10. todo = <<>> => Alone'
    <3> SUFFICES ASSUME todo = <<>> PROVE Alone'
      OBVIOUS
    <3>1. DOMAIN todo = {}
      BY NoElements
    <3>2. \A i : i \in DOMAIN todo' => i = n + 1
      BY <2>5, <3>1
    <3>3. \A i, j \in DOMAIN todo' : i = j
      BY <3>2
    <3> QED BY <3>3 DEF Alone
  <2> QED BY <1>1, <1>2, <1>3, <2>6, <2>7, <2>8, <2>9, <2>10 DEF WrittenTo
<1>4. CASE ~gdb.up
  <2>1. todo' = todo
    BY <1>4 DEF Debug!Ask
  <2>2. SameTodo
    BY <2>1, TodoStays
  <2>3. todo = <<>> => SetupOnly'
    <3> SUFFICES ASSUME todo = <<>> PROVE SetupOnly'
      OBVIOUS
    <3>1. todo' = <<>>
      BY <2>1
    <3>2. DOMAIN todo' = {}
      BY <3>1, NoElements
    <3> QED BY <3>2 DEF SetupOnly
  <2>4. (\A d : Late(d)' => Late(d)) /\ (\A d : Late(d) => Writing(d))
    BY <2>1 DEF Late, Writing
  <2>5. todo = <<>> => Alone'
    <3> SUFFICES ASSUME todo = <<>> PROVE Alone'
      OBVIOUS
    <3>1. todo' = <<>>
      BY <2>1
    <3>2. DOMAIN todo' = {}
      BY <3>1, NoElements
    <3> QED BY <3>2 DEF Alone
  <2> QED BY <1>1, <1>2, <1>4, <2>1, <2>2, <2>3, <2>4, <2>5, NoneAwaited DEF WrittenTo, SameTodo
<1> QED BY <1>3, <1>4

\* What is printed: a stop, a result, the stop and the result of a connect.
LEMMA Extended ==
    ASSUME NEW q \in Seq(Output), NEW e \in Output
    PROVE  \E n \in Nat : /\ DOMAIN q = 1..n /\ DOMAIN (q \o <<e>>) = 1..(n + 1) /\ (q \o <<e>>)[n + 1] = e
                          /\ \A i \in 1..n : (q \o <<e>>)[i] = q[i]
                          /\ q \o <<e>> \in Seq(Output)
<1>1. <<e>> \in Seq(Output) /\ Len(<<e>>) = 1 /\ <<e>>[1] = e
  OBVIOUS
<1>2. PICK o \in Seq(Output) : o = <<e>> /\ Len(o) = 1 /\ o[1] = e
  BY <1>1
<1>3. PICK c : c = q \o o
  OBVIOUS
<1>4. /\ c \in Seq(Output) /\ Len(c) = Len(q) + Len(o)
      /\ \A i \in 1..(Len(q) + Len(o)) : c[i] = IF i <= Len(q) THEN q[i] ELSE o[i - Len(q)]
  BY <1>2, <1>3, ConcatProperties
<1>5. PICK n \in Nat : n = Len(q)
  BY LenProperties
<1>6. DOMAIN q = 1..n /\ DOMAIN c = 1..(n + 1)
  BY <1>2, <1>4, <1>5, LenProperties
<1>7. c[n + 1] = e /\ \A i \in 1..n : c[i] = q[i]
  BY <1>2, <1>4, <1>5
<1> QED BY <1>2, <1>3, <1>4, <1>5, <1>6, <1>7

StopPrinted ==
    /\ ~NoStops' /\ (NoStops => OneStop')
    /\ Answering' <=> Answering
    /\ OneAnswer' <=> OneAnswer
    /\ Taken' <=> Taken
    /\ StopsLive => StopsLive'
    /\ NewStops' /\ (~NewStops => OneNewStop')
    /\ StopsFollow => StopsFollow'

LEMMA StopIsPrinted ==
    ASSUME SessionTyped, Debug!Printed(<<Debug!Stop>>)
    PROVE  StopPrinted /\ pipe' \in Seq(Output)
<1>1. PICK s \in Output : s = Debug!Stop /\ IsStop(s) /\ s.live
  <2>1. Debug!Stop \in Output /\ IsStop(Debug!Stop) /\ Debug!Stop.live
    BY DEF Debug!Stop, Output, IsStop
  <2> QED BY <2>1
<1>2. PICK q \in Seq(Output) : q = pipe
  BY DEF SessionTyped
<1>3. PICK n \in Nat : /\ DOMAIN q = 1..n /\ DOMAIN (q \o <<s>>) = 1..(n + 1) /\ (q \o <<s>>)[n + 1] = s
                       /\ \A i \in 1..n : (q \o <<s>>)[i] = q[i]
                       /\ q \o <<s>> \in Seq(Output)
  BY <1>1, <1>2, Extended
<1>4. pipe' = q \o <<s>>
  BY <1>1, <1>2 DEF Debug!Printed
<1>5. /\ DOMAIN pipe = 1..n /\ DOMAIN pipe' = 1..(n + 1) /\ pipe'[n + 1] = s
      /\ \A i \in 1..n : pipe'[i] = pipe[i]
  BY <1>2, <1>3, <1>4
<1>6. \A i : i \in 1..(n + 1) <=> i = n + 1 \/ i \in 1..n
  OBVIOUS
<1>7. n + 1 \notin 1..n /\ \A i \in 1..n : i < n + 1 /\ ~(n + 1 < i)
  OBVIOUS
<1>8. ~LiveResult(s) /\ ~LiveOk(s)
  BY <1>1 DEF IsStop, LiveResult, LiveOk
<1>9. /\ ~NoStops' /\ (NoStops => OneStop')
      /\ Answering' <=> Answering
      /\ OneAnswer' <=> OneAnswer
      /\ Taken' <=> Taken
      /\ StopsLive => StopsLive'
  BY <1>1, <1>5, <1>6, <1>7, <1>8 DEF NoStops, OneStop, Answering, OneAnswer, Taken, StopsLive
<1>10. StopsFollow => StopsFollow'
  BY <1>1, <1>5, <1>6, <1>7, <1>8 DEF StopsFollow
<1>11. NewStop(n + 1)' /\ \A i \in 1..n : NewStop(i)' => NewStop(i)
  BY <1>1, <1>5, <1>6, <1>7, <1>8 DEF NewStop
<1>12. \A i : NewStop(i)' => i = n + 1 \/ i \in 1..n
  BY <1>5, <1>6 DEF NewStop
<1>13. NewStops' /\ (~NewStops => OneNewStop')
  BY <1>5, <1>6, <1>11, <1>12 DEF NewStops, OneNewStop
<1> QED BY <1>3, <1>4, <1>9, <1>10, <1>13 DEF StopPrinted

\* A result nobody waits for any more, or the one result that is waited for.
ResultPrinted(class, live) ==
    /\ NoStops' <=> NoStops
    /\ OneStop' <=> OneStop
    /\ StopsLive => StopsLive'
    /\ StopsLead => StopsLead'
    /\ ~live => SamePipe
    /\ live /\ ~Answering =>
          /\ Answering' /\ OneAnswer' /\ ~NewStops' /\ OneNewStop' /\ (Taken' <=> class = "ok")
          /\ (NoStops => StopsFollow') /\ (class = "ok" => StopsLead')

LEMMA ResultIsPrinted ==
    ASSUME SessionTyped, NEW class \in {"ok", "refused", "dropped"}, NEW live \in BOOLEAN,
           Debug!Printed(<<[record |-> class, live |-> live]>>)
    PROVE  ResultPrinted(class, live) /\ pipe' \in Seq(Output)
<1>1. PICK s \in Output : s = [record |-> class, live |-> live] /\ ~IsStop(s) /\ s.live = live /\ s.record = class
  BY DEF Output, IsStop
<1>2. PICK q \in Seq(Output) : q = pipe
  BY DEF SessionTyped
<1>3. PICK n \in Nat : /\ DOMAIN q = 1..n /\ DOMAIN (q \o <<s>>) = 1..(n + 1) /\ (q \o <<s>>)[n + 1] = s
                       /\ \A i \in 1..n : (q \o <<s>>)[i] = q[i]
                       /\ q \o <<s>> \in Seq(Output)
  BY <1>1, <1>2, Extended
<1>4. pipe' = q \o <<s>>
  BY <1>1, <1>2 DEF Debug!Printed
<1>5. /\ DOMAIN pipe = 1..n /\ DOMAIN pipe' = 1..(n + 1) /\ pipe'[n + 1] = s
      /\ \A i \in 1..n : pipe'[i] = pipe[i]
  BY <1>2, <1>3, <1>4
<1>6. \A i : i \in 1..(n + 1) <=> i = n + 1 \/ i \in 1..n
  OBVIOUS
<1>7. n + 1 \notin 1..n /\ \A i \in 1..n : i < n + 1 /\ ~(n + 1 < i)
  OBVIOUS
<1>8. (LiveResult(s) <=> live) /\ (LiveOk(s) <=> live /\ class = "ok")
  BY <1>1 DEF IsStop, LiveResult, LiveOk
<1>9. /\ NoStops' <=> NoStops
      /\ OneStop' <=> OneStop
      /\ StopsLive => StopsLive'
  BY <1>1, <1>5, <1>6 DEF NoStops, OneStop, StopsLive
<1>10. StopsLead => StopsLead'
  BY <1>1, <1>5, <1>6 DEF StopsLead
<1>11. ASSUME ~live PROVE SamePipe
  <2>1. /\ Answering' <=> Answering
        /\ OneAnswer' <=> OneAnswer
        /\ Taken' <=> Taken
        /\ StopsLive' <=> StopsLive
    BY <1>1, <1>5, <1>6, <1>8, <1>11 DEF Answering, OneAnswer, Taken, StopsLive
  <2>2. StopsFollow' <=> StopsFollow
    BY <1>1, <1>5, <1>6, <1>8, <1>11 DEF StopsFollow
  <2>3. StopsLead' <=> StopsLead
    BY <1>1, <1>5, <1>6, <1>8, <1>11 DEF StopsLead
  <2>4. \A i : NewStop(i)' <=> NewStop(i)
    <3>1. \A i : i \in DOMAIN pipe' /\ IsStop(pipe'[i]) <=> i \in DOMAIN pipe /\ IsStop(pipe[i])
      BY <1>1, <1>5, <1>6
    <3>2. \A j : j \in DOMAIN pipe' /\ LiveResult(pipe'[j]) <=> j \in DOMAIN pipe /\ LiveResult(pipe[j])
      BY <1>5, <1>6, <1>8, <1>11
    <3> QED BY <3>1, <3>2 DEF NewStop
  <2>5. NewStops' <=> NewStops
    BY <1>5, <1>6, <2>4 DEF NewStops, NewStop
  <2>6. OneNewStop' <=> OneNewStop
    BY <1>5, <1>6, <2>4 DEF OneNewStop, NewStop
  <2> QED BY <1>9, <2>1, <2>2, <2>3, <2>5, <2>6 DEF SamePipe
<1>12. ASSUME live, ~Answering
       PROVE  /\ Answering' /\ OneAnswer' /\ ~NewStops' /\ OneNewStop' /\ (Taken' <=> class = "ok")
              /\ (NoStops => StopsFollow') /\ (class = "ok" => StopsLead')
  <2>1. \A i \in 1..n : ~LiveResult(pipe[i]) /\ ~LiveOk(pipe[i])
    BY <1>5, <1>12 DEF Answering, LiveOk, LiveResult
  <2>2. Answering' /\ OneAnswer' /\ (Taken' <=> class = "ok")
    BY <1>5, <1>6, <1>8, <1>12, <2>1 DEF Answering, OneAnswer, Taken
  <2>3. \A i : ~NewStop(i)'
    BY <1>1, <1>5, <1>6, <1>7, <1>8, <1>12 DEF NewStop
  <2>4. NoStops => StopsFollow'
    BY <1>1, <1>5, <1>6, <1>9 DEF StopsFollow, NoStops
  <2>5. class = "ok" => StopsLead'
    BY <1>1, <1>5, <1>6, <1>7, <1>8, <1>12 DEF StopsLead
  <2> QED BY <2>2, <2>3, <2>4, <2>5 DEF NewStops, OneNewStop
<1> QED BY <1>3, <1>4, <1>9, <1>10, <1>11, <1>12 DEF ResultPrinted

\* A connect prints its stop, then its result.
ConnectPrinted(live) ==
    /\ ~NoStops' /\ (NoStops => OneStop')
    /\ StopsLive => StopsLive'
    /\ ~live => /\ Answering' <=> Answering
                /\ OneAnswer' <=> OneAnswer
                /\ Taken' <=> Taken
    /\ live /\ ~Answering =>
          Answering' /\ OneAnswer' /\ Taken' /\ ~NewStops' /\ OneNewStop' /\ (NoStops => StopsLead')

LEMMA ConnectIsPrinted ==
    ASSUME SessionTyped, NEW live \in BOOLEAN, Debug!Printed(<<Debug!Stop, [record |-> "ok", live |-> live]>>)
    PROVE  ConnectPrinted(live) /\ pipe' \in Seq(Output)
<1>1. PICK s \in Output : s = [record |-> "ok", live |-> live] /\ ~IsStop(s) /\ s.live = live /\ s.record = "ok"
  BY DEF Output, IsStop
<1>2. PICK p \in Output : p = Debug!Stop /\ IsStop(p) /\ p.live
  <2>1. Debug!Stop \in Output /\ IsStop(Debug!Stop) /\ Debug!Stop.live
    BY DEF Debug!Stop, Output, IsStop
  <2> QED BY <2>1
<1>3. PICK q \in Seq(Output) : q = pipe
  BY DEF SessionTyped
<1>4. PICK o \in Seq(Output) : o = <<p, s>> /\ Len(o) = 2 /\ o[1] = p /\ o[2] = s
  <2>1. <<p, s>> \in Seq(Output)
    BY <1>1, <1>2
  <2> QED BY <2>1
<1>5. pipe' = q \o o
  BY <1>1, <1>2, <1>3, <1>4 DEF Debug!Printed
<1>6. /\ q \o o \in Seq(Output) /\ Len(q \o o) = Len(q) + Len(o)
      /\ \A i \in 1..(Len(q) + Len(o)) : (q \o o)[i] = IF i <= Len(q) THEN q[i] ELSE o[i - Len(q)]
  BY <1>3, <1>4, ConcatProperties
<1>7. PICK n \in Nat : n = Len(q)
  BY <1>3, LenProperties
<1>8. DOMAIN q = 1..n /\ DOMAIN (q \o o) = 1..(n + 2)
  BY <1>3, <1>4, <1>6, <1>7, LenProperties
<1>9. /\ DOMAIN pipe = 1..n /\ DOMAIN pipe' = 1..(n + 2) /\ pipe'[n + 1] = p /\ pipe'[n + 2] = s
      /\ \A i \in 1..n : pipe'[i] = pipe[i]
  <2>1. (q \o o)[n + 1] = p /\ (q \o o)[n + 2] = s /\ \A i \in 1..n : (q \o o)[i] = q[i]
    BY <1>4, <1>6, <1>7
  <2> QED BY <1>3, <1>5, <1>8, <2>1
<1>10. \A i : i \in 1..(n + 2) <=> i = n + 2 \/ i = n + 1 \/ i \in 1..n
  OBVIOUS
<1>11. /\ n + 1 \notin 1..n /\ n + 2 \notin 1..n /\ n + 1 < n + 2 /\ n + 1 # n + 2
       /\ \A i \in 1..n : i < n + 2 /\ ~(n + 1 < i)
  OBVIOUS
<1>12. (LiveResult(s) <=> live) /\ (LiveOk(s) <=> live) /\ ~LiveResult(p) /\ ~LiveOk(p)
  BY <1>1, <1>2 DEF IsStop, LiveResult, LiveOk
<1>13. /\ ~NoStops' /\ (NoStops => OneStop')
       /\ StopsLive => StopsLive'
  BY <1>1, <1>2, <1>9, <1>10 DEF NoStops, OneStop, StopsLive
<1>14. ASSUME ~live
       PROVE  /\ Answering' <=> Answering
              /\ OneAnswer' <=> OneAnswer
              /\ Taken' <=> Taken
  BY <1>9, <1>10, <1>12, <1>14 DEF Answering, OneAnswer, Taken
<1>15. ASSUME live, ~Answering
       PROVE  Answering' /\ OneAnswer' /\ Taken' /\ ~NewStops' /\ OneNewStop' /\ (NoStops => StopsLead')
  <2>1. \A i \in 1..n : ~LiveResult(pipe[i])
    BY <1>9, <1>15 DEF Answering
  <2>2. Answering' /\ OneAnswer' /\ Taken'
    BY <1>9, <1>10, <1>12, <1>15, <2>1 DEF Answering, OneAnswer, Taken
  <2>3. \A i : ~NewStop(i)'
    <3>1. ~(n + 2 < n + 1)
      OBVIOUS
    <3> QED BY <1>1, <1>9, <1>10, <1>11, <1>12, <1>15, <3>1 DEF NewStop
  <2>4. NoStops => StopsLead'
    BY <1>1, <1>9, <1>10, <1>11, <1>12, <1>15 DEF StopsLead, NoStops
  <2> QED BY <2>2, <2>3, <2>4 DEF NewStops, OneNewStop
<1> QED BY <1>5, <1>6, <1>13, <1>14, <1>15 DEF ConnectPrinted

-----------------------------------------------------------------------------
\* GDB takes a command.
CommandTaken ==
    /\ Head(todo) \in OnItsWay /\ todo' \in Seq(OnItsWay) /\ Writing(Head(todo).command)
    /\ \A c : Writing(c)' => Writing(c)
    /\ \A c : Late(c)' => Late(c)
    /\ ~Head(todo).live => Late(Head(todo).command)
    /\ Alone => \A c : ~Writing(c)'
    /\ SetupOnly => SetupOnly' /\ Head(todo).command = "setup"
    /\ \A c : AwaitedLast(c) => AwaitedLast(c)'
    /\ Awaiting' => Awaiting
    /\ \A c : AwaitedLast(c) /\ Head(todo).live => Awaiting /\ ~Awaiting' /\ todo' = <<>> /\ Head(todo).command = c

LEMMA CommandIsTaken ==
    ASSUME SessionTyped, todo # <<>>, todo' = Tail(todo)
    PROVE  CommandTaken
<1>1. PICK q \in Seq(OnItsWay) : q = todo
  BY DEF SessionTyped
<1>2. /\ Tail(q) \in Seq(OnItsWay) /\ Head(q) \in OnItsWay /\ Head(q) = q[1] /\ 1 \in DOMAIN q /\ Len(Tail(q)) = Len(q) - 1 /\ Len(q) \in Nat
      /\ \A i \in DOMAIN q : i = 1 \/ (i - 1 \in DOMAIN Tail(q) /\ q[i] = Tail(q)[i - 1] /\ 1 < i)
      /\ \A i \in DOMAIN Tail(q) : i + 1 \in DOMAIN q /\ Tail(q)[i] = q[i + 1] /\ i \in Nat
  BY <1>1, Shortened
<1>3. /\ todo' \in Seq(OnItsWay) /\ Head(todo) \in OnItsWay /\ Head(todo) = todo[1] /\ 1 \in DOMAIN todo
      /\ Len(todo') = Len(todo) - 1 /\ Len(todo) \in Nat
      /\ \A i \in DOMAIN todo' : i + 1 \in DOMAIN todo /\ todo'[i] = todo[i + 1] /\ i \in Nat
  BY <1>1, <1>2
<1>4. Writing(Head(todo).command) /\ \A c : Writing(c)' => Writing(c)
  BY <1>3 DEF Writing
<1>5. SetupOnly => SetupOnly' /\ Head(todo).command = "setup"
  BY <1>3 DEF SetupOnly
<1>6. Awaiting' => Awaiting
  BY <1>3 DEF Awaiting
<1>7. ASSUME NEW c, AwaitedLast(c) PROVE AwaitedLast(c)'
  <2> SUFFICES ASSUME NEW i \in DOMAIN todo', todo'[i].live PROVE i = Len(todo') /\ todo'[i].command = c
    BY DEF AwaitedLast
  <2>1. i + 1 = Len(todo) /\ todo[i + 1].command = c
    BY <1>3, <1>7 DEF AwaitedLast
  <2> QED BY <1>3, <2>1
<1>8. ASSUME NEW c, AwaitedLast(c), Head(todo).live
      PROVE  Awaiting /\ ~Awaiting' /\ todo' = <<>> /\ Head(todo).command = c
  <2>1. Len(todo) = 1 /\ Head(todo).command = c /\ Awaiting
    BY <1>3, <1>8 DEF AwaitedLast, Awaiting
  <2>2. todo' = <<>>
    <3>1. Len(todo') = 0
      BY <1>3, <2>1
    <3> QED BY <1>3, <3>1, EmptySeq
  <2>3. ~Awaiting'
    <3>1. DOMAIN todo' = {}
      BY <2>2, NoElements
    <3> QED BY <3>1 DEF Awaiting
  <2> QED BY <2>1, <2>2, <2>3
<1>9. (\A c : Late(c)' => Late(c)) /\ (~Head(todo).live => Late(Head(todo).command))
  BY <1>3 DEF Late
<1>10. Alone => \A c : ~Writing(c)'
  <2>1. \A i \in DOMAIN todo' : i + 1 # 1
    BY <1>3
  <2> QED BY <1>3, <2>1 DEF Alone, Writing
<1> QED BY <1>3, <1>4, <1>5, <1>6, <1>7, <1>8, <1>9, <1>10 DEF CommandTaken

\* The reader thread takes a record.
RecordRead ==
    /\ Head(pipe) \in Output /\ pipe' \in Seq(Output)
    /\ NoStops => NoStops' /\ ~IsStop(Head(pipe))
    /\ OneStop => OneStop' /\ (IsStop(Head(pipe)) => NoStops')
    /\ StopsLive => StopsLive' /\ (IsStop(Head(pipe)) => Head(pipe).live)
    /\ Answering' => Answering
    /\ LiveResult(Head(pipe)) => Answering
    /\ Taken' => Taken
    /\ LiveOk(Head(pipe)) => Taken
    /\ Taken => Taken' \/ LiveOk(Head(pipe))
    /\ OneAnswer => OneAnswer' /\ (LiveResult(Head(pipe)) => ~Answering')
    /\ NewStops' => NewStops
    /\ OneNewStop => OneNewStop' /\ (IsStop(Head(pipe)) /\ ~Answering => NewStops /\ ~NewStops')
    /\ StopsFollow => StopsFollow' /\ (IsStop(Head(pipe)) => ~Taken)
    /\ StopsLead /\ ~LiveOk(Head(pipe)) => StopsLead'
    /\ StopsLead /\ OneAnswer /\ LiveOk(Head(pipe)) => NoStops'

LEMMA RecordIsRead ==
    ASSUME SessionTyped, pipe # <<>>, pipe' = Tail(pipe)
    PROVE  RecordRead
<1>1. PICK q \in Seq(Output) : q = pipe
  BY DEF SessionTyped
<1>2. /\ Tail(q) \in Seq(Output) /\ Head(q) \in Output /\ Head(q) = q[1] /\ 1 \in DOMAIN q /\ Len(Tail(q)) = Len(q) - 1 /\ Len(q) \in Nat
      /\ \A i \in DOMAIN q : i = 1 \/ (i - 1 \in DOMAIN Tail(q) /\ q[i] = Tail(q)[i - 1] /\ 1 < i)
      /\ \A i \in DOMAIN Tail(q) : i + 1 \in DOMAIN q /\ Tail(q)[i] = q[i + 1] /\ i \in Nat
  BY <1>1, Shortened
<1>3. DOMAIN q \subseteq Nat
  BY <1>1, Elements
<1>4. PICK h : h = Head(pipe)
  OBVIOUS
<1>5. /\ pipe' \in Seq(Output) /\ h \in Output /\ h = pipe[1] /\ 1 \in DOMAIN pipe
      /\ \A i \in DOMAIN pipe' : i + 1 \in DOMAIN pipe /\ pipe'[i] = pipe[i + 1] /\ i \in Nat /\ i + 1 # 1 /\ 1 < i + 1 /\ ~(i + 1 < 1)
      /\ \A i \in DOMAIN pipe : i = 1 \/ \E j \in DOMAIN pipe' : i = j + 1
  <2>1. \A i \in DOMAIN pipe' : i + 1 \in DOMAIN pipe /\ pipe'[i] = pipe[i + 1] /\ i \in Nat
    BY <1>1, <1>2
  <2>2. \A i \in DOMAIN pipe' : i \in DOMAIN Tail(q)
    BY <1>1
  <2>3. \A i \in DOMAIN pipe' : i \in Nat /\ 0 < i
    BY <1>1, <1>2, <2>1, Elements
  <2>4. \A i \in DOMAIN pipe' : i + 1 # 1 /\ 1 < i + 1 /\ ~(i + 1 < 1)
    BY <2>3
  <2>5. \A i \in DOMAIN pipe : i = 1 \/ (i - 1 \in DOMAIN pipe' /\ i \in Nat)
    BY <1>1, <1>2, <1>3
  <2>6. \A i \in Nat : i = (i - 1) + 1
    OBVIOUS
  <2> QED BY <1>1, <1>2, <1>4, <2>1, <2>4, <2>5, <2>6
<1>6. \A i, j \in DOMAIN pipe' : i + 1 = j + 1 => i = j
  BY <1>5
<1>7. \A i, j \in DOMAIN pipe' : i + 1 < j + 1 <=> i < j
  BY <1>5
<1>8. /\ NoStops => NoStops' /\ ~IsStop(h)
      /\ StopsLive => StopsLive' /\ (IsStop(h) => h.live)
      /\ Answering' => Answering
      /\ LiveResult(h) => Answering
      /\ Taken' => Taken
      /\ LiveOk(h) => Taken
      /\ Taken => Taken' \/ LiveOk(h)
  BY <1>5 DEF NoStops, StopsLive, Answering, Taken
<1>9. OneStop => OneStop' /\ (IsStop(h) => NoStops')
  BY <1>5, <1>6 DEF OneStop, NoStops
<1>10. OneAnswer => OneAnswer' /\ (LiveResult(h) => ~Answering')
  BY <1>5, <1>6 DEF OneAnswer, Answering
<1>11. ASSUME NEW i \in DOMAIN pipe', NewStop(i)' PROVE NewStop(i + 1)
  <2> SUFFICES ASSUME NEW j \in DOMAIN pipe, LiveResult(pipe[j]) PROVE j < i + 1
    BY <1>5, <1>11 DEF NewStop
  <2>1. CASE j = 1
    BY <1>5, <2>1
  <2>2. CASE j # 1
    <3>1. PICK k \in DOMAIN pipe' : j = k + 1
      BY <1>5, <2>2
    <3>2. k < i
      BY <1>5, <1>11, <3>1 DEF NewStop
    <3> QED BY <1>7, <3>1, <3>2
  <2> QED BY <2>1, <2>2
<1>12. \A i : NewStop(i)' => i \in DOMAIN pipe'
  BY DEF NewStop
<1>13. NewStops' => NewStops
  BY <1>5, <1>11, <1>12 DEF NewStops
<1>14. IsStop(h) /\ ~Answering => NewStop(1)
  BY <1>5 DEF NewStop, Answering
<1>15. OneNewStop => OneNewStop' /\ (IsStop(h) /\ ~Answering => NewStops /\ ~NewStops')
  <2>1. OneNewStop => OneNewStop'
    BY <1>5, <1>6, <1>11, <1>12 DEF OneNewStop
  <2>2. OneNewStop /\ IsStop(h) /\ ~Answering => NewStops /\ ~NewStops'
    BY <1>5, <1>11, <1>12, <1>14 DEF OneNewStop, NewStops
  <2> QED BY <2>1, <2>2
<1>16. StopsFollow => StopsFollow'
  BY <1>5, <1>7 DEF StopsFollow
<1>17. StopsFollow /\ IsStop(h) => ~Taken
  <2> SUFFICES ASSUME StopsFollow, IsStop(h), NEW i \in DOMAIN pipe, LiveOk(pipe[i]) PROVE FALSE
    BY DEF Taken
  <2>1. i < 1
    BY <1>5 DEF StopsFollow
  <2> QED BY <1>1, <1>3, <1>5, <2>1, Elements
<1>18. StopsLead /\ ~LiveOk(h) => StopsLead'
  <2> SUFFICES ASSUME StopsLead, ~LiveOk(h), NEW i \in DOMAIN pipe', IsStop(pipe'[i])
               PROVE  \E j \in DOMAIN pipe' : i < j /\ LiveOk(pipe'[j])
    BY DEF StopsLead
  <2>1. PICK j \in DOMAIN pipe : i + 1 < j /\ LiveOk(pipe[j])
    BY <1>5 DEF StopsLead
  <2>2. PICK k \in DOMAIN pipe' : j = k + 1
    BY <1>5, <2>1
  <2> QED BY <1>5, <1>7, <2>1, <2>2
<1>19. StopsLead /\ OneAnswer /\ LiveOk(h) => NoStops'
  <2> SUFFICES ASSUME StopsLead, OneAnswer, LiveOk(h), NEW i \in DOMAIN pipe', IsStop(pipe'[i]) PROVE FALSE
    BY DEF NoStops
  <2>1. PICK j \in DOMAIN pipe : i + 1 < j /\ LiveOk(pipe[j])
    BY <1>5 DEF StopsLead
  <2>2. j = 1
    BY <1>5, <2>1 DEF OneAnswer, LiveOk, LiveResult
  <2> QED BY <1>5, <2>1, <2>2
<1> QED BY <1>4, <1>5, <1>8, <1>9, <1>10, <1>13, <1>15, <1>16, <1>17, <1>18, <1>19 DEF RecordRead

\* Nobody waits for what is under way any more.
Abandoned ==
    /\ todo' \in Seq(OnItsWay) /\ pipe' \in Seq(Output)
    /\ NoStops' <=> NoStops
    /\ OneStop' <=> OneStop
    /\ StopsLive => StopsLive'
    /\ ~Answering' /\ ~Taken' /\ OneAnswer' /\ ~Awaiting'
    /\ \A c : Writing(c)' <=> Writing(c)
    /\ SetupOnly' <=> SetupOnly
    /\ Alone' <=> Alone
    /\ \A c : AwaitedLast(c)'
    /\ \A c : Late(c)' => Writing(c)
    /\ todo = <<>> => todo' = <<>>

LEMMA FunctionIsSeq == \A S : \A k \in Nat : \A f \in [1..k -> S] : f \in Seq(S)
  BY SeqDef

LEMMA AllAbandoned ==
    ASSUME SessionTyped,
           todo' = [i \in DOMAIN todo |-> [todo[i] EXCEPT !.live = FALSE]],
           pipe' = [i \in DOMAIN pipe |-> [pipe[i] EXCEPT !.live = @ /\ pipe[i].record = "stop"]]
    PROVE  Abandoned
<1>1. PICK q \in Seq(OnItsWay) : q = todo
  BY DEF SessionTyped
<1>2. PICK o \in Seq(Output) : o = pipe
  BY DEF SessionTyped
<1>3. PICK m \in Nat : DOMAIN q = 1..m /\ \A i \in 1..m : q[i] \in OnItsWay
  BY <1>1, Elements
<1>4. PICK n \in Nat : DOMAIN o = 1..n /\ \A i \in 1..n : o[i] \in Output
  BY <1>2, Elements
<1>5. /\ DOMAIN todo = 1..m /\ DOMAIN todo' = 1..m
      /\ \A i \in 1..m : todo'[i] \in OnItsWay /\ todo'[i].command = todo[i].command /\ ~todo'[i].live
  BY <1>1, <1>3 DEF OnItsWay
<1>6. /\ DOMAIN pipe = 1..n /\ DOMAIN pipe' = 1..n
      /\ \A i \in 1..n : /\ pipe'[i] \in Output /\ pipe'[i].record = pipe[i].record
                         /\ (pipe'[i].live <=> pipe[i].live /\ pipe[i].record = "stop")
  BY <1>2, <1>4 DEF Output
<1>7. todo' \in Seq(OnItsWay) /\ pipe' \in Seq(Output)
  <2>1. todo' \in [1..m -> OnItsWay]
    <3>1. todo' = [i \in 1..m |-> todo'[i]]
      BY <1>5
    <3> QED BY <1>5, <3>1
  <2>2. pipe' \in [1..n -> Output]
    <3>1. pipe' = [i \in 1..n |-> pipe'[i]]
      BY <1>6
    <3> QED BY <1>6, <3>1
  <2> QED BY <2>1, <2>2, FunctionIsSeq
<1>8. \A i \in 1..n : (IsStop(pipe'[i]) <=> IsStop(pipe[i])) /\ ~LiveResult(pipe'[i]) /\ ~LiveOk(pipe'[i])
  BY <1>6 DEF IsStop, LiveResult, LiveOk
<1>9. /\ NoStops' <=> NoStops
      /\ OneStop' <=> OneStop
      /\ StopsLive => StopsLive'
      /\ ~Answering' /\ ~Taken' /\ OneAnswer'
  <2>1. NoStops' <=> NoStops
    BY <1>6, <1>8 DEF NoStops
  <2>4. OneStop' <=> OneStop
    <3>1. \A i : i \in DOMAIN pipe' /\ IsStop(pipe'[i]) <=> i \in DOMAIN pipe /\ IsStop(pipe[i])
      BY <1>6, <1>8
    <3> QED BY <3>1 DEF OneStop
  <2>2. ~Answering' /\ ~Taken' /\ OneAnswer'
    BY <1>6, <1>8 DEF Answering, Taken, OneAnswer
  <2>3. StopsLive => StopsLive'
    BY <1>6, <1>8 DEF StopsLive, IsStop
  <2> QED BY <2>1, <2>2, <2>3, <2>4
<1>10. /\ ~Awaiting'
       /\ \A c : Writing(c)' <=> Writing(c)
       /\ SetupOnly' <=> SetupOnly
       /\ Alone' <=> Alone
       /\ \A c : AwaitedLast(c)'
       /\ \A c : Late(c)' => Writing(c)
  BY <1>5 DEF Awaiting, Writing, SetupOnly, Alone, AwaitedLast, Late
<1>11. todo = <<>> => todo' = <<>>
  <2> SUFFICES ASSUME todo = <<>> PROVE todo' = <<>>
    OBVIOUS
  <2>1. DOMAIN todo' = {}
    BY <1>5, NoElements
  <2>2. Len(todo') = 0
    <3>1. PICK w \in Seq(OnItsWay) : w = todo'
      BY <1>7
    <3>2. DOMAIN w = 1..Len(w) /\ Len(w) \in Nat
      BY Elements
    <3>3. \A k \in Nat : 1..k = {} => k = 0
      <4>1. \A k \in Nat : k # 0 => 1 \in 1..k
        OBVIOUS
      <4> QED BY <4>1
    <3> QED BY <2>1, <3>1, <3>2, <3>3
  <2> QED BY <1>7, <2>2, EmptySeq
<1> QED BY <1>7, <1>9, <1>10, <1>11 DEF Abandoned

\* A GDB that is gone reads nothing any more.
TodoGone ==
    /\ SetupOnly' /\ ~Awaiting' /\ Alone'
    /\ \A c : ~Writing(c)' /\ ~Late(c)' /\ AwaitedLast(c)'

LEMMA TodoIsGone == ASSUME todo' = <<>> PROVE TodoGone
<1>1. DOMAIN todo' = {}
  BY NoElements
<1> QED BY <1>1 DEF TodoGone, SetupOnly, Awaiting, Late, Alone, Writing, AwaitedLast

\* A new GDB is written its setup.
SetupWritten ==
    /\ todo' \in Seq(OnItsWay) /\ pipe' \in Seq(Output) /\ pipe' = <<>>
    /\ NoStops' /\ OneStop' /\ ~Answering' /\ OneAnswer' /\ ~Taken' /\ StopsLive' /\ ~NewStops' /\ OneNewStop'
    /\ StopsFollow' /\ StopsLead' /\ SetupOnly'
    /\ \A c : Writing(c)' => c = "setup"
    /\ AwaitedLast("setup")' /\ \A c : ~Late(c)'

LEMMA SetupIsWritten ==
    ASSUME todo' = <<[command |-> "setup", live |-> TRUE]>>, pipe' = <<>>
    PROVE  SetupWritten
<1>1. DOMAIN pipe' = {}
  BY NoElements
<1>2. NoStops' /\ OneStop' /\ ~Answering' /\ OneAnswer' /\ ~Taken' /\ StopsLive' /\ ~NewStops' /\ OneNewStop' /\ StopsFollow' /\ StopsLead'
  BY <1>1 DEF NoStops, OneStop, Answering, OneAnswer, Taken, StopsLive, NewStops, NewStop, OneNewStop, StopsFollow, StopsLead
<1>3. PICK r \in OnItsWay : r = [command |-> "setup", live |-> TRUE] /\ r.command = "setup" /\ r.live
  <2>1. [command |-> "setup", live |-> TRUE] \in OnItsWay
    BY DEF OnItsWay, Debug!Commands
  <2> QED BY <2>1
<1>4. todo' = <<r>> /\ DOMAIN todo' = {1} /\ Len(todo') = 1 /\ todo'[1] = r
  BY <1>3
<1>5. todo' \in Seq(OnItsWay)
  BY <1>3, <1>4
<1>6. pipe' \in Seq(Output)
  BY EmptySeq
<1>7. SetupOnly' /\ (\A c : Writing(c)' => c = "setup") /\ AwaitedLast("setup")' /\ \A c : ~Late(c)'
  BY <1>3, <1>4 DEF SetupOnly, Writing, AwaitedLast, Late
<1> QED BY <1>2, <1>5, <1>6, <1>7 DEF SetupWritten

LEMMA NoStopsThen == NoStops => OneStop /\ StopsFollow /\ StopsLead /\ ~NewStops /\ OneNewStop
  BY DEF NoStops, OneStop, StopsFollow, StopsLead, NewStops, NewStop, OneNewStop

LEMMA NothingWritten == todo = <<>> => \A c : ~Writing(c)
<1>1. DOMAIN <<>> = {}
  BY NoElements
<1> QED BY <1>1 DEF Writing

LEMMA NothingAnswered == ~Answering => (NewStops <=> ~NoStops) /\ (OneNewStop <=> OneStop)
<1> SUFFICES ASSUME ~Answering PROVE (NewStops <=> ~NoStops) /\ (OneNewStop <=> OneStop)
  OBVIOUS
<1>1. \A i : NewStop(i) <=> i \in DOMAIN pipe /\ IsStop(pipe[i])
  BY DEF NewStop, Answering
<1> QED BY <1>1 DEF NewStops, OneNewStop, NoStops, OneStop

-----------------------------------------------------------------------------
(* The steps of GDB, its server and the core.                               *)

LEMMA CoreStopsKeeps ==
    ASSUME DebugInv, Debug!CoreStops
    PROVE  DebugInv'
<1>1. gdb.up /\ gdb.linked /\ server = "up" /\ ~core.halted
  BY DEF Debug!CoreStops, Debug!Connected
<1>2. /\ core' \in [halted : BOOLEAN, armed : BOOLEAN, guarded : BOOLEAN] /\ core'.halted
      /\ core'.armed = core.armed /\ core'.guarded = core.guarded
  BY DEF DebugInv, SessionTyped, Places, Debug!Results, Debug!CoreStops
<1>3. UNCHANGED <<kind, session, server, gdb, todo, last, call, lease, answer, doubt, reached>>
  BY DEF Debug!CoreStops, Debug!Printed, Debug!Stop, Debug!said
<1>4. StopPrinted /\ pipe' \in Seq(Output) /\ SameTodo
  BY StopIsPrinted, TodoStays DEF DebugInv, SessionTyped, Debug!CoreStops, Debug!stream
<1>5. SessionTyped'
  BY <1>1, <1>2, <1>3, <1>4 DEF DebugInv, SessionTyped
<1>6. StepsOf'
  BY <1>2, <1>3, <1>4 DEF DebugInv, SessionTyped, StepsOf
<1>7. Places'
  BY <1>2, <1>3, <1>4 DEF DebugInv, Places, LeaseReasoned
<1>8. ProcessesNamed'
  BY <1>2, <1>3, <1>4 DEF DebugInv, SessionTyped, ProcessesNamed
<1>9. Untouched'
  BY <1>2, <1>3, <1>4 DEF DebugInv, Untouched, SameTodo
<1>10. OneAwaited'
  BY <1>2, <1>3, <1>4 DEF DebugInv, OneAwaited, StopPrinted, SameTodo, Debug!StopWaits
<1>11. NoLateContinue'
  BY <1>3, <1>4 DEF DebugInv, NoLateContinue, Trusted, SameTodo
<1>12. ConnectAlone'
  BY <1>1, <1>4 DEF DebugInv, ConnectAlone, SameTodo
<1>13. StopsFresh'
  BY <1>1, <1>2, <1>3, <1>4 DEF DebugInv, StopsFresh, Places, Trusted, Resuming, Lost, Quiet, StopPrinted, SameTodo
<1>14. HaltKnown'
  BY <1>1, <1>2, <1>3, <1>4, IdleTyped, NoSessionTyped, NoLeaseTyped, NoStopsThen, NothingWritten,
     NothingAnswered DEF DebugInv, SessionTyped, StepsOf, HaltKnown, Places, ProcessesNamed, OneAwaited,
     NoLateContinue, StopsFresh, StartHalts, ConnectAlone, Trusted, Quiet, Resuming, Lost, StopPrinted,
     SameTodo, Debug!StopWaits, Debug!Commands, Resting
<1>15. StartHalts'
  BY <1>1, <1>2, <1>3, <1>4 DEF DebugInv, StartHalts, SameTodo
<1>16. StopProves'
  BY <1>1, <1>2, <1>3, <1>4 DEF DebugInv, StopProves, SameTodo
<1>17. BreakpointsKnown'
  BY <1>1, <1>2, <1>3, <1>4, IdleTyped, NoSessionTyped, NoLeaseTyped, NoStopsThen, NothingWritten,
     NothingAnswered DEF DebugInv, SessionTyped, StepsOf, BreakpointsKnown, Places, ProcessesNamed, OneAwaited,
     CallType, Debug!Results, Disarmed, StopPrinted, SameTodo, Debug!StopWaits, Debug!Commands, Resting
<1>18. LeftProved'
  BY <1>1, <1>2, <1>3, <1>4 DEF DebugInv, SessionTyped, LeftProved
<1>19. EndProved'
  BY <1>2, <1>3, <1>4 DEF DebugInv, SessionTyped, EndProved
<1> QED BY <1>5, <1>6, <1>7, <1>8, <1>9, <1>10, <1>11, <1>12, <1>13, <1>14, <1>15, <1>16, <1>17, <1>18, <1>19
      DEF DebugInv

LEMMA ServerHaltsKeeps ==
    ASSUME DebugInv, Debug!ServerHalts
    PROVE  DebugInv'
<1>1. call.tool = "start" /\ server = "up"
  BY DEF Debug!ServerHalts, Debug!stream
<1>2. /\ core' \in [halted : BOOLEAN, armed : BOOLEAN, guarded : BOOLEAN] /\ core'.halted
      /\ core'.armed = core.armed /\ core'.guarded = core.guarded
  BY DEF DebugInv, SessionTyped, Debug!ServerHalts, Debug!stream
<1>3. reached' = reached \cup {"server"}
  BY DEF Debug!ServerHalts, Debug!stream
<1>4. UNCHANGED <<kind, session, server, gdb, todo, pipe, last, call, lease, answer, doubt>>
  BY DEF Debug!ServerHalts, Debug!stream
<1>5. SamePipe /\ SameTodo
  BY <1>4, PipeStays, TodoStays
<1>6. SessionTyped'
  BY <1>2, <1>3, <1>4, <1>5 DEF DebugInv, SessionTyped
<1>7. StepsOf'
  BY <1>3, <1>4, <1>5 DEF DebugInv, SessionTyped, StepsOf
<1>8. Places'
  BY <1>3, <1>4, <1>5 DEF DebugInv, Places, LeaseReasoned
<1>9. ProcessesNamed'
  BY <1>3, <1>4, <1>5 DEF DebugInv, SessionTyped, ProcessesNamed
<1>10. Untouched'
  BY <1>2, <1>3, <1>4, <1>5 DEF DebugInv, Untouched, SamePipe, SameTodo
<1>11. OneAwaited'
  BY <1>3, <1>4, <1>5 DEF DebugInv, OneAwaited, SamePipe, SameTodo, Debug!Commands
<1>12. NoLateContinue'
  BY <1>3, <1>4, <1>5 DEF DebugInv, NoLateContinue, Trusted, SamePipe, SameTodo
<1>13. ConnectAlone'
  BY <1>4, <1>5 DEF DebugInv, ConnectAlone, SamePipe, SameTodo
<1>14. StopsFresh'
  BY <1>1, <1>2, <1>3, <1>4, <1>5 DEF DebugInv, StopsFresh, Trusted, Resuming, Lost, SamePipe, SameTodo
<1>15. HaltKnown'
  BY <1>2, <1>3, <1>4, <1>5 DEF DebugInv, HaltKnown, Trusted, Quiet, SamePipe, SameTodo
<1>16. StartHalts'
  BY <1>2, <1>3, <1>4, <1>5 DEF DebugInv, StartHalts, SamePipe, SameTodo
<1>17. StopProves'
  BY <1>1, <1>2, <1>3, <1>4 DEF SessionTyped, StopProves
<1>18. BreakpointsKnown'
  BY <1>2, <1>3, <1>4, <1>5 DEF DebugInv, BreakpointsKnown, Disarmed, SamePipe, SameTodo
<1>19. LeftProved'
  BY <1>2, <1>3, <1>4, <1>5 DEF DebugInv, LeftProved, Disarmed, SamePipe, SameTodo
<1>20. EndProved'
  BY <1>1, <1>2, <1>3, <1>4 DEF SessionTyped, EndProved
<1> QED BY <1>6, <1>7, <1>8, <1>9, <1>10, <1>11, <1>12, <1>13, <1>14, <1>15, <1>16, <1>17, <1>18, <1>19, <1>20
      DEF DebugInv

LEMMA ReadsKeeps ==
    ASSUME DebugInv, Debug!Reads
    PROVE  DebugInv'
<1>1. RecordRead /\ (IsStop(Head(pipe)) => Head(pipe).live)
  <2>1. RecordRead
    BY RecordIsRead DEF DebugInv, Debug!Reads
  <2> QED BY <2>1 DEF RecordRead, DebugInv, OneAwaited
<1>2. /\ Head(pipe) \in Output /\ (IsStop(Head(pipe)) <=> Head(pipe).record = "stop")
      /\ (LiveResult(Head(pipe)) <=> Head(pipe).live /\ Head(pipe).record # "stop")
  BY <1>1 DEF RecordRead, IsStop, LiveResult
<1>3. LiveResult(Head(pipe)) => call.res = "" /\ call.step \in Debug!Commands
  BY <1>1 DEF RecordRead, DebugInv, OneAwaited
<1>4. /\ IsStop(Head(pipe)) /\ call.res = "" /\ call.step \in Debug!StopWaits =>
            last' = last /\ call' = [call EXCEPT !.res = "stop"]
      /\ IsStop(Head(pipe)) /\ ~(call.res = "" /\ call.step \in Debug!StopWaits) => last' = TRUE /\ call' = call
      /\ LiveResult(Head(pipe)) => last' = last /\ call' = [call EXCEPT !.res = Head(pipe).record]
      /\ ~IsStop(Head(pipe)) /\ ~LiveResult(Head(pipe)) => last' = last /\ call' = call
  <2> last \in BOOLEAN
    BY DEF DebugInv, SessionTyped
  <2>1. CASE IsStop(Head(pipe))
    BY <1>1, <1>2, <2>1 DEF Debug!Reads
  <2>2. CASE ~IsStop(Head(pipe))
    BY <1>2, <1>3, <2>2 DEF Debug!Reads
  <2> QED BY <2>1, <2>2
<1>5. CASE IsStop(Head(pipe)) /\ call.res = "" /\ call.step \in Debug!StopWaits
  <2>1. /\ call' \in CallType /\ call'.res = "stop" /\ call'.tool = call.tool /\ call'.step = call.step
        /\ call'.attempts = call.attempts /\ call'.halted = call.halted /\ call'.removed = call.removed
        /\ call'.pinned = call.pinned
    <3>1. call \in CallType /\ Head(pipe).record \in Debug!Results /\ "stop" \in Debug!Results
      BY <1>2 DEF DebugInv, SessionTyped, Output, Debug!Results
    <3> QED BY <1>5, <1>4, <3>1 DEF CallType
  <2>2. last' = last
    BY <1>5, <1>4
  <2>3. UNCHANGED <<kind, session, server, gdb, core, todo, lease, answer, doubt, reached>>
    BY DEF Debug!Reads, Debug!StopWaits, Debug!target, Debug!said
  <2>4. RecordRead /\ SameTodo
    BY RecordIsRead, TodoStays DEF DebugInv, SessionTyped, Debug!Reads, Debug!stream
  <2>5. /\ IsStop(Head(pipe)) /\ call.res = "" /\ call.step \in Debug!StopWaits /\ ~Answering /\ ~Taken /\ ~Answering'
        /\ ~Taken' /\ ~Awaiting /\ ~Awaiting'
    <3>1. call.step \notin Debug!Commands
      BY <1>5 DEF Debug!Commands, Debug!StopWaits
    <3>2. ~Answering /\ ~Taken /\ ~Awaiting
      BY <3>1, NothingAwaited, NoneAwaited DEF DebugInv
    <3> QED BY <1>5, <2>4, <3>2 DEF RecordRead, SameTodo
  <2>6. SessionTyped'
    BY <2>1, <2>2, <2>3, <2>4 DEF DebugInv, SessionTyped, RecordRead, SameTodo
  <2>7. StepsOf'
    BY <1>5, <2>1, <2>2 DEF DebugInv, StepsOf, SameTodo, Debug!StopWaits, Debug!Commands, Resting
  <2>8. Places'
    BY <2>1, <2>2, <2>3, <2>4, <2>5 DEF DebugInv, Places, LeaseReasoned
  <2>9. ProcessesNamed'
    BY <1>5, <2>1, <2>2, <2>3 DEF DebugInv, ProcessesNamed
  <2>10. Untouched'
    BY <2>1, <2>2, <2>3, <2>4, <2>5 DEF DebugInv, Untouched, SameTodo
  <2>11. OneAwaited'
    BY <2>1, <2>2, <2>3, <2>4, <2>5 DEF DebugInv, OneAwaited, RecordRead, SameTodo, Debug!StopWaits
  <2>12. NoLateContinue'
    BY <2>1, <2>2, <2>3, <2>4, <2>5 DEF DebugInv, NoLateContinue, Trusted, SameTodo
  <2>13. ConnectAlone'
    BY <2>1, <2>2, <2>3, <2>4, <2>5 DEF DebugInv, ConnectAlone, SameTodo
  <2>14. StopsFresh'
    BY <1>5, <2>1, <2>2, <2>3, <2>4, <2>5 DEF DebugInv, SessionTyped, StepsOf, StopsFresh, ConnectAlone, Trusted,
       Resuming, Lost, Quiet, RecordRead
  <2>15. HaltKnown'
    BY <1>5, <2>1, <2>2, <2>3, <2>4, <2>5 DEF DebugInv, SessionTyped, StepsOf, HaltKnown, StopsFresh, StartHalts,
       ConnectAlone, Trusted, Quiet, Resuming, Lost, RecordRead
  <2>16. StartHalts'
    BY <1>5, <2>1, <2>2, <2>3, <2>4, <2>5 DEF DebugInv, SessionTyped, StepsOf, StartHalts, RecordRead, SameTodo
  <2>17. StopProves'
    BY <1>5, <2>1, <2>2, <2>3, <2>4, <2>5 DEF DebugInv, StopProves
  <2>18. BreakpointsKnown'
    BY <2>1, <2>2, <2>3, <2>4, <2>5 DEF DebugInv, BreakpointsKnown, Disarmed, SameTodo
  <2>19. LeftProved'
    BY <2>2, <2>3, <2>4, <2>5 DEF DebugInv, LeftProved, Disarmed, SameTodo
  <2>20. EndProved'
    BY <1>5, <2>1, <2>2, <2>3 DEF DebugInv, EndProved
  <2> QED BY <2>6, <2>7, <2>8, <2>9, <2>10, <2>11, <2>12, <2>13, <2>14, <2>15, <2>16, <2>17, <2>18, <2>19, <2>20
        DEF DebugInv
<1>6. CASE IsStop(Head(pipe)) /\ ~(call.res = "" /\ call.step \in Debug!StopWaits)
  <2>1. call' = call
    BY <1>6, <1>4
  <2>2. last' = TRUE
    BY <1>6, <1>4
  <2>3. UNCHANGED <<kind, session, server, gdb, core, todo, lease, answer, doubt, reached>>
    BY DEF Debug!Reads, Debug!StopWaits, Debug!target, Debug!said
  <2>4. RecordRead /\ SameTodo
    BY RecordIsRead, TodoStays DEF DebugInv, SessionTyped, Debug!Reads, Debug!stream
  <2>5. IsStop(Head(pipe)) /\ ~LiveOk(Head(pipe)) /\ (Taken' <=> Taken)
    BY <1>2, <1>6, <2>4 DEF RecordRead, IsStop, LiveOk
  <2>6. SessionTyped'
    BY <2>1, <2>2, <2>3, <2>4 DEF DebugInv, SessionTyped, RecordRead, SameTodo
  <2>7. StepsOf'
    BY <1>6, <2>1, <2>2 DEF DebugInv, SessionTyped, StepsOf
  <2>8. Places'
    BY <2>1, <2>2, <2>3, <2>4, <2>5 DEF DebugInv, Places, LeaseReasoned
  <2>9. ProcessesNamed'
    BY <1>6, <2>1, <2>2, <2>3 DEF DebugInv, ProcessesNamed
  <2>10. Untouched'
    BY <2>1, <2>2, <2>3, <2>4, <2>5 DEF DebugInv, Untouched, SameTodo
  <2>11. OneAwaited'
    BY <2>1, <2>2, <2>3, <2>4, <2>5 DEF DebugInv, OneAwaited, RecordRead, SameTodo, Debug!StopWaits
  <2>12. NoLateContinue'
    BY <2>1, <2>2, <2>3, <2>4, <2>5 DEF DebugInv, NoLateContinue, Trusted, SameTodo
  <2>13. ConnectAlone'
    BY <2>1, <2>2, <2>3, <2>4, <2>5 DEF DebugInv, ConnectAlone, SameTodo
  <2>14. StopsFresh'
    BY <1>6, <2>1, <2>2, <2>3, <2>4, <2>5 DEF DebugInv, SessionTyped, StepsOf, StopsFresh, ConnectAlone, Trusted,
       Resuming, Lost, Quiet, RecordRead
  <2>15. HaltKnown'
    BY <1>6, <2>1, <2>2, <2>3, <2>4, <2>5 DEF DebugInv, SessionTyped, StepsOf, HaltKnown, ConnectAlone, Trusted,
       Quiet, Resuming, Lost, RecordRead, SameTodo, Debug!StopWaits
  <2>16. StartHalts'
    BY <1>6, <2>1, <2>2, <2>3, <2>4, <2>5 DEF DebugInv, SessionTyped, StepsOf, StartHalts, RecordRead, SameTodo
  <2>17. StopProves'
    BY <1>6, <2>1, <2>2, <2>3, <2>4, <2>5 DEF DebugInv, StopProves
  <2>18. BreakpointsKnown'
    BY <2>1, <2>2, <2>3, <2>4, <2>5 DEF DebugInv, BreakpointsKnown, Disarmed, SameTodo
  <2>19. LeftProved'
    BY <2>2, <2>3, <2>4, <2>5 DEF DebugInv, LeftProved, Disarmed, SameTodo
  <2>20. EndProved'
    BY <1>6, <2>1, <2>2, <2>3 DEF DebugInv, EndProved
  <2> QED BY <2>6, <2>7, <2>8, <2>9, <2>10, <2>11, <2>12, <2>13, <2>14, <2>15, <2>16, <2>17, <2>18, <2>19, <2>20
        DEF DebugInv
<1>7. CASE LiveResult(Head(pipe))
  <2>1. call.res = "" /\ call.step \in Debug!Commands
    BY <1>7, <1>3
  <2>2. /\ call' \in CallType /\ call'.res = Head(pipe).record /\ call'.tool = call.tool
        /\ call'.step = call.step /\ call'.attempts = call.attempts /\ call'.halted = call.halted
        /\ call'.removed = call.removed /\ call'.pinned = call.pinned
    <3>1. call \in CallType /\ Head(pipe).record \in Debug!Results /\ "stop" \in Debug!Results
      BY <1>2 DEF DebugInv, SessionTyped, Output, Debug!Results
    <3> QED BY <1>7, <1>4, <3>1 DEF CallType
  <2>3. last' = last
    BY <1>7, <1>4
  <2>4. UNCHANGED <<kind, session, server, gdb, core, todo, lease, answer, doubt, reached>>
    BY DEF Debug!Reads, Debug!StopWaits, Debug!target, Debug!said
  <2>5. RecordRead /\ SameTodo
    BY RecordIsRead, TodoStays DEF DebugInv, SessionTyped, Debug!Reads, Debug!stream
  <2>6. /\ Head(pipe).record \in {"ok", "refused", "dropped"} /\ LiveResult(Head(pipe))
        /\ (LiveOk(Head(pipe)) <=> Head(pipe).record = "ok")
        /\ ~Answering' /\ ~Taken' /\ todo = <<>> /\ ~Awaiting' /\ Answering
        /\ (Taken => Head(pipe).record = "ok")
    <3>1. /\ Head(pipe).record \in {"ok", "refused", "dropped"}
          /\ (LiveOk(Head(pipe)) <=> Head(pipe).record = "ok")
          /\ ~Answering' /\ Answering
      BY <1>7, <1>2, <2>5 DEF DebugInv, OneAwaited, RecordRead, Output, LiveOk
    <3>2. ~Taken'
      BY <3>1 DEF Taken, Answering, LiveOk, LiveResult
    <3>3. todo = <<>>
      BY <3>1 DEF DebugInv, OneAwaited
    <3>4. ~Awaiting'
      BY <2>5, <3>3 DEF SameTodo, Awaiting
    <3> QED BY <1>7, <2>5, <3>1, <3>2, <3>3, <3>4 DEF RecordRead
  <2>7. SessionTyped'
    BY <2>2, <2>3, <2>4, <2>5 DEF DebugInv, SessionTyped, RecordRead, SameTodo
  <2>8. StepsOf'
    BY <2>1, <2>2, <2>5, <2>6 DEF DebugInv, StepsOf, Debug!Commands, Resting
  <2>9. Places'
    BY <2>2, <2>3, <2>4, <2>5, <2>6 DEF DebugInv, Places, LeaseReasoned
  <2>10. ProcessesNamed'
    BY <2>1, <2>2, <2>3, <2>4 DEF DebugInv, ProcessesNamed
  <2>11. Untouched'
    BY <2>2, <2>3, <2>4, <2>5, <2>6 DEF DebugInv, Untouched, SameTodo
  <2>12. OneAwaited'
    BY <2>2, <2>3, <2>4, <2>5, <2>6 DEF DebugInv, OneAwaited, RecordRead, SameTodo, Debug!StopWaits
  <2>13. NoLateContinue'
    BY <2>1, <2>2, <2>3, <2>4, <2>5, <2>6 DEF DebugInv, NoLateContinue, Trusted, SameTodo
  <2>14. ConnectAlone'
    BY <2>2, <2>3, <2>4, <2>5, <2>6 DEF DebugInv, ConnectAlone, SameTodo
  <2>15. StopsFresh'
    BY <1>7, <2>1, <2>2, <2>3, <2>4, <2>5, <2>6, IdleTyped, NoSessionTyped, NoLeaseTyped, NoStopsThen,
       NothingWritten, NothingAnswered DEF DebugInv, SessionTyped, StepsOf, StopsFresh, Places, ProcessesNamed,
       OneAwaited, NoLateContinue, StartHalts, HaltKnown, ConnectAlone, Trusted, Resuming, Lost, Quiet,
       RecordRead, SameTodo, Debug!StopWaits, Debug!Commands, Resting
  <2>16. HaltKnown'
    BY <1>7, <2>1, <2>2, <2>3, <2>4, <2>5, <2>6, IdleTyped, NoSessionTyped, NoLeaseTyped, NoStopsThen,
       NothingWritten, NothingAnswered DEF DebugInv, SessionTyped, StepsOf, HaltKnown, Places, ProcessesNamed,
       OneAwaited, NoLateContinue, StopsFresh, StartHalts, ConnectAlone, Trusted, Quiet, Resuming, Lost,
       RecordRead, SameTodo, Debug!StopWaits, Debug!Commands, Resting
  <2>17. StartHalts'
    BY <2>2, <2>3, <2>4, <2>5, <2>6 DEF DebugInv, StartHalts, Places, OneAwaited, StopsFresh, RecordRead, SameTodo
  <2>18. StopProves'
    BY <2>1, <2>2, <2>3, <2>4, <2>5, <2>6 DEF DebugInv, SessionTyped, StepsOf, StopProves, Disarmed, RecordRead
  <2>19. BreakpointsKnown'
    BY <2>1, <2>2, <2>3, <2>4, <2>5, <2>6 DEF DebugInv, BreakpointsKnown, Disarmed, SameTodo, RecordRead
  <2>20. LeftProved'
    BY <2>3, <2>4, <2>5, <2>6 DEF DebugInv, LeftProved, Disarmed, SameTodo
  <2>21. EndProved'
    BY <2>1, <2>2, <2>3, <2>4 DEF DebugInv, EndProved
  <2> QED BY <2>7, <2>8, <2>9, <2>10, <2>11, <2>12, <2>13, <2>14, <2>15, <2>16, <2>17, <2>18, <2>19, <2>20,
        <2>21 DEF DebugInv
<1>8. CASE ~IsStop(Head(pipe)) /\ ~LiveResult(Head(pipe))
  <2>1. call' = call
    BY <1>8, <1>4
  <2>2. last' = last
    BY <1>8, <1>4
  <2>3. UNCHANGED <<kind, session, server, gdb, core, todo, lease, answer, doubt, reached>>
    BY DEF Debug!Reads, Debug!StopWaits, Debug!target, Debug!said
  <2>4. RecordRead /\ SameTodo
    BY RecordIsRead, TodoStays DEF DebugInv, SessionTyped, Debug!Reads, Debug!stream
  <2>5. ~IsStop(Head(pipe)) /\ ~LiveResult(Head(pipe)) /\ ~LiveOk(Head(pipe)) /\ (Taken' <=> Taken)
    BY <1>2, <1>8, <2>4 DEF RecordRead, LiveOk, LiveResult
  <2>6. SessionTyped'
    BY <2>1, <2>2, <2>3, <2>4 DEF DebugInv, SessionTyped, RecordRead, SameTodo
  <2>7. StepsOf'
    BY <1>8, <2>1, <2>2 DEF DebugInv, SessionTyped, StepsOf
  <2>8. Places'
    BY <2>1, <2>2, <2>3, <2>4, <2>5 DEF DebugInv, Places, LeaseReasoned
  <2>9. ProcessesNamed'
    BY <1>8, <2>1, <2>2, <2>3 DEF DebugInv, ProcessesNamed
  <2>10. Untouched'
    BY <2>1, <2>2, <2>3, <2>4, <2>5 DEF DebugInv, Untouched, SameTodo
  <2>11. OneAwaited'
    BY <2>1, <2>2, <2>3, <2>4, <2>5 DEF DebugInv, OneAwaited, RecordRead, SameTodo, Debug!StopWaits
  <2>12. NoLateContinue'
    BY <2>1, <2>2, <2>3, <2>4, <2>5 DEF DebugInv, NoLateContinue, Trusted, SameTodo
  <2>13. ConnectAlone'
    BY <2>1, <2>2, <2>3, <2>4, <2>5 DEF DebugInv, ConnectAlone, SameTodo
  <2>14. StopsFresh'
    BY <1>8, <2>1, <2>2, <2>3, <2>4, <2>5, IdleTyped, NoSessionTyped, NoLeaseTyped, NoStopsThen, NothingWritten,
       NothingAnswered DEF DebugInv, SessionTyped, StepsOf, StopsFresh, Places, ProcessesNamed, OneAwaited,
       NoLateContinue, StartHalts, HaltKnown, ConnectAlone, Trusted, Resuming, Lost, Quiet, RecordRead,
       SameTodo, Debug!StopWaits, Debug!Commands, Resting
  <2>15. HaltKnown'
    BY <1>8, <2>1, <2>2, <2>3, <2>4, <2>5 DEF DebugInv, SessionTyped, StepsOf, HaltKnown, ConnectAlone, Trusted,
       Quiet, Resuming, Lost, RecordRead, SameTodo, Debug!StopWaits
  <2>16. StartHalts'
    BY <1>8, <2>1, <2>2, <2>3, <2>4, <2>5 DEF DebugInv, SessionTyped, StepsOf, StartHalts, RecordRead, SameTodo
  <2>17. StopProves'
    BY <1>8, <2>1, <2>2, <2>3, <2>4, <2>5 DEF DebugInv, StopProves
  <2>18. BreakpointsKnown'
    BY <2>1, <2>2, <2>3, <2>4, <2>5 DEF DebugInv, BreakpointsKnown, Disarmed, SameTodo
  <2>19. LeftProved'
    BY <2>2, <2>3, <2>4, <2>5 DEF DebugInv, LeftProved, Disarmed, SameTodo
  <2>20. EndProved'
    BY <1>8, <2>1, <2>2, <2>3 DEF DebugInv, EndProved
  <2> QED BY <2>6, <2>7, <2>8, <2>9, <2>10, <2>11, <2>12, <2>13, <2>14, <2>15, <2>16, <2>17, <2>18, <2>19, <2>20
        DEF DebugInv
<1> QED BY <1>5, <1>6, <1>7, <1>8

LEMMA GdbDiesKeeps ==
    ASSUME DebugInv, Debug!GdbDies
    PROVE  DebugInv'
<1>1. gdb.up
  BY DEF Debug!GdbDies
<1>2. gdb' \in [up : BOOLEAN, linked : BOOLEAN] /\ ~gdb'.up /\ ~gdb'.linked
  BY DEF Debug!GdbDies
<1>3. /\ core' \in [halted : BOOLEAN, armed : BOOLEAN, guarded : BOOLEAN] /\ (core'.halted => core.halted)
      /\ core'.armed = core.armed
  BY DEF DebugInv, SessionTyped, Resting, Debug!Results, Debug!GdbDies, Debug!LetGo, Debug!said
<1>4. (core.halted /\ (core.guarded \/ server # "up") => core'.halted) /\ core'.guarded = core.guarded
  BY DEF DebugInv, SessionTyped, Resting, Debug!Results, Debug!GdbDies, Debug!LetGo, Debug!said
<1>5. todo' = <<>>
  BY DEF Debug!GdbDies
<1>6. UNCHANGED <<kind, session, server, pipe, last, call, lease, answer, doubt, reached>>
  BY DEF Debug!GdbDies, Debug!LetGo, Debug!said
<1>7. SamePipe /\ TodoGone
  BY PipeStays, TodoIsGone DEF Debug!GdbDies, Debug!stream
<1>8. SessionTyped'
  BY <1>2, <1>3, <1>4, <1>5, <1>6, <1>7 DEF DebugInv, SessionTyped
<1>9. StepsOf'
  BY <1>6, <1>7 DEF DebugInv, SessionTyped, StepsOf
<1>10. Places'
  BY <1>1, <1>5, <1>6, <1>7 DEF DebugInv, Places, LeaseReasoned
<1>11. ProcessesNamed'
  BY <1>2, <1>3, <1>6, <1>7 DEF DebugInv, ProcessesNamed
<1>12. Untouched'
  BY <1>2, <1>6, <1>7 DEF DebugInv, Untouched, SamePipe, TodoGone, Debug!StopWaits
<1>13. OneAwaited'
  BY <1>1, <1>2, <1>5, <1>6, <1>7 DEF DebugInv, OneAwaited, SamePipe, TodoGone, Debug!StopWaits
<1>14. NoLateContinue'
  BY <1>7 DEF StepsOf, NoLateContinue, SamePipe, TodoGone
<1>15. ConnectAlone'
  BY <1>7 DEF DebugInv, ConnectAlone, StartHalts, SamePipe, TodoGone
<1>16. StopsFresh'
  BY <1>2, <1>3 DEF SessionTyped, StopsFresh
<1>17. HaltKnown'
  BY <1>2, <1>5, <1>6, <1>7 DEF DebugInv, SessionTyped, HaltKnown
<1>18. StartHalts'
  BY <1>1, <1>2 DEF DebugInv, StartHalts
<1>19. StopProves'
  BY <1>1, <1>2, <1>3, <1>4, <1>5, <1>6, <1>7 DEF DebugInv, StopProves, SamePipe
<1>20. BreakpointsKnown'
  BY <1>1, <1>2, <1>3, <1>4, <1>5, <1>6, <1>7, IdleTyped, NoSessionTyped, NoLeaseTyped, NoStopsThen,
     NothingWritten, NothingAnswered DEF DebugInv, SessionTyped, StepsOf, BreakpointsKnown, Places, ProcessesNamed,
     OneAwaited, CallType, Debug!Results, Disarmed, SamePipe, TodoGone, Debug!StopWaits, Debug!Commands, Resting
<1>21. LeftProved'
  BY <1>1, <1>5, <1>6, <1>7 DEF DebugInv, SessionTyped, StepsOf, LeftProved, Places, OneAwaited
<1>22. EndProved'
  BY <1>1, <1>6, <1>7 DEF DebugInv, EndProved
<1> QED BY <1>8, <1>9, <1>10, <1>11, <1>12, <1>13, <1>14, <1>15, <1>16, <1>17, <1>18, <1>19, <1>20, <1>21, <1>22
      DEF DebugInv

LEMMA ServerDiesKeeps ==
    ASSUME DebugInv, Debug!ServerDies
    PROVE  DebugInv'
<1>1. server = "up" /\ server' = "gone"
  BY DEF Debug!ServerDies
<1>2. UNCHANGED <<kind, session, gdb, core, todo, pipe, last, call, lease, answer, doubt, reached>>
  BY DEF Debug!ServerDies, Debug!stream, Debug!said
<1>3. SamePipe /\ SameTodo
  BY <1>1, <1>2, PipeStays, TodoStays
<1>4. SessionTyped'
  BY <1>1, <1>2, <1>3 DEF DebugInv, SessionTyped
<1>5. StepsOf'
  BY <1>1, <1>2, <1>3 DEF DebugInv, SessionTyped, StepsOf
<1>6. Places'
  BY <1>1, <1>2, <1>3 DEF DebugInv, Places, LeaseReasoned
<1>7. ProcessesNamed'
  BY <1>1, <1>2, <1>3 DEF DebugInv, SessionTyped, ProcessesNamed
<1>8. Untouched'
  BY <1>2, <1>3 DEF DebugInv, Untouched, SamePipe, SameTodo
<1>9. OneAwaited'
  BY <1>1, <1>2, <1>3 DEF DebugInv, OneAwaited, SamePipe, SameTodo, Debug!Commands
<1>10. NoLateContinue'
  BY <1>1, <1>2, <1>3 DEF DebugInv, NoLateContinue, Trusted, SamePipe, SameTodo
<1>11. ConnectAlone'
  BY <1>2, <1>3 DEF DebugInv, ConnectAlone, SamePipe, SameTodo
<1>12. StopsFresh'
  BY <1>2, <1>3 DEF DebugInv, StopsFresh, Trusted, Resuming, Lost, SamePipe, SameTodo
<1>13. HaltKnown'
  BY <1>2, <1>3 DEF DebugInv, HaltKnown, Trusted, Quiet, SamePipe, SameTodo
<1>14. StartHalts'
  BY <1>2, <1>3 DEF DebugInv, StartHalts, SamePipe, SameTodo
<1>15. StopProves'
  BY <1>1, <1>2, <1>3 DEF DebugInv, StopProves, SamePipe, SameTodo
<1>16. BreakpointsKnown'
  BY <1>1, <1>2, <1>3 DEF DebugInv, BreakpointsKnown, Disarmed, SamePipe, SameTodo
<1>17. LeftProved'
  BY <1>1, <1>2, <1>3 DEF DebugInv, LeftProved, Disarmed, SamePipe, SameTodo
<1>18. EndProved'
  BY <1>1, <1>2, <1>3 DEF DebugInv, SessionTyped, EndProved
<1> QED BY <1>4, <1>5, <1>6, <1>7, <1>8, <1>9, <1>10, <1>11, <1>12, <1>13, <1>14, <1>15, <1>16, <1>17, <1>18
      DEF DebugInv

LEMMA LearnsExitKeeps ==
    ASSUME DebugInv, Debug!LearnsExit
    PROVE  DebugInv'
<1>1. ~gdb.up /\ pipe = <<>> /\ call.res = "" /\ call.step \in Debug!Commands \cup Debug!StopWaits
  BY DEF Debug!LearnsExit, Debug!StopWaits
<1>2. /\ call' \in CallType /\ call'.res = "dead" /\ call'.tool = call.tool /\ call'.step = call.step
      /\ call'.attempts = call.attempts /\ call'.halted = call.halted /\ call'.removed = call.removed
      /\ call'.pinned = call.pinned
  BY DEF DebugInv, SessionTyped, SessionType, CallType, AnswerType, Debug!Results, Debug!LearnsExit, Debug!StopWaits
<1>3. UNCHANGED <<kind, session, server, gdb, core, todo, pipe, last, lease, answer, doubt, reached>>
  BY DEF Debug!StopWaits, Debug!LearnsExit, Debug!StopWaits, Debug!target, Debug!stream, Debug!said
<1>4. SamePipe /\ SameTodo
  BY <1>3, PipeStays, TodoStays
<1>5. ~Answering /\ ~Taken /\ ~Awaiting
  <2>1. todo = <<>>
    BY <1>1 DEF DebugInv, OneAwaited
  <2> QED BY <1>1, <1>2, <1>3, <2>1, NoElements DEF Answering, Taken, Awaiting
<1>6. SessionTyped'
  BY <1>1, <1>2, <1>3, <1>4 DEF DebugInv, SessionTyped
<1>7. StepsOf'
  BY <1>1, <1>2, <1>3, <1>4, <1>5, IdleTyped, NoSessionTyped, NoLeaseTyped, NoStopsThen, NothingWritten,
     NothingAnswered DEF DebugInv, SessionTyped, StepsOf, SamePipe, SameTodo, Debug!StopWaits, Debug!Commands, Resting
<1>8. Places'
  BY <1>1, <1>2, <1>3, <1>4, <1>5, IdleTyped, NoSessionTyped, NoLeaseTyped, NoStopsThen, NothingWritten,
     NothingAnswered DEF DebugInv, SessionTyped, StepsOf, Places, ProcessesNamed, LeaseReasoned, CallType, Debug!Results,
     SamePipe, SameTodo, Debug!StopWaits, Debug!Commands, Resting
<1>9. ProcessesNamed'
  BY <1>1, <1>2, <1>3, <1>4, <1>5 DEF DebugInv, SessionTyped, ProcessesNamed
<1>10. Untouched'
  BY <1>1, <1>2, <1>3, <1>4, <1>5, IdleTyped, NoSessionTyped, NoLeaseTyped, NoStopsThen, NothingWritten,
     NothingAnswered DEF DebugInv, SessionTyped, StepsOf, Untouched, Places, ProcessesNamed, OneAwaited, SamePipe,
     SameTodo, Debug!StopWaits, Debug!Commands, Resting, Debug!BeforeConnect
<1>11. OneAwaited'
  BY <1>1, <1>2, <1>3, <1>4, <1>5 DEF DebugInv, OneAwaited, SamePipe, SameTodo, Debug!Commands
<1>12. NoLateContinue'
  BY <1>1, <1>2, <1>3, <1>4, <1>5 DEF DebugInv, NoLateContinue, Trusted, SamePipe, SameTodo
<1>13. ConnectAlone'
  BY <1>2, <1>3, <1>4, <1>5 DEF DebugInv, ConnectAlone, SamePipe, SameTodo
<1>14. StopsFresh'
  BY <1>1, <1>2, <1>3, <1>4 DEF SessionTyped, StopsFresh
<1>15. HaltKnown'
  BY <1>1, <1>2, <1>3, <1>4, <1>5 DEF DebugInv, SessionTyped, HaltKnown
<1>16. StartHalts'
  BY <1>1, <1>2, <1>3, <1>4 DEF SessionTyped, StartHalts
<1>17. StopProves'
  BY <1>2, <1>3, <1>4, <1>5 DEF DebugInv, StopProves, SamePipe, SameTodo
<1>18. BreakpointsKnown'
  BY <1>1, <1>2, <1>3, <1>4, <1>5, IdleTyped, NoSessionTyped, NoLeaseTyped, NoStopsThen, NothingWritten,
     NothingAnswered DEF DebugInv, SessionTyped, StepsOf, BreakpointsKnown, Places, ProcessesNamed, OneAwaited,
     CallType, Debug!Results, Disarmed, SamePipe, SameTodo, Debug!StopWaits, Debug!Commands, Resting
<1>19. LeftProved'
  BY <1>3, <1>4, <1>5 DEF DebugInv, LeftProved, Disarmed, SamePipe, SameTodo
<1>20. EndProved'
  BY <1>1, <1>2, <1>3, <1>4, <1>5 DEF DebugInv, SessionTyped, EndProved
<1> QED BY <1>6, <1>7, <1>8, <1>9, <1>10, <1>11, <1>12, <1>13, <1>14, <1>15, <1>16, <1>17, <1>18, <1>19, <1>20
      DEF DebugInv

LEMMA GivesUpKeeps ==
    ASSUME DebugInv, Debug!GivesUp
    PROVE  DebugInv'
<1>1. call.res = "" /\ call.step \in Debug!Commands \cup Debug!StopWaits
  BY DEF Debug!Results, Debug!GivesUp
<1>2. /\ call' \in CallType /\ call'.res = "timeout" /\ call'.tool = call.tool /\ call'.step = call.step
      /\ call'.attempts = call.attempts /\ call'.halted = call.halted /\ call'.removed = call.removed
      /\ call'.pinned = call.pinned
  BY DEF DebugInv, SessionTyped, SessionType, CallType, Debug!Results, Debug!GivesUp
<1>3. UNCHANGED <<kind, session, server, gdb, core, last, lease, answer, doubt, reached>>
  BY DEF Debug!GivesUp, Debug!StopWaits, Debug!target, Debug!said
<1>4. Abandoned
  BY AllAbandoned DEF DebugInv, Debug!GivesUp, Debug!stream
<1>5. SessionTyped'
  BY <1>2, <1>3, <1>4 DEF DebugInv, SessionTyped, Abandoned
<1>6. StepsOf'
  BY <1>1, <1>2, <1>3, <1>4, IdleTyped, NoSessionTyped, NoLeaseTyped, NoStopsThen, NothingWritten,
     NothingAnswered DEF DebugInv, SessionTyped, StepsOf, Abandoned, Debug!StopWaits, Debug!Commands, Resting
<1>7. Places'
  BY <1>1, <1>2, <1>3, <1>4, IdleTyped, NoSessionTyped, NoLeaseTyped, NoStopsThen, NothingWritten,
     NothingAnswered DEF DebugInv, SessionTyped, StepsOf, Places, ProcessesNamed, LeaseReasoned, CallType, Debug!Results,
     Abandoned, Debug!StopWaits, Debug!Commands, Resting
<1>8. ProcessesNamed'
  BY <1>1, <1>2, <1>3, <1>4 DEF DebugInv, ProcessesNamed
<1>9. Untouched'
  BY <1>1, <1>2, <1>3, <1>4, IdleTyped, NoSessionTyped, NoLeaseTyped, NoStopsThen, NothingWritten,
     NothingAnswered DEF DebugInv, SessionTyped, StepsOf, Untouched, Places, ProcessesNamed, OneAwaited, Abandoned,
     Debug!StopWaits, Debug!Commands, Resting, Debug!BeforeConnect
<1>10. OneAwaited'
  BY <1>2, <1>3, <1>4 DEF DebugInv, OneAwaited, Abandoned
<1>11. NoLateContinue'
  BY <1>1, <1>2, <1>3, <1>4, IdleTyped, NoSessionTyped, NoLeaseTyped, NoStopsThen, NothingWritten,
     NothingAnswered DEF DebugInv, SessionTyped, StepsOf, NoLateContinue, Places, ProcessesNamed, OneAwaited,
     StartHalts, Trusted, Abandoned, Debug!StopWaits, Debug!Commands, Resting
<1>12. ConnectAlone'
  BY <1>1, <1>2, <1>3, <1>4 DEF DebugInv, SessionTyped, StepsOf, ConnectAlone, Abandoned, Debug!StopWaits
<1>13. StopsFresh'
  BY <1>1, <1>2, <1>3, <1>4, IdleTyped, NoSessionTyped, NoLeaseTyped, NoStopsThen, NothingWritten,
     NothingAnswered DEF DebugInv, SessionTyped, StepsOf, StopsFresh, Places, ProcessesNamed, OneAwaited,
     NoLateContinue, StartHalts, HaltKnown, ConnectAlone, Trusted, Resuming, Lost, Quiet, Abandoned, Debug!StopWaits,
     Debug!Commands, Resting
<1>14. HaltKnown'
  BY <1>1, <1>2, <1>3, <1>4, IdleTyped, NoSessionTyped, NoLeaseTyped, NoStopsThen, NothingWritten,
     NothingAnswered DEF DebugInv, SessionTyped, StepsOf, HaltKnown, Places, ProcessesNamed, OneAwaited,
     NoLateContinue, StopsFresh, StartHalts, ConnectAlone, Trusted, Quiet, Resuming, Lost, Abandoned, Debug!StopWaits,
     Debug!Commands, Resting
<1>15. StartHalts'
  BY <1>1, <1>2, <1>3, <1>4 DEF DebugInv, SessionTyped, StepsOf, StartHalts, Lost, Abandoned
<1>16. StopProves'
  BY <1>1, <1>2, <1>3, <1>4 DEF DebugInv, SessionTyped, StepsOf, StopProves, Disarmed, Abandoned
<1>17. BreakpointsKnown'
  BY <1>1, <1>2, <1>3, <1>4, IdleTyped, NoSessionTyped, NoLeaseTyped, NoStopsThen, NothingWritten,
     NothingAnswered DEF DebugInv, SessionTyped, StepsOf, BreakpointsKnown, Places, ProcessesNamed, OneAwaited,
     CallType, Debug!Results, Disarmed, Abandoned, Debug!StopWaits, Debug!Commands, Resting
<1>18. LeftProved'
  BY <1>3, <1>4 DEF DebugInv, SessionTyped, StepsOf, LeftProved, Disarmed, Trusted, Quiet, Abandoned
<1>19. EndProved'
  BY <1>1, <1>2, <1>3, <1>4 DEF DebugInv, EndProved
<1> QED BY <1>5, <1>6, <1>7, <1>8, <1>9, <1>10, <1>11, <1>12, <1>13, <1>14, <1>15, <1>16, <1>17, <1>18, <1>19
      DEF DebugInv

LEMMA TakesKeeps ==
    ASSUME DebugInv, NEW class \in {"ok", "refused", "dropped"}, Debug!Takes(class)
    PROVE  DebugInv'
<1>1. CommandTaken /\ gdb.up /\ todo # <<>>
  <2>1. gdb.up /\ todo # <<>> /\ todo' = Tail(todo)
    BY DEF Debug!Takes
  <2> QED BY <2>1, CommandIsTaken DEF DebugInv
<1>2. Head(todo).live \in BOOLEAN /\ Head(todo).command \in Debug!Commands
  BY <1>1 DEF CommandTaken, OnItsWay
<1>3. ~Answering /\ ~Taken
  BY <1>1, OkIsResult DEF DebugInv, OneAwaited
<1>4. Head(todo).live => Head(todo).command = call.step /\ call.res = "" /\ ~Awaiting' /\ todo' = <<>>
  BY <1>1 DEF DebugInv, OneAwaited, CommandTaken
<1>5. /\ core \in [halted : BOOLEAN, armed : BOOLEAN, guarded : BOOLEAN]
      /\ gdb \in [up : BOOLEAN, linked : BOOLEAN]
  BY DEF DebugInv, SessionTyped
<1>6. PICK c \in Debug!Commands : c = Head(todo).command
  BY <1>2
<1>7. PICK h \in BOOLEAN : h <=> c # "continue" /\ (core.halted \/ c \in {"connect", "reset"})
  OBVIOUS
<1>8. PICK a \in BOOLEAN : a <=> (core.armed \/ c = "insert") /\ c # "remove"
  OBVIOUS
<1>9. PICK g \in BOOLEAN : g <=> core.guarded \/ c = "guard"
  OBVIOUS
<1>10. class = "ok" => core' = [halted |-> h, armed |-> a, guarded |-> g]
  <2> SUFFICES ASSUME class = "ok" PROVE core' = [halted |-> h, armed |-> a, guarded |-> g]
    OBVIOUS
  <2>1. core' = [halted |-> CASE c \in {"connect", "reset"} -> TRUE [] c = "continue" -> FALSE [] OTHER -> core.halted,
                 armed |-> (core.armed \/ c = "insert") /\ c # "remove",
                 guarded |-> core.guarded \/ c = "guard"]
    BY <1>6 DEF Debug!Takes
  <2>2. h = (CASE c \in {"connect", "reset"} -> TRUE [] c = "continue" -> FALSE [] OTHER -> core.halted)
    BY <1>5, <1>7
  <2>3. a = ((core.armed \/ c = "insert") /\ c # "remove") /\ g = (core.guarded \/ c = "guard")
    BY <1>8, <1>9
  <2> QED BY <2>1, <2>2, <2>3
<1>11. reached' \subseteq {"server", "gdb"} /\ (c = "setup" => reached' = reached)
  BY <1>6 DEF Debug!Takes, DebugInv, SessionTyped
<1>12. CASE class # "ok"
  <2>1. gdb.up /\ todo # <<>> /\ gdb' = gdb /\ core' = core
    BY <1>12, <1>1, <1>5 DEF Debug!Takes
  <2>2. reached' \subseteq {"server", "gdb"} /\ (Head(todo).command = "setup" => reached' = reached)
    BY <1>6, <1>11
  <2>3. UNCHANGED <<kind, session, server, last, call, lease, answer, doubt>>
    BY <1>1 DEF Debug!Takes
  <2>4. CommandTaken /\ ResultPrinted(class, Head(todo).live) /\ pipe' \in Seq(Output)
    <3>1. Debug!Printed(<<[record |-> class, live |-> Head(todo).live]>>)
      BY <1>12 DEF Debug!Takes
    <3> QED BY <1>1, <1>2, <3>1, ResultIsPrinted DEF DebugInv
  <2>5. /\ ~Answering /\ ~Taken /\ Head(todo).live \in BOOLEAN /\ Head(todo).command \in Debug!Commands
        /\ Head(todo).live => Head(todo).command = call.step /\ call.res = "" /\ ~Awaiting' /\ todo' = <<>>
    BY <1>2, <1>3, <1>4
  <2>6. SessionTyped'
    BY <2>1, <2>2, <2>3, <2>4 DEF DebugInv, SessionTyped, CommandTaken
  <2>7. StepsOf'
    BY <2>3, <2>4, <2>5 DEF DebugInv, SessionTyped, StepsOf
  <2>8. Places'
    BY <1>1, <1>2, <2>3, <2>4, <2>5 DEF DebugInv, Places, LeaseReasoned
  <2>9. ProcessesNamed'
    BY <1>4, <2>1, <2>2, <2>3 DEF DebugInv, ProcessesNamed
  <2>10. Untouched'
    BY <1>12, <1>1, <2>2, <2>3 DEF DebugInv, SessionTyped, StepsOf, Untouched, Places, ProcessesNamed, OneAwaited,
       CommandTaken
  <2>11. OneAwaited'
    BY <2>1, <2>2, <2>3, <2>4, <2>5 DEF DebugInv, OneAwaited, CommandTaken, ResultPrinted, SamePipe
  <2>12. NoLateContinue'
    BY <2>3, <2>4, <2>5 DEF DebugInv, SessionTyped, StepsOf, NoLateContinue, Trusted, CommandTaken
  <2>13. ConnectAlone'
    BY <2>4, <2>5 DEF DebugInv, SessionTyped, StepsOf, ConnectAlone, Places, CommandTaken
  <2>14. StopsFresh'
    BY <2>1, <2>2, <2>3, <2>4, <2>5 DEF DebugInv, StopsFresh, Places, Trusted, Resuming, Lost, Quiet, CommandTaken,
       ResultPrinted, SamePipe, Debug!StopWaits
  <2>15. HaltKnown'
    BY <2>1, <2>2, <2>3, <2>4, <2>5 DEF DebugInv, HaltKnown, Places, Trusted, Quiet, CommandTaken, ResultPrinted,
       SamePipe, Debug!StopWaits, Debug!Commands, Resting
  <2>16. StartHalts'
    BY <1>12, <1>1, <2>1, <2>2, <2>3, <2>4, <2>5 DEF DebugInv, StartHalts, Lost, CommandTaken, ResultPrinted,
       SamePipe, Debug!StopWaits
  <2>17. StopProves'
    BY <1>12, <1>4, <2>1, <2>2, <2>3, <2>4, <2>5 DEF DebugInv, SessionTyped, StepsOf, StopProves, CommandTaken,
       ResultPrinted, SamePipe, Debug!StopWaits
  <2>18. BreakpointsKnown'
    BY <1>12, <1>4, <2>1, <2>2, <2>3, <2>4, <2>5 DEF DebugInv, SessionTyped, StepsOf, BreakpointsKnown, Debug!Results,
       Disarmed, CommandTaken, ResultPrinted, SamePipe, Debug!StopWaits
  <2>19. LeftProved'
    BY <1>1, <1>2, <2>3, <2>4, <2>5 DEF DebugInv, LeftProved, Places
  <2>20. EndProved'
    BY <1>12, <1>1, <2>2, <2>3 DEF DebugInv, EndProved
  <2> QED BY <2>6, <2>7, <2>8, <2>9, <2>10, <2>11, <2>12, <2>13, <2>14, <2>15, <2>16, <2>17, <2>18, <2>19, <2>20
        DEF DebugInv
<1>13. CASE class = "ok" /\ Head(todo).command = "connect"
  <2>1. gdb.up /\ todo # <<>> /\ server = "up"
    BY <1>13, <1>1 DEF Debug!Takes
  <2>2. gdb' \in [up : BOOLEAN, linked : BOOLEAN] /\ gdb'.up /\ gdb'.linked
    BY <1>13, <1>1, <1>5 DEF Debug!Takes
  <2>3. /\ core' \in [halted : BOOLEAN, armed : BOOLEAN, guarded : BOOLEAN] /\ core'.halted
        /\ core'.armed = core.armed /\ core'.guarded = core.guarded
    BY <1>13, <1>5, <1>6, <1>7, <1>8, <1>9, <1>10
  <2>4. reached' \subseteq {"server", "gdb"} /\ (Head(todo).command = "setup" => reached' = reached)
    BY <1>6, <1>11
  <2>5. UNCHANGED <<kind, session, server, last, call, lease, answer, doubt>>
    BY <1>1 DEF Debug!Takes
  <2>6. CommandTaken /\ ConnectPrinted(Head(todo).live) /\ pipe' \in Seq(Output)
    <3>1. Debug!Printed(<<Debug!Stop, [record |-> "ok", live |-> Head(todo).live]>>)
      BY <1>13 DEF Debug!Takes
    <3> QED BY <1>1, <1>2, <3>1, ConnectIsPrinted DEF DebugInv
  <2>7. /\ ~Answering /\ ~Taken /\ Head(todo).live \in BOOLEAN /\ Head(todo).command \in Debug!Commands
        /\ Head(todo).live => Head(todo).command = call.step /\ call.res = "" /\ ~Awaiting' /\ todo' = <<>>
    BY <1>2, <1>3, <1>4
  <2>8. SessionTyped'
    BY <2>2, <2>3, <2>4, <2>5, <2>6 DEF DebugInv, SessionTyped, CommandTaken, ConnectPrinted
  <2>9. StepsOf'
    BY <2>5, <2>6, <2>7 DEF DebugInv, SessionTyped, StepsOf
  <2>10. Places'
    BY <1>13, <1>1, <2>5, <2>6, <2>7 DEF DebugInv, Places, LeaseReasoned
  <2>11. ProcessesNamed'
    BY <1>1, <1>2, <2>2, <2>3, <2>4, <2>5 DEF DebugInv, ProcessesNamed
  <2>12. Untouched'
    BY <1>13, <1>1, <2>4, <2>5 DEF DebugInv, SessionTyped, StepsOf, Untouched, Places, ProcessesNamed, OneAwaited,
       CommandTaken
  <2>13. OneAwaited'
    BY <1>13, <1>1, <2>2, <2>3, <2>4, <2>5, <2>6, <2>7 DEF DebugInv, SessionTyped, StepsOf, OneAwaited,
       CommandTaken, ConnectPrinted
  <2>14. NoLateContinue'
    BY <2>4, <2>5, <2>6, <2>7 DEF DebugInv, SessionTyped, StepsOf, NoLateContinue, Trusted, CommandTaken
  <2>15. ConnectAlone'
    BY <2>6, <2>7 DEF DebugInv, ConnectAlone, StartHalts, CommandTaken, ConnectPrinted
  <2>16. StopsFresh'
    BY <1>13, <1>1, <1>2, <2>2, <2>3, <2>4, <2>5, <2>6, <2>7 DEF DebugInv, SessionTyped, StepsOf, StopsFresh,
       ConnectAlone, Trusted, Resuming, Lost, Quiet, CommandTaken, ConnectPrinted, Debug!StopWaits
  <2>17. HaltKnown'
    BY <1>13, <1>1, <1>2, <2>4, <2>5 DEF DebugInv, SessionTyped, StepsOf, HaltKnown, ConnectAlone, Trusted, Lost,
       CommandTaken
  <2>18. StartHalts'
    BY <1>13, <1>1, <2>1, <2>2, <2>3, <2>4, <2>5, <2>6, <2>7 DEF DebugInv, StartHalts, Places, OneAwaited,
       StopsFresh, ProcessesNamed, ConnectAlone, Lost, CommandTaken, ConnectPrinted, Debug!StopWaits
  <2>19. StopProves'
    BY <1>13, <1>1, <2>3, <2>4, <2>5, <2>6, <2>7 DEF DebugInv, StopProves, Places, ConnectPrinted, Debug!StopWaits
  <2>20. BreakpointsKnown'
    BY <1>13, <1>1, <2>3, <2>4, <2>5, <2>6, <2>7 DEF DebugInv, BreakpointsKnown, Places, Disarmed, CommandTaken,
       ConnectPrinted, Debug!StopWaits
  <2>21. LeftProved'
    BY <1>13, <1>1, <2>5, <2>6, <2>7 DEF DebugInv, LeftProved, Places
  <2>22. EndProved'
    BY <1>1, <1>2, <2>4, <2>5 DEF DebugInv, EndProved
  <2> QED BY <2>8, <2>9, <2>10, <2>11, <2>12, <2>13, <2>14, <2>15, <2>16, <2>17, <2>18, <2>19, <2>20, <2>21,
        <2>22 DEF DebugInv
<1>14. CASE class = "ok" /\ Head(todo).command # "connect"
  <2>1. gdb.up /\ todo # <<>> /\ gdb' = gdb
    BY <1>14, <1>1, <1>5 DEF Debug!Takes
  <2>2. Head(todo).command # "setup" => gdb.linked /\ server = "up"
    BY <1>14, <1>2 DEF Debug!Takes, Debug!Connected
  <2>3. Head(todo).command = "continue" => core.halted
    BY <1>14, <1>2 DEF Debug!Takes
  <2>4. core' \in [halted : BOOLEAN, armed : BOOLEAN, guarded : BOOLEAN]
    BY <1>14, <1>9, <1>10
  <2>5. core'.halted <=> (Head(todo).command # "continue" /\ (core.halted \/ Head(todo).command = "reset"))
    BY <1>14, <1>5, <1>6, <1>7, <1>8, <1>9, <1>10
  <2>6. core'.armed <=> ((core.armed \/ Head(todo).command = "insert") /\ Head(todo).command # "remove")
    BY <1>14, <1>5, <1>6, <1>7, <1>8, <1>9, <1>10
  <2>7. core'.guarded <=> (core.guarded \/ Head(todo).command = "guard")
    BY <1>14, <1>5, <1>6, <1>9, <1>10
  <2>8. reached' \subseteq {"server", "gdb"} /\ (Head(todo).command = "setup" => reached' = reached)
    BY <1>6, <1>11
  <2>9. UNCHANGED <<kind, session, server, last, call, lease, answer, doubt>>
    BY <1>1 DEF Debug!Takes
  <2>10. CommandTaken /\ ResultPrinted(class, Head(todo).live) /\ pipe' \in Seq(Output)
    <3>1. Debug!Printed(<<[record |-> class, live |-> Head(todo).live]>>)
      BY <1>14 DEF Debug!Takes
    <3> QED BY <1>1, <1>2, <3>1, ResultIsPrinted DEF DebugInv
  <2>11. /\ ~Answering /\ ~Taken /\ Head(todo).live \in BOOLEAN /\ Head(todo).command \in Debug!Commands
         /\ Head(todo).live => Head(todo).command = call.step /\ call.res = "" /\ ~Awaiting' /\ todo' = <<>>
    BY <1>2, <1>3, <1>4
  <2>12. SessionTyped'
    BY <2>1, <2>4, <2>5, <2>8, <2>9, <2>10 DEF DebugInv, SessionTyped, CommandTaken
  <2>13. StepsOf'
    BY <2>9, <2>10, <2>11 DEF DebugInv, SessionTyped, StepsOf
  <2>14. Places'
    BY <1>1, <2>9, <2>10, <2>11 DEF DebugInv, Places, LeaseReasoned
  <2>15. ProcessesNamed'
    BY <2>1, <2>2, <2>3, <2>9 DEF DebugInv, ProcessesNamed
  <2>16. Untouched'
    BY <1>1, <1>2, <2>8, <2>9 DEF DebugInv, SessionTyped, StepsOf, Untouched, Places, ProcessesNamed, OneAwaited,
       CommandTaken
  <2>17. OneAwaited'
    BY <2>1, <2>8, <2>9, <2>10, <2>11 DEF DebugInv, SessionTyped, StepsOf, OneAwaited, CommandTaken, ResultPrinted,
       SamePipe, Debug!StopWaits
  <2>18. NoLateContinue'
    BY <2>9, <2>10, <2>11 DEF DebugInv, NoLateContinue, Places, StartHalts, Trusted, CommandTaken, ResultPrinted
  <2>19. ConnectAlone'
    BY <2>10, <2>11 DEF DebugInv, SessionTyped, StepsOf, ConnectAlone, CommandTaken, ResultPrinted
  <2>20. StopsFresh'
    BY <1>14, <1>1, <1>2, <1>4, <2>1, <2>2, <2>3, <2>4, <2>5, <2>6, <2>7, <2>8, <2>9, <2>10, <2>11, IdleTyped,
       NoSessionTyped, NoLeaseTyped, NoStopsThen, NothingWritten, NothingAnswered DEF DebugInv, SessionTyped,
       StepsOf, StopsFresh, Places, ProcessesNamed, OneAwaited, NoLateContinue, StartHalts, HaltKnown,
       ConnectAlone, Trusted, Resuming, Lost, Quiet, CommandTaken, ResultPrinted, SamePipe, Debug!StopWaits, Debug!Commands,
       Resting
  <2>21. HaltKnown'
    <3>1. SessionTyped /\ Places /\ HaltKnown /\ StepsOf /\ OneAwaited /\ StopsFresh
          /\ (~doubt /\ Writing("continue") => call.step = "continue" /\ (Late("continue") => call.res = "timeout"))
      BY DEF DebugInv, NoLateContinue, Trusted
    <3>2. CASE Head(todo).live
      <4>1. TodoGone
        BY <2>11, <3>2, TodoIsGone
      <4> QED BY <1>1, <2>1, <2>4, <2>5, <2>8, <2>9, <2>10, <2>11, <3>1, <3>2, <4>1 DEF HaltKnown, StepsOf,
            Quiet, Trusted, CommandTaken, ResultPrinted, TodoGone
    <3>3. CASE ~Head(todo).live
      <4>1. Trusted /\ Head(todo).command = "continue" => call.step = "continue" /\ call.res = "timeout"
        BY <1>1, <3>3 DEF DebugInv, NoLateContinue, CommandTaken
      <4> QED BY <1>1, <2>1, <2>4, <2>5, <2>8, <2>9, <2>10, <2>11, <3>1, <3>3, <4>1 DEF HaltKnown, StepsOf,
            Quiet, Trusted, CommandTaken, ResultPrinted, SamePipe
    <3> QED BY <3>2, <3>3
  <2>22. StartHalts'
    BY <1>4, <2>1, <2>2, <2>3, <2>4, <2>5, <2>9, <2>10, <2>11 DEF DebugInv, StartHalts, Places, OneAwaited,
       CommandTaken, ResultPrinted, SamePipe
  <2>23. StopProves'
    BY <1>1, <2>4, <2>5, <2>6, <2>7, <2>8, <2>9, <2>10, <2>11 DEF DebugInv, StopProves, NoLateContinue, LeftProved,
       Trusted, Quiet, CommandTaken, ResultPrinted, SamePipe
  <2>24. BreakpointsKnown'
    <3>1. CASE Head(todo).live
      <4>1. TodoGone
        BY <2>11, <3>1, TodoIsGone
      <4> QED BY <1>14, <1>1, <2>6, <2>7, <2>8, <2>9, <2>10, <2>11, <3>1, <4>1 DEF DebugInv, BreakpointsKnown,
            Disarmed, CommandTaken, ResultPrinted, TodoGone
    <3>2. CASE ~Head(todo).live
      BY <2>6, <2>7, <2>8, <2>9, <2>10, <2>11, <3>2 DEF DebugInv, BreakpointsKnown, OneAwaited, Disarmed,
         CommandTaken, ResultPrinted, SamePipe
    <3> QED BY <3>1, <3>2
  <2>25. LeftProved'
    BY <1>1, <2>9, <2>10, <2>11 DEF DebugInv, LeftProved, Places
  <2>26. EndProved'
    BY <1>1, <2>9 DEF DebugInv, EndProved
  <2> QED BY <2>12, <2>13, <2>14, <2>15, <2>16, <2>17, <2>18, <2>19, <2>20, <2>21, <2>22, <2>23, <2>24, <2>25,
        <2>26 DEF DebugInv
<1> QED BY <1>12, <1>13, <1>14

-----------------------------------------------------------------------------
(* The steps of a start.                                                    *)

LEMMA StartSessionKeeps ==
    ASSUME DebugInv, NEW resets \in BOOLEAN, Debug!StartSession(resets)
    PROVE  DebugInv'
<1>1. call.tool = "none" /\ call.step = "none" /\ session.status = "none"
  BY IdleTyped DEF LeaseReasoned, Debug!StartSession, Debug!Called
<1>2. call' \in CallType /\ call'.tool = "start" /\ call'.step = "spawn" /\ call'.res = "" /\ call'.attempts = 0
  BY IdleTyped DEF DebugInv, SessionType, CallType, AnswerType, Tools, Steps, Debug!CleanupReasons, Resting, Debug!Results,
     Debug!StartSession, Debug!Called
<1>3. /\ lease' \in LeaseType /\ LeaseReasoned' /\ (lease.state # "none" => lease'.state # "none")
      /\ lease'.state # "none"
  <2>1. CASE lease = Debug!NoLease
    <3>1. lease' = [lease EXCEPT !.state = "active"]
      BY <2>1 DEF Debug!StartSession
    <3> QED BY <2>1, <3>1, NoLeaseTyped DEF LeaseType, LeaseReasoned
  <2>2. CASE lease # Debug!NoLease
    <3>1. lease' = lease
      BY <2>2 DEF Debug!StartSession
    <3>2. lease.state = "none" => lease = Debug!NoLease
      BY DEF DebugInv, Places, LeaseReasoned, SessionTyped, LeaseType, Debug!NoLease
    <3> QED BY <2>2, <3>1, <3>2 DEF DebugInv, Places, LeaseReasoned, SessionTyped
  <2> QED BY <2>1, <2>2
<1>4. reached' = {}
  BY DEF Debug!StartSession, Debug!Called
<1>5. UNCHANGED <<kind, session, server, gdb, core, todo, pipe, last, answer, doubt>>
  BY DEF Debug!StopWaits, Debug!StartSession, Debug!target, Debug!stream
<1>6. SamePipe /\ SameTodo
  BY <1>4, <1>5, PipeStays, TodoStays
<1>7. ~Answering /\ ~Taken /\ ~Awaiting /\ \A c : AwaitedLast(c)
  BY <1>1, <1>2, NothingAwaited, NoneAwaited DEF DebugInv, Debug!Commands
<1>8. SessionTyped'
  BY <1>1, <1>2, <1>3, <1>4, <1>5, <1>6 DEF DebugInv, SessionTyped
<1>9. StepsOf'
  BY <1>2, <1>3 DEF SessionTyped, StepsOf
<1>10. Places'
  BY <1>1, <1>2, <1>3, <1>4, <1>5, <1>6, <1>7 DEF DebugInv, Places, LeaseReasoned
<1>11. ProcessesNamed'
  BY <1>1, <1>4, <1>5 DEF DebugInv, ProcessesNamed
<1>12. Untouched'
  BY <1>2, <1>3, <1>4 DEF DebugInv, Untouched, SameTodo
<1>13. OneAwaited'
  BY <1>1, <1>2, <1>5, <1>6, <1>7 DEF DebugInv, OneAwaited, SamePipe, SameTodo, Debug!Commands
<1>14. NoLateContinue'
  BY <1>1, <1>6, <1>7, NothingWritten, NothingAnswered DEF DebugInv, SessionTyped, StepsOf, NoLateContinue, Places,
     ProcessesNamed, OneAwaited, StartHalts, SameTodo, Debug!StopWaits
<1>15. ConnectAlone'
  BY <1>1, <1>5, <1>6, <1>7 DEF DebugInv, ConnectAlone, SameTodo
<1>16. StopsFresh'
  BY <1>1, <1>4, <1>5 DEF DebugInv, SessionTyped, StepsOf, StopsFresh, Places, ProcessesNamed
<1>17. HaltKnown'
  BY <1>2, <1>3 DEF SessionTyped, HaltKnown
<1>18. StartHalts'
  BY <1>1, <1>4, <1>5 DEF DebugInv, SessionTyped, StepsOf, StartHalts, StopsFresh, ProcessesNamed
<1>19. StopProves'
  BY <1>2, <1>3 DEF SessionTyped, StopProves
<1>20. BreakpointsKnown'
  BY <1>1, <1>2, <1>5, <1>6 DEF SessionTyped, BreakpointsKnown
<1>21. LeftProved'
  BY <1>1, <1>5, <1>6 DEF SessionTyped, LeftProved
<1>22. EndProved'
  BY <1>1, <1>2 DEF DebugInv, EndProved
<1> QED BY <1>8, <1>9, <1>10, <1>11, <1>12, <1>13, <1>14, <1>15, <1>16, <1>17, <1>18, <1>19, <1>20, <1>21, <1>22
      DEF DebugInv

LEMMA SpawnKeeps ==
    ASSUME DebugInv, Debug!Spawn
    PROVE  DebugInv'
<1>1. CASE server' = "up" /\ core' = [core EXCEPT !.guarded = FALSE, !.armed = FALSE] /\ Debug!Turns(call, "ready")
         /\ session' = [Debug!NoSession EXCEPT !.status = "starting", !.phase = "server_spawned", !.resets = call.resets]
         /\ UNCHANGED <<lease, answer, doubt, faults>>
  <2>1. Debug!Turns(call, "ready")
    BY <1>1
  <2>2. call \in CallType /\ "ready" \in Steps
    BY DEF DebugInv, SessionTyped, Steps, Debug!Commands, Debug!StopWaits, Resting
  <2>3. /\ call' \in CallType /\ call'.tool = call.tool /\ call'.step = "ready" /\ call'.res = ""
        /\ call'.attempts = call.attempts
         /\ call'.halted = call.halted /\ call'.removed = call.removed /\ call'.pinned = call.pinned
    BY <1>1, <2>1, <2>2, TurnsTyped
  <2>4. call.tool = "start" /\ call.step = "spawn"
    BY DEF Debug!Spawn, Debug!At, Debug!FailsWith
  <2>5. /\ call' \in CallType /\ call'.tool = "start" /\ call'.step = "ready" /\ call'.res = ""
        /\ call'.attempts = call.attempts
    BY <2>3 DEF Debug!Spawn, Debug!At, Debug!FailsWith
  <2>6. /\ core' \in [halted : BOOLEAN, armed : BOOLEAN, guarded : BOOLEAN] /\ core'.halted = core.halted
        /\ ~core'.armed /\ ~core'.guarded
    BY <1>1 DEF DebugInv, SessionTyped
  <2>7. server' = "up"
    BY <1>1
  <2>8. /\ session' \in SessionType /\ session'.status = "starting" /\ session'.phase = "server_spawned"
        /\ ~session'.breakpoints /\ ~session'.unconfirmed
    BY <1>1, NoSessionTyped DEF DebugInv, SessionTyped, SessionType, CallType, Debug!BeforeConnect
  <2>9. UNCHANGED <<kind, gdb, todo, pipe, last, reached, lease, answer, doubt>>
    BY <1>1 DEF Debug!Spawn, Debug!stream
  <2>10. SamePipe /\ SameTodo
    BY <2>8, <2>9, PipeStays, TodoStays
  <2>11. ~Answering /\ ~Taken /\ ~Awaiting /\ \A c : AwaitedLast(c)
    BY <2>4, <2>5, NothingAwaited, NoneAwaited DEF DebugInv, Debug!Commands
  <2>12. SessionTyped'
    BY <2>5, <2>6, <2>7, <2>8, <2>9, <2>10 DEF DebugInv, SessionTyped
  <2>13. StepsOf'
    BY <2>5 DEF DebugInv, SessionTyped, StepsOf
  <2>14. Places'
    BY <1>1, <2>4, <2>5, <2>8 DEF DebugInv, Places, LeaseReasoned
  <2>15. ProcessesNamed'
    BY <2>4, <2>8, <2>9, <2>10 DEF DebugInv, SessionTyped, StepsOf, ProcessesNamed, Places, SamePipe
  <2>16. Untouched'
    BY <2>4, <2>5, <2>8, <2>9 DEF DebugInv, Untouched
  <2>17. OneAwaited'
    BY <2>5, <2>6, <2>9, <2>10, <2>11 DEF DebugInv, OneAwaited, SamePipe, SameTodo, Debug!Commands
  <2>18. NoLateContinue'
    BY <2>4, <2>5, <2>10, <2>11 DEF DebugInv, NoLateContinue, Trusted, SameTodo
  <2>19. ConnectAlone'
    BY <2>4, <2>5, <2>9, <2>10, <2>11 DEF DebugInv, ConnectAlone, SameTodo
  <2>20. StopsFresh'
    BY <1>1, <2>4, <2>5, <2>6, <2>9, <2>10, <2>11 DEF DebugInv, StopsFresh, Trusted, Resuming, Lost, SamePipe,
       SameTodo
  <2>21. HaltKnown'
    BY <2>5 DEF DebugInv, SessionTyped, HaltKnown
  <2>22. StartHalts'
    BY <2>4, <2>5, <2>6, <2>7, <2>8, <2>9, <2>10, <2>11 DEF DebugInv, StartHalts, SamePipe, SameTodo
  <2>23. StopProves'
    BY <2>5, <2>6 DEF DebugInv, StopProves
  <2>24. BreakpointsKnown'
    <3>1. todo = <<>>
      BY <2>4 DEF DebugInv, OneAwaited, Places, ProcessesNamed
    <3> QED BY <2>4, <2>5, <2>6, <2>7, <2>10, <2>11, <3>1, NothingWritten DEF BreakpointsKnown, SamePipe,
          SameTodo, Disarmed
  <2>25. LeftProved'
    BY <2>8 DEF DebugInv, LeftProved, Places
  <2>26. EndProved'
    BY <2>5, <2>6 DEF DebugInv, EndProved
  <2> QED BY <2>12, <2>13, <2>14, <2>15, <2>16, <2>17, <2>18, <2>19, <2>20, <2>21, <2>22, <2>23, <2>24, <2>25,
        <2>26 DEF DebugInv
<1>2. CASE Debug!FailsWith("none", Debug!NoSession) /\ UNCHANGED <<server, core>>
  <2>1. call.tool = "start" /\ call.step = "spawn"
    BY DEF Debug!Spawn, Debug!At
  <2>2. call' = Debug!Idle
    BY <1>2, FailsTyped, NoSessionTyped DEF DebugInv, SessionTyped, Places
  <2>3. /\ answer' \in AnswerType /\ answer'.tool = "start" /\ ~answer'.safe
        /\ (answer'.effect = "none" => call.attempts = 0)
    BY <1>2, FailsTyped, NoSessionTyped DEF DebugInv, SessionTyped, Places
  <2>4. /\ session' \in SessionType
        /\ (session' = Debug!NoSession \/ (session'.status = "cleanup_required" /\ ~session'.breakpoints /\ doubt' /\ lease'.state # "none"))
    BY <1>2, FailsTyped, NoSessionTyped DEF DebugInv, SessionTyped, Places, LeaseReasoned, SessionType, CallType,
       AnswerType, Tools, Steps, Debug!CleanupReasons, Debug!Commands, Debug!StopWaits, Resting, Debug!Results, Debug!Spawn, Debug!At, Debug!Turns, Debug!Idle,
       Debug!Held, Debug!NoLease, Debug!stream
  <2>5. session' = Debug!NoSession => doubt' = doubt /\ call.attempts = 0
    BY <1>2, FailsTyped, NoSessionTyped DEF DebugInv, SessionTyped, Places, LeaseReasoned, SessionType, CallType,
       AnswerType, Tools, Steps, Debug!CleanupReasons, Debug!Commands, Debug!StopWaits, Resting, Debug!Results, Debug!Spawn, Debug!At, Debug!Turns, Debug!Idle,
       Debug!Held, Debug!NoLease, Debug!stream
  <2>6. session' # Debug!NoSession => call.attempts # 0
    BY <1>2, FailsTyped, NoSessionTyped DEF DebugInv, SessionTyped, Places
  <2>7. doubt' \in BOOLEAN /\ lease' \in LeaseType /\ LeaseReasoned'
    BY <1>2, FailsTyped, NoSessionTyped DEF DebugInv, SessionTyped, Places
  <2>8. UNCHANGED <<kind, gdb, server, core, todo, pipe, last, reached>>
    BY <1>2 DEF Debug!StopWaits, Debug!Spawn, Debug!NoLease, Debug!stream
  <2>9. SamePipe /\ SameTodo
    BY <2>8, PipeStays, TodoStays
  <2>10. ~Answering /\ ~Taken /\ ~Awaiting /\ \A c : AwaitedLast(c)
    BY <2>1, <2>2, NothingAwaited, NoneAwaited DEF DebugInv, Debug!Commands
  <2>11. SessionTyped'
    BY <2>1, <2>2, <2>3, <2>4, <2>7, <2>8, <2>9, IdleTyped DEF DebugInv, SessionTyped
  <2>12. StepsOf'
    BY <2>1, <2>2, IdleTyped, NoSessionTyped DEF DebugInv, StepsOf
  <2>13. Places'
    BY <2>1, <2>2, <2>3, <2>4, <2>7, <2>8, IdleTyped, NoSessionTyped DEF DebugInv, SessionTyped, StepsOf, Places,
       ProcessesNamed, LeaseReasoned
  <2>14. ProcessesNamed'
    BY <2>1, <2>4, <2>5, <2>8, <2>9 DEF DebugInv, SessionTyped, StepsOf, ProcessesNamed, Places, SamePipe
  <2>15. Untouched'
    BY <1>2, <2>1, <2>2, <2>3, <2>4, <2>5, <2>8, <2>9, <2>10, IdleTyped, NothingAnswered DEF DebugInv, Untouched,
       Places, ProcessesNamed, OneAwaited
  <2>16. OneAwaited'
    BY <2>1, <2>2, <2>8, <2>9, <2>10, IdleTyped DEF DebugInv, SessionTyped, StepsOf, OneAwaited, SamePipe, SameTodo
  <2>17. NoLateContinue'
    BY <2>1, <2>2, <2>9, <2>10 DEF DebugInv, NoLateContinue, Trusted, SameTodo
  <2>18. ConnectAlone'
    BY <1>2, <2>1, <2>8, <2>9, <2>10 DEF DebugInv, ConnectAlone, SameTodo
  <2>19. StopsFresh'
    BY <2>1, <2>2, <2>8, <2>9, <2>10, IdleTyped DEF DebugInv, SessionTyped, StepsOf, StopsFresh, Trusted, Resuming,
       Lost, Quiet, SamePipe, SameTodo
  <2>20. HaltKnown'
    BY <2>1, <2>2, <2>3, <2>4, IdleTyped DEF DebugInv, HaltKnown, Places
  <2>21. StartHalts'
    BY <2>1, <2>2, IdleTyped DEF DebugInv, StartHalts, Places
  <2>22. StopProves'
    BY <2>1, <2>2, IdleTyped DEF DebugInv, StepsOf, StopProves
  <2>23. BreakpointsKnown'
    BY <1>2, <2>1, <2>2, <2>3, <2>6, <2>7, <2>8, <2>9, <2>10, IdleTyped, NothingAnswered DEF DebugInv,
       BreakpointsKnown, Places, Disarmed, SamePipe, SameTodo, Debug!StopWaits
  <2>24. LeftProved'
    BY <1>2, <2>1, <2>4, <2>5, <2>10 DEF DebugInv, LeftProved, Places
  <2>25. EndProved'
    BY <2>3, <2>4 DEF DebugInv, EndProved
  <2> QED BY <2>11, <2>12, <2>13, <2>14, <2>15, <2>16, <2>17, <2>18, <2>19, <2>20, <2>21, <2>22, <2>23, <2>24,
        <2>25 DEF DebugInv
<1> QED BY <1>1, <1>2 DEF Debug!Spawn

LEMMA ServerReadyKeeps ==
    ASSUME DebugInv, Debug!ServerReady
    PROVE  DebugInv'
<1>1. call.tool = "start" /\ call.step = "ready" /\ server = "up"
  BY DEF Debug!ServerReady, Debug!At, Debug!said
<1>2. /\ call' \in CallType /\ call'.tool = "start" /\ call'.step = "setup" /\ call'.res = ""
      /\ call'.attempts = call.attempts
  BY DEF DebugInv, SessionTyped, CallType, AnswerType, Tools, Steps, Debug!CleanupReasons, Debug!Commands, Debug!Results, Debug!ServerReady,
     Debug!At, Debug!said
<1>3. gdb' \in [up : BOOLEAN, linked : BOOLEAN] /\ gdb'.up /\ ~gdb'.linked
  BY DEF Debug!ServerReady
<1>4. last' = FALSE
  BY DEF Debug!ServerReady
<1>5. /\ session' \in SessionType /\ session'.status = session.status /\ session'.phase = "server_ready"
      /\ session'.breakpoints = session.breakpoints /\ session'.unconfirmed = session.unconfirmed
  <2>1. session' = [session EXCEPT !.phase = "server_ready"]
    BY DEF Debug!ServerReady
  <2>2. SessionTyped /\ Places /\ call \in CallType
    BY DEF DebugInv, SessionTyped
  <2> QED BY <2>1, <2>2 DEF SessionTyped, SessionType, CallType, Debug!BeforeConnect
<1>6. UNCHANGED <<kind, server, core, lease, answer, doubt, reached>>
  BY DEF Debug!ServerReady, Debug!At, Debug!said
<1>7. SetupWritten
  BY SetupIsWritten DEF DebugInv, Debug!ServerReady, Debug!stream
<1>8. SessionTyped'
  BY <1>2, <1>3, <1>4, <1>5, <1>6, <1>7 DEF DebugInv, SessionTyped, SetupWritten
<1>9. StepsOf'
  BY <1>2, <1>3 DEF SessionTyped, StepsOf
<1>10. Places'
  BY <1>1, <1>2, <1>5, <1>6, <1>7 DEF DebugInv, Places, LeaseReasoned
<1>11. ProcessesNamed'
  BY <1>1, <1>2, <1>3, <1>4, <1>5, <1>6, <1>7 DEF DebugInv, ProcessesNamed
<1>12. Untouched'
  BY <1>1, <1>2, <1>5, <1>6, <1>7 DEF DebugInv, Untouched, Places, SetupWritten, Debug!StopWaits
<1>13. OneAwaited'
  BY <1>2, <1>3, <1>6, <1>7 DEF StepsOf, OneAwaited, SetupWritten, Debug!StopWaits
<1>14. NoLateContinue'
  BY <1>7 DEF DebugInv, NoLateContinue, StartHalts, Trusted, SetupWritten
<1>15. ConnectAlone'
  BY <1>6, <1>7 DEF ConnectAlone, Places, StartHalts, SetupWritten
<1>16. StopsFresh'
  BY <1>4, <1>5, <1>6, <1>7 DEF StepsOf, StopsFresh, SetupWritten, Debug!StopWaits
<1>17. HaltKnown'
  BY <1>2, <1>3 DEF SessionTyped, HaltKnown
<1>18. StartHalts'
  BY <1>1, <1>2, <1>3, <1>4, <1>7 DEF DebugInv, StartHalts, Resuming, Lost, SetupWritten
<1>19. StopProves'
  BY <1>1, <1>2 DEF DebugInv, StopProves
<1>20. BreakpointsKnown'
  BY <1>1, <1>2, <1>3, <1>4, <1>5, <1>6, <1>7 DEF DebugInv, SessionTyped, StepsOf, BreakpointsKnown, Disarmed,
     SetupWritten
<1>21. LeftProved'
  BY <1>1, <1>2, <1>5, <1>6, <1>7 DEF DebugInv, LeftProved, Places
<1>22. EndProved'
  BY <1>1, <1>2 DEF DebugInv, EndProved
<1> QED BY <1>8, <1>9, <1>10, <1>11, <1>12, <1>13, <1>14, <1>15, <1>16, <1>17, <1>18, <1>19, <1>20, <1>21, <1>22
      DEF DebugInv

LEMMA SetUpKeeps ==
    ASSUME DebugInv, Debug!SetUp
    PROVE  DebugInv'
<1>1. call \in CallType /\ SessionTyped /\ "connect" \in Debug!Commands /\ Debug!Ask(call, "connect")
  BY DEF DebugInv, SessionTyped, Debug!Commands, Debug!SetUp
<1>2. /\ call' \in CallType /\ call'.tool = call.tool /\ call'.step = "connect"
      /\ call'.attempts = call.attempts
   /\ call'.res = (IF gdb.up THEN "" ELSE "dead")
   /\ call'.halted = call.halted /\ call'.removed = call.removed /\ call'.pinned = call.pinned
   /\ todo' \in Seq(OnItsWay) /\ UNCHANGED <<pipe, server, gdb, core>>
  BY <1>1, AskTyped
<1>3. call.tool = "start" /\ call.step = "setup" /\ call.res = "ok"
  BY DEF Debug!Results, Debug!SetUp, Debug!Answered, Debug!At
<1>4. /\ call' \in CallType /\ call'.tool = "start" /\ call'.step = "connect"
      /\ call'.res = (IF gdb.up THEN "" ELSE "dead") /\ call'.attempts = call.attempts
  BY <1>2 DEF DebugInv, Debug!Results, Debug!SetUp, Debug!Answered, Debug!At
<1>5. /\ session' \in SessionType /\ session'.status = session.status /\ session'.phase = "connect_started"
      /\ session'.breakpoints = session.breakpoints /\ session'.unconfirmed = session.unconfirmed
  BY DEF DebugInv, SessionTyped, SessionType, CallType, Debug!SetUp, Debug!Answered
<1>6. UNCHANGED <<kind, server, gdb, core, pipe, last, lease, answer, doubt, reached>>
  BY <1>1, <1>2 DEF Debug!StopWaits, Debug!SetUp, Debug!target, Debug!said
<1>7. todo' \in Seq(OnItsWay)
  BY <1>1, <1>2
<1>8. WrittenTo("connect")
  BY <1>7, AskAsks DEF DebugInv, SessionTyped, Debug!SetUp, Debug!Answered, Debug!At, Debug!Commands
<1>9. ~Answering /\ ~Taken /\ ~Awaiting /\ \A c : AwaitedLast(c)
  BY <1>3, <1>4, NothingAwaited, NoneAwaited DEF DebugInv
<1>10. SessionTyped'
  BY <1>3, <1>4, <1>5, <1>6, <1>7, <1>8 DEF DebugInv, SessionTyped
<1>11. StepsOf'
  BY <1>4, <1>5 DEF DebugInv, StepsOf, Debug!Commands, Resting
<1>12. Places'
  BY <1>3, <1>4, <1>5, <1>6 DEF DebugInv, Places, LeaseReasoned
<1>13. ProcessesNamed'
  BY <1>4, <1>5, <1>6, <1>7 DEF DebugInv, ProcessesNamed
<1>14. Untouched'
  BY <1>3, <1>4 DEF DebugInv, Untouched
<1>15. OneAwaited'
  BY <1>3, <1>4, <1>5, <1>6, <1>7, <1>8, <1>9 DEF DebugInv, OneAwaited, WrittenTo, SamePipe, Debug!StopWaits
<1>16. NoLateContinue'
  BY <1>3, <1>8, <1>9 DEF DebugInv, SessionTyped, StepsOf, NoLateContinue, Places, Trusted, WrittenTo, SamePipe
<1>17. ConnectAlone'
  BY <1>3, <1>4, <1>5, <1>6, <1>7, <1>8, <1>9 DEF DebugInv, SessionTyped, StepsOf, ConnectAlone, OneAwaited,
     StartHalts, WrittenTo, SamePipe
<1>18. StopsFresh'
  BY <1>3, <1>4, <1>5, <1>6, <1>7, <1>8, <1>9 DEF DebugInv, SessionTyped, StepsOf, StopsFresh, ConnectAlone,
     Trusted, Resuming, Lost, Quiet, WrittenTo, SamePipe, Debug!StopWaits
<1>19. HaltKnown'
  BY <1>4, <1>5 DEF SessionTyped, HaltKnown
<1>20. StartHalts'
  BY <1>3, <1>4, <1>5, <1>6, <1>7, <1>8, NoStopsThen, NothingWritten, NothingAnswered DEF DebugInv, StartHalts,
     Places, Lost, WrittenTo, SamePipe, Debug!StopWaits
<1>21. StopProves'
  BY <1>4, <1>5 DEF SessionTyped, StopProves
<1>22. BreakpointsKnown'
  BY <1>3, <1>4, <1>5, <1>6, <1>7, <1>8, <1>9 DEF DebugInv, BreakpointsKnown, Places, ProcessesNamed, Disarmed,
     WrittenTo, SamePipe
<1>23. LeftProved'
  BY <1>3, <1>4, <1>5 DEF DebugInv, SessionTyped, StepsOf, LeftProved, Places, OneAwaited
<1>24. EndProved'
  BY <1>3, <1>4 DEF DebugInv, EndProved
<1> QED BY <1>10, <1>11, <1>12, <1>13, <1>14, <1>15, <1>16, <1>17, <1>18, <1>19, <1>20, <1>21, <1>22, <1>23,
      <1>24 DEF DebugInv

LEMMA ConnectedNowKeeps ==
    ASSUME DebugInv, Debug!ConnectedNow
    PROVE  DebugInv'
<1>1. CASE session.resets
  <2>1. call \in CallType /\ SessionTyped /\ "reset" \in Debug!Commands /\ Debug!Ask(call, "reset")
    BY <1>1 DEF DebugInv, SessionTyped, Debug!Commands, Debug!ConnectedNow
  <2>2. /\ call' \in CallType /\ call'.tool = call.tool /\ call'.step = "reset"
        /\ call'.attempts = call.attempts
     /\ call'.res = (IF gdb.up THEN "" ELSE "dead")
     /\ call'.halted = call.halted /\ call'.removed = call.removed /\ call'.pinned = call.pinned
     /\ todo' \in Seq(OnItsWay) /\ UNCHANGED <<pipe, server, gdb, core>>
    BY <2>1, AskTyped
  <2>3. call.tool = "start" /\ call.step = "connect" /\ call.res = "ok"
    BY DEF Debug!ConnectedNow, Debug!Answered, Debug!At
  <2>4. /\ call' \in CallType /\ call'.tool = "start" /\ call'.step = "reset"
        /\ call'.res = (IF gdb.up THEN "" ELSE "dead") /\ call'.attempts = call.attempts
    BY <2>2 DEF DebugInv, SessionTyped, Debug!ConnectedNow, Debug!Answered, Debug!At
  <2>5. /\ session' \in SessionType /\ session'.status = session.status /\ session'.phase = "reset_started"
        /\ session'.breakpoints = session.breakpoints /\ session'.unconfirmed = session.unconfirmed
    <3>1. session' = [session EXCEPT !.phase = "reset_started"]
      BY <1>1 DEF Debug!ConnectedNow
    <3>2. SessionTyped /\ Places /\ call \in CallType
      BY DEF DebugInv, SessionTyped
    <3> QED BY <3>1, <3>2 DEF SessionTyped, SessionType
  <2>6. last' \in BOOLEAN /\ (last' => last)
    BY DEF Debug!ConnectedNow, Debug!Answered, Debug!Await, Debug!said
  <2>7. todo' \in Seq(OnItsWay)
    BY <2>2
  <2>8. UNCHANGED <<kind, server, gdb, core, pipe, lease, answer, doubt, reached>>
    BY <2>2 DEF DebugInv, Debug!ConnectedNow, Debug!Answered, Debug!Await, Debug!said
  <2>9. WrittenTo("reset")
    BY <1>1, <2>3, <2>8, AskAsks DEF DebugInv, SessionTyped, Debug!ConnectedNow, Debug!Answered, Debug!At, Debug!Commands
  <2>10. ~Answering /\ ~Taken /\ ~Awaiting /\ \A c : AwaitedLast(c)
    BY <2>3, <2>4, NothingAwaited, NoneAwaited DEF DebugInv, Debug!Commands
  <2>11. SessionTyped'
    BY <2>4, <2>5, <2>6, <2>7, <2>8, <2>9 DEF DebugInv, SessionTyped
  <2>12. StepsOf'
    BY <2>3, <2>4 DEF DebugInv, StepsOf, Debug!Commands, Resting
  <2>13. Places'
    BY <2>3, <2>4, <2>5, <2>8, <2>9, <2>10 DEF DebugInv, Places, LeaseReasoned
  <2>14. ProcessesNamed'
    BY <2>4, <2>5, <2>6, <2>7, <2>8 DEF DebugInv, ProcessesNamed
  <2>15. Untouched'
    BY <2>4, <2>5 DEF DebugInv, Untouched
  <2>16. OneAwaited'
    BY <2>4, <2>5, <2>8, <2>9, <2>10 DEF DebugInv, OneAwaited, WrittenTo, SamePipe, Debug!StopWaits
  <2>17. NoLateContinue'
    BY <1>1, <2>3, <2>9, <2>10 DEF DebugInv, SessionTyped, StepsOf, NoLateContinue, Places, Trusted, WrittenTo, SamePipe
  <2>18. ConnectAlone'
    BY <1>1, <2>3, <2>4, <2>5, <2>6, <2>7, <2>8, <2>9, <2>10, IdleTyped, NoSessionTyped, NoLeaseTyped,
       NoStopsThen, NothingWritten, NothingAnswered DEF DebugInv, SessionTyped, StepsOf, ConnectAlone, Places,
       ProcessesNamed, OneAwaited, StartHalts, WrittenTo, SamePipe, Debug!StopWaits, Debug!Commands, Resting
  <2>19. StopsFresh'
    BY <2>3, <2>4, <2>5, <2>6, <2>7, <2>8, <2>9, <2>10 DEF DebugInv, SessionTyped, StepsOf, StopsFresh,
       ConnectAlone, Trusted, Resuming, Lost, Quiet, WrittenTo, SamePipe, Debug!StopWaits
  <2>20. HaltKnown'
    BY <2>4 DEF DebugInv, SessionTyped, HaltKnown
  <2>21. StartHalts'
    BY <2>3, <2>4, <2>7, <2>8, <2>9, <2>10, NothingAnswered DEF DebugInv, StartHalts, Places, Lost, WrittenTo, SamePipe,
       Debug!StopWaits
  <2>22. StopProves'
    BY <2>4, <2>5 DEF DebugInv, StopProves
  <2>23. BreakpointsKnown'
    BY <1>1, <2>3, <2>8, <2>9, <2>10 DEF DebugInv, BreakpointsKnown, Places, ProcessesNamed, Disarmed, WrittenTo,
       SamePipe
  <2>24. LeftProved'
    BY <2>3, <2>4, <2>5, <2>6, <2>7 DEF DebugInv, LeftProved, Places
  <2>25. EndProved'
    BY <2>4, <2>5 DEF DebugInv, EndProved
  <2> QED BY <2>11, <2>12, <2>13, <2>14, <2>15, <2>16, <2>17, <2>18, <2>19, <2>20, <2>21, <2>22, <2>23, <2>24,
        <2>25 DEF DebugInv
<1>2. CASE ~session.resets
  <2>1. call.tool = "start" /\ call.step = "connect" /\ call.res = "ok"
    BY DEF Debug!ConnectedNow, Debug!Answered, Debug!At
  <2>2. /\ call' \in CallType /\ call'.tool = "start" /\ call'.step = "poll"
        /\ call'.res = (IF last THEN "stop" ELSE "") /\ call'.attempts = call.attempts
    BY <1>2, AwaitTyped DEF DebugInv, SessionTyped, Places, LeaseReasoned, SessionType, CallType, AnswerType, Tools,
       Steps, Debug!CleanupReasons, Debug!Commands, Debug!StopWaits, Resting, Debug!Results, Debug!ConnectedNow, Debug!Answered, Debug!At, Debug!Ask, Debug!target,
       Debug!said
  <2>3. /\ session' \in SessionType /\ session'.status = "halted" /\ session'.phase = "connected"
        /\ session'.breakpoints = session.breakpoints /\ session'.unconfirmed = session.unconfirmed
    <3>1. session' = [session EXCEPT !.phase = "connected", !.status = "halted"]
      BY <1>2 DEF Debug!ConnectedNow
    <3>2. SessionTyped /\ Places /\ call \in CallType
      BY DEF DebugInv, SessionTyped
    <3> QED BY <3>1, <3>2 DEF SessionTyped, SessionType
  <2>4. last' = FALSE
    BY <1>2, AwaitTyped DEF DebugInv, SessionTyped, Places, CallType, Debug!StopWaits, Debug!ConnectedNow, Debug!Answered
  <2>5. UNCHANGED <<kind, server, gdb, core, todo, pipe, lease, answer, doubt, reached>>
    BY <1>2, AwaitTyped DEF DebugInv, SessionTyped, Places, CallType, Debug!StopWaits, Debug!ConnectedNow, Debug!Answered, Debug!target,
       Debug!said
  <2>6. SamePipe /\ SameTodo
    BY <2>4, <2>5, PipeStays, TodoStays
  <2>7. ~Answering /\ ~Taken /\ ~Awaiting /\ \A c : AwaitedLast(c)
    BY <1>2, <2>1, <2>2, NothingAwaited, NoneAwaited DEF DebugInv
  <2>8. SessionTyped'
    BY <2>1, <2>2, <2>3, <2>4, <2>5, <2>6 DEF DebugInv, SessionTyped
  <2>9. StepsOf'
    BY <2>1, <2>2 DEF StepsOf, SamePipe, SameTodo, Debug!StopWaits, Debug!Commands, Resting
  <2>10. Places'
    BY <2>1, <2>2, <2>3, <2>4, <2>5, <2>6, <2>7 DEF DebugInv, Places, LeaseReasoned
  <2>11. ProcessesNamed'
    BY <1>2, <2>1, <2>2, <2>3, <2>4, <2>5 DEF DebugInv, SessionTyped, StepsOf, ProcessesNamed, Places, SamePipe
  <2>12. Untouched'
    BY <2>1, <2>2 DEF DebugInv, Untouched
  <2>13. OneAwaited'
    BY <2>1, <2>2, <2>5, <2>6, <2>7 DEF DebugInv, OneAwaited, SamePipe, SameTodo, Debug!Commands
  <2>14. NoLateContinue'
    BY <2>1, <2>2, <2>6, <2>7 DEF DebugInv, NoLateContinue, Trusted, SameTodo
  <2>15. ConnectAlone'
    BY <2>1, <2>2, <2>5, <2>6, NoStopsThen, NothingWritten, NothingAnswered DEF DebugInv, ConnectAlone, Places,
       ProcessesNamed, OneAwaited, SameTodo, Debug!StopWaits
  <2>16. StopsFresh'
    BY <2>1, <2>2, <2>3, <2>4, <2>5, <2>6, <2>7 DEF DebugInv, StopsFresh, Trusted, Resuming, Lost, SamePipe,
       SameTodo
  <2>17. HaltKnown'
    BY <2>2, <2>3 DEF SessionTyped, HaltKnown
  <2>18. StartHalts'
    BY <1>2, <2>1, <2>2, <2>3, <2>4, <2>5, <2>6, <2>7 DEF DebugInv, StartHalts, SamePipe, SameTodo
  <2>19. StopProves'
    BY <2>1, <2>2 DEF DebugInv, StopProves
  <2>20. BreakpointsKnown'
    BY <2>1, <2>2, <2>5, <2>6, NothingAnswered DEF DebugInv, BreakpointsKnown, Places, Disarmed, SamePipe, SameTodo,
       Debug!StopWaits
  <2>21. LeftProved'
    BY <2>2, <2>3 DEF SessionTyped, LeftProved
  <2>22. EndProved'
    BY <2>1, <2>2 DEF DebugInv, EndProved
  <2> QED BY <2>8, <2>9, <2>10, <2>11, <2>12, <2>13, <2>14, <2>15, <2>16, <2>17, <2>18, <2>19, <2>20, <2>21,
        <2>22 DEF DebugInv
<1> QED BY <1>1, <1>2

LEMMA ResetDoneKeeps ==
    ASSUME DebugInv, Debug!ResetDone
    PROVE  DebugInv'
<1>1. call.tool = "start" /\ call.step = "reset" /\ call.res = "ok"
  BY DEF Debug!ResetDone, Debug!Answered, Debug!At
<1>2. /\ call' \in CallType /\ call'.tool = "start" /\ call'.step = "poll"
      /\ call'.res = (IF last THEN "stop" ELSE "") /\ call'.attempts = call.attempts
  BY AwaitTyped DEF DebugInv, SessionTyped, Debug!Commands, Debug!StopWaits, Resting, Debug!Results, Debug!ResetDone, Debug!Answered, Debug!At
<1>3. /\ session' \in SessionType /\ session'.status = "halted" /\ session'.phase = "connected"
      /\ session'.breakpoints = session.breakpoints /\ session'.unconfirmed = session.unconfirmed
  BY DEF DebugInv, SessionTyped, SessionType, Steps, Debug!ResetDone, Debug!Answered
<1>4. last' = FALSE
  BY AwaitTyped DEF DebugInv, SessionTyped, Debug!StopWaits, Debug!ResetDone
<1>5. UNCHANGED <<kind, server, gdb, core, todo, pipe, lease, answer, doubt, reached>>
  BY AwaitTyped DEF DebugInv, SessionTyped, Debug!StopWaits, Debug!ResetDone, Debug!target, Debug!said
<1>6. SamePipe /\ SameTodo
  BY <1>4, <1>5, PipeStays, TodoStays
<1>7. ~Answering /\ ~Taken /\ ~Awaiting /\ \A c : AwaitedLast(c)
  BY <1>1, <1>2, NothingAwaited, NoneAwaited DEF DebugInv
<1>8. SessionTyped'
  BY <1>1, <1>2, <1>3, <1>4, <1>5, <1>6 DEF DebugInv, SessionTyped
<1>9. StepsOf'
  BY <1>1, <1>2 DEF StepsOf, SamePipe, SameTodo, Debug!StopWaits, Debug!Commands, Resting
<1>10. Places'
  BY <1>1, <1>2, <1>3, <1>4, <1>5, <1>6, <1>7 DEF DebugInv, Places, LeaseReasoned
<1>11. ProcessesNamed'
  BY <1>1, <1>2, <1>3, <1>4, <1>5, <1>6, <1>7 DEF DebugInv, ProcessesNamed, Places
<1>12. Untouched'
  BY <1>2, <1>3 DEF Untouched, SameTodo
<1>13. OneAwaited'
  BY <1>1, <1>2, <1>5, <1>6, <1>7 DEF DebugInv, OneAwaited, SamePipe, SameTodo, Debug!Commands
<1>14. NoLateContinue'
  BY <1>1, <1>2, <1>6, <1>7 DEF DebugInv, NoLateContinue, Trusted, SameTodo
<1>15. ConnectAlone'
  BY <1>1, <1>5, <1>6, <1>7 DEF DebugInv, ConnectAlone, SameTodo
<1>16. StopsFresh'
  BY <1>1, <1>2, <1>3, <1>4, <1>5, <1>6, <1>7 DEF DebugInv, StopsFresh, Trusted, Resuming, Lost, SamePipe
<1>17. HaltKnown'
  BY <1>2, <1>3 DEF SessionTyped, HaltKnown
<1>18. StartHalts'
  BY <1>1, <1>2, <1>3, <1>4, <1>5, <1>6, <1>7 DEF DebugInv, StartHalts, SamePipe, SameTodo
<1>19. StopProves'
  BY <1>2, <1>3 DEF SessionTyped, StopProves
<1>20. BreakpointsKnown'
  BY <1>1, <1>2, <1>5, <1>6, <1>7 DEF DebugInv, BreakpointsKnown, Places, OneAwaited, Disarmed, SamePipe, SameTodo
<1>21. LeftProved'
  BY <1>2, <1>3 DEF SessionTyped, LeftProved
<1>22. EndProved'
  BY <1>1, <1>2 DEF DebugInv, EndProved
<1> QED BY <1>8, <1>9, <1>10, <1>11, <1>12, <1>13, <1>14, <1>15, <1>16, <1>17, <1>18, <1>19, <1>20, <1>21, <1>22
      DEF DebugInv

LEMMA StartFailsKeeps ==
    ASSUME DebugInv, call.tool = "start", call.step \in {"ready", "setup", "connect", "reset"}, Debug!StartFails
    PROVE  DebugInv'
<1>1. PICK ended \in BOOLEAN, named \in Debug!StartEffects :
          LET effect == IF ended \/ call.step \in Debug!Commands THEN named ELSE "unknown" IN
          /\ Debug!Cleans(ended)
          /\ IF ended /\ Debug!TriesAgain
             THEN /\ call' = [Debug!Idle EXCEPT !.tool = "start", !.step = "spawn", !.attempts = call.attempts + 1]
                  /\ session' = Debug!NoSession /\ UNCHANGED <<lease, answer, doubt>>
             ELSE Debug!FailsWith(effect, IF ended /\ effect = "none" THEN Debug!NoSession ELSE [session EXCEPT !.status = "cleanup_required"])
          /\ UNCHANGED <<kind, reached, calls>>
  BY DEF Debug!StartFails
<1>2. /\ server' = (IF ended THEN "gone" ELSE server) /\ server' \in {"none", "up", "gone"}
      /\ gdb' \in [up : BOOLEAN, linked : BOOLEAN] /\ ~gdb'.up /\ ~gdb'.linked
      /\ core' \in [halted : BOOLEAN, armed : BOOLEAN, guarded : BOOLEAN]
      /\ core.halted /\ (core.guarded \/ server # "up" \/ ~gdb.linked) => core'.halted
      /\ ~core.armed => ~core'.armed
      /\ todo' = <<>> /\ pipe' = <<>> /\ last' = FALSE
  <2>1. SessionTyped /\ Debug!CleanUp(ended)
    BY <1>1 DEF DebugInv, Debug!Cleans
  <2> QED BY <2>1, CleanUpTyped
<1>3. /\ SessionTyped /\ LeaseReasoned /\ call.attempts \in Nat /\ session \in SessionType
      /\ session.status = "starting" /\ ~session.breakpoints
  BY DEF DebugInv, Places, SessionTyped, CallType
<1>4. named \in {"none", "unknown"} /\ (named = "none" => session.phase \in Debug!BeforeConnect)
  BY DEF Debug!StartEffects
<1>5. PICK effect \in {"none", "unknown"} :
          /\ effect = "none" => session.phase \in Debug!BeforeConnect
          /\ ~(ended /\ Debug!TriesAgain) =>
                Debug!FailsWith(effect, IF ended /\ effect = "none" THEN Debug!NoSession ELSE [session EXCEPT !.status = "cleanup_required"])
  BY <1>1, <1>4
<1>6. PICK kept \in SessionType :
          /\ kept = (IF ended /\ effect = "none" THEN Debug!NoSession ELSE [session EXCEPT !.status = "cleanup_required"])
          /\ ~kept.breakpoints /\ (kept = Debug!NoSession => ended)
          /\ (kept # Debug!NoSession => kept.status = "cleanup_required")
  <2>1. /\ [session EXCEPT !.status = "cleanup_required"] \in SessionType
        /\ [session EXCEPT !.status = "cleanup_required"].status = "cleanup_required"
        /\ ~[session EXCEPT !.status = "cleanup_required"].breakpoints
    BY <1>3 DEF SessionType
  <2> QED BY <2>1, NoSessionTyped
<1>7. ASSUME ~(ended /\ Debug!TriesAgain)
      PROVE  /\ call' = Debug!Idle /\ answer' \in AnswerType /\ answer'.tool = "start" /\ ~answer'.safe
             /\ (answer'.effect = "none" => call.attempts = 0 /\ effect = "none")
             /\ session' \in SessionType /\ (session' = Debug!NoSession => kept = Debug!NoSession /\ call.attempts = 0)
             /\ (session' = Debug!NoSession \/ session'.status = "cleanup_required" \/ session' = kept)
             /\ (session' # Debug!NoSession => doubt' /\ lease'.state # "none")
             /\ (session' = Debug!NoSession => (doubt' <=> doubt))
             /\ doubt' \in BOOLEAN /\ lease' \in LeaseType /\ LeaseReasoned'
             /\ (session' # Debug!NoSession /\ session' # kept => ~session'.breakpoints)
  <2>1. Debug!FailsWith(effect, kept)
    BY <1>5, <1>6, <1>7
  <2> QED BY <1>3, <2>1, FailsTyped
<1>8. CASE ended /\ Debug!TriesAgain
  <2>1. call.tool = "start" /\ call.step \in {"ready", "setup", "connect", "reset"}
    OBVIOUS
  <2>2. /\ ended /\ call' \in CallType /\ call'.tool = "start" /\ call'.step = "spawn" /\ call'.res = ""
        /\ call'.attempts # 0
    <3>1. ended /\ call' = [Debug!Idle EXCEPT !.tool = "start", !.step = "spawn", !.attempts = call.attempts + 1]
      BY <1>8, <1>1
    <3>2. PICK n \in Nat : n = call.attempts + 1 /\ n # 0
      BY <1>3
    <3>3. call' = [Debug!Idle EXCEPT !.tool = "start", !.step = "spawn", !.attempts = n]
      BY <3>1, <3>2
    <3> QED BY <3>1, <3>2, <3>3, IdleTyped DEF CallType, Tools, Steps, Resting
  <2>3. session' = Debug!NoSession
    BY <1>8, <1>1
  <2>4. server' = (IF ended THEN "gone" ELSE server) /\ server' \in {"none", "up", "gone"}
    BY <1>2
  <2>5. gdb' \in [up : BOOLEAN, linked : BOOLEAN] /\ ~gdb'.up /\ ~gdb'.linked
    BY <1>2
  <2>6. core' \in [halted : BOOLEAN, armed : BOOLEAN, guarded : BOOLEAN]
    BY <1>2
  <2>7. core.halted /\ (core.guarded \/ server # "up" \/ ~gdb.linked) => core'.halted
    BY <1>2
  <2>8. ~core.armed => ~core'.armed
    BY <1>2
  <2>9. UNCHANGED <<kind, lease, answer, doubt, reached>>
    BY <1>8, <1>1
  <2>10. Emptied
    BY <1>2, StreamEmptied
  <2>11. SessionTyped'
    BY <2>2, <2>3, <2>4, <2>5, <2>6, <2>7, <2>8, <2>9, <2>10, EmptySeq, IdleTyped, NoSessionTyped, NoLeaseTyped
       DEF DebugInv, SessionTyped, Emptied
  <2>12. StepsOf'
    BY <2>2, <2>3 DEF SessionTyped, StepsOf
  <2>13. Places'
    BY <2>1, <2>2, <2>3, <2>4, <2>9, <2>10, IdleTyped, NoSessionTyped DEF DebugInv, SessionTyped, StepsOf, Places,
       ProcessesNamed, LeaseReasoned
  <2>14. ProcessesNamed'
    BY <1>8, <1>1, <1>2 DEF DebugInv, ProcessesNamed, Places
  <2>15. Untouched'
    BY <2>1, <2>2 DEF DebugInv, Untouched
  <2>16. OneAwaited'
    BY <1>1, <1>2, <2>10 DEF DebugInv, OneAwaited, Emptied
  <2>17. NoLateContinue'
    BY <2>10 DEF DebugInv, NoLateContinue, Places, Emptied, Debug!StopWaits
  <2>18. ConnectAlone'
    BY <2>10 DEF StepsOf, ConnectAlone, Emptied, Debug!StopWaits
  <2>19. StopsFresh'
    BY <1>2, <2>1 DEF SessionTyped, StopsFresh
  <2>20. HaltKnown'
    BY <2>2, <2>3 DEF SessionTyped, HaltKnown
  <2>21. StartHalts'
    BY <2>5, <2>6 DEF DebugInv, StartHalts
  <2>22. StopProves'
    BY <2>1, <2>2 DEF DebugInv, StopProves
  <2>23. BreakpointsKnown'
    <3>1. kind = "ended" => ~core.armed
      BY <1>3 DEF DebugInv, BreakpointsKnown, Disarmed
    <3>2. /\ kind' = kind /\ (~core.armed => ~core'.armed) /\ call'.tool = "start" /\ call'.step = "spawn"
          /\ session' = Debug!NoSession
      BY <2>1, <2>2, <2>3, <2>7, <2>8, <2>9
    <3>3. \A c : ~Writing(c)'
      BY <2>10 DEF Emptied
    <3>4. kind = "ended" => Disarmed'
      BY <3>1, <3>2, <3>3 DEF Disarmed
    <3> QED BY <3>2, <3>4 DEF BreakpointsKnown
  <2>24. LeftProved'
    BY <2>3, <2>9, NoSessionTyped, NoLeaseTyped DEF StepsOf, LeftProved
  <2>25. EndProved'
    BY <2>1, <2>2 DEF DebugInv, EndProved
  <2> QED BY <2>11, <2>12, <2>13, <2>14, <2>15, <2>16, <2>17, <2>18, <2>19, <2>20, <2>21, <2>22, <2>23, <2>24,
        <2>25 DEF DebugInv
<1>9. CASE ~(ended /\ Debug!TriesAgain)
  <2>1. call.tool = "start" /\ call.step \in {"ready", "setup", "connect", "reset"}
    OBVIOUS
  <2>2. call' = Debug!Idle
    BY <1>9, <1>7
  <2>3. /\ answer' \in AnswerType /\ answer'.tool = "start" /\ ~answer'.safe
        /\ (answer'.effect = "none" => call.attempts = 0 /\ session.phase \in Debug!BeforeConnect)
    BY <1>9, <1>5, <1>7
  <2>4. /\ session' \in SessionType
        /\ (session' = Debug!NoSession \/ (session'.status = "cleanup_required" /\ ~session'.breakpoints /\ doubt' /\ lease'.state # "none"))
    BY <1>9, <1>6, <1>7
  <2>5. session' = Debug!NoSession => ended /\ doubt' = doubt /\ call.attempts = 0
    BY <1>9, <1>3, <1>6, <1>7 DEF SessionTyped
  <2>6. doubt' \in BOOLEAN /\ lease' \in LeaseType /\ LeaseReasoned'
    BY <1>9, <1>7
  <2>7. server' = (IF ended THEN "gone" ELSE server) /\ server' \in {"none", "up", "gone"}
    BY <1>2
  <2>8. gdb' \in [up : BOOLEAN, linked : BOOLEAN] /\ ~gdb'.up /\ ~gdb'.linked
    BY <1>2
  <2>9. core' \in [halted : BOOLEAN, armed : BOOLEAN, guarded : BOOLEAN]
    BY <1>2
  <2>10. core.halted /\ (core.guarded \/ server # "up" \/ ~gdb.linked) => core'.halted
    BY <1>2
  <2>11. ~core.armed => ~core'.armed
    BY <1>2
  <2>12. UNCHANGED <<kind, reached>>
    BY <1>1
  <2>13. Emptied
    BY <1>2, StreamEmptied
  <2>14. SessionTyped'
    BY <2>1, <2>2, <2>3, <2>4, <2>5, <2>6, <2>7, <2>8, <2>9, <2>10, <2>11, <2>12, <2>13, EmptySeq, IdleTyped,
       NoSessionTyped, NoLeaseTyped DEF DebugInv, SessionTyped, Emptied
  <2>15. StepsOf'
    BY <2>2, <2>13, IdleTyped, NoSessionTyped DEF DebugInv, StepsOf
  <2>16. Places'
    BY <1>1, <1>2, <2>1, <2>2, <2>3, <2>4, <2>5, <2>6, IdleTyped, NoSessionTyped DEF DebugInv, Places
  <2>17. ProcessesNamed'
    BY <1>2, <2>1, <2>4, <2>5, IdleTyped, NoSessionTyped DEF StepsOf, ProcessesNamed
  <2>18. Untouched'
    BY <1>1, <1>2, <2>1, <2>2, <2>3, <2>4, IdleTyped, NoSessionTyped, NoLeaseTyped DEF DebugInv, Untouched, Places,
       Resting, Debug!BeforeConnect
  <2>19. OneAwaited'
    BY <1>1, <1>2, <2>13 DEF DebugInv, OneAwaited, Emptied
  <2>20. NoLateContinue'
    BY <2>13 DEF DebugInv, NoLateContinue, Places, Emptied, Debug!StopWaits
  <2>21. ConnectAlone'
    BY <2>12, <2>13 DEF StepsOf, ConnectAlone, Emptied, Debug!StopWaits
  <2>22. StopsFresh'
    BY <2>8, <2>9 DEF SessionTyped, StopsFresh
  <2>23. HaltKnown'
    BY <2>1, <2>2, <2>3, <2>4, <2>13, IdleTyped, NoSessionTyped DEF StepsOf, HaltKnown, Places
  <2>24. StartHalts'
    BY <2>7, <2>8 DEF DebugInv, StartHalts
  <2>25. StopProves'
    BY <2>2, <2>13, IdleTyped DEF DebugInv, StepsOf, StopProves
  <2>26. BreakpointsKnown'
    BY <2>10, <2>11, <2>12, <2>13 DEF DebugInv, SessionTyped, StepsOf, BreakpointsKnown, Places, ProcessesNamed,
       Debug!Results, Disarmed, Emptied, Debug!StopWaits
  <2>27. LeftProved'
    BY <2>4, NoSessionTyped DEF SessionTyped, StepsOf, LeftProved
  <2>28. EndProved'
    BY <2>2, <2>3 DEF DebugInv, EndProved
  <2> QED BY <2>14, <2>15, <2>16, <2>17, <2>18, <2>19, <2>20, <2>21, <2>22, <2>23, <2>24, <2>25, <2>26, <2>27,
        <2>28 DEF DebugInv
<1> QED BY <1>8, <1>9

LEMMA StartedKeeps ==
    ASSUME DebugInv, Debug!Started
    PROVE  DebugInv'
<1>1. call.tool = "start" /\ call.step = "poll" /\ call.res # ""
  BY DEF Debug!Started, Debug!Answered, Debug!At
<1>2. call' = Debug!Idle
  BY DEF Debug!Started, Debug!Answered
<1>3. /\ session' \in SessionType /\ session'.status \in {"halted", "error"} /\ session'.phase = session.phase
      /\ session'.breakpoints = session.breakpoints /\ session'.unconfirmed = session.unconfirmed
  BY DEF DebugInv, SessionTyped, Places, LeaseReasoned, SessionType, Steps, Debug!Started, Debug!Answered, Debug!At
<1>4. (session'.status = "halted" => session.status = "halted")
  BY DEF LeaseReasoned, Debug!Started
<1>5. doubt' = FALSE
  BY DEF Debug!Started, Debug!Answered
<1>6. answer' \in AnswerType /\ answer'.tool = "start" /\ ~answer'.safe /\ answer'.effect = "committed"
  BY DEF CallType, AnswerType, Tools, Steps, Debug!Started, Debug!Answered
<1>7. UNCHANGED <<kind, server, gdb, core, todo, pipe, last, lease, reached>>
  BY DEF Debug!StopWaits, Debug!Started, Debug!target, Debug!stream
<1>8. SamePipe /\ SameTodo
  BY <1>7, PipeStays, TodoStays
<1>9. ~Answering /\ ~Taken /\ ~Awaiting /\ \A c : AwaitedLast(c)
  BY <1>1, NothingAwaited, NoneAwaited DEF DebugInv, Debug!Commands
<1>10. SessionTyped'
  BY <1>2, <1>3, <1>4, <1>5, <1>6, <1>7, <1>8, IdleTyped DEF DebugInv, SessionTyped
<1>11. StepsOf'
  BY <1>1, <1>2, <1>9, IdleTyped, NoSessionTyped DEF StepsOf
<1>12. Places'
  BY <1>2, <1>3, <1>6, <1>7, IdleTyped, NoSessionTyped DEF DebugInv, SessionTyped, StepsOf, Places, ProcessesNamed,
     LeaseReasoned
<1>13. ProcessesNamed'
  BY <1>1, <1>2, <1>3, <1>6, <1>7, IdleTyped, NoSessionTyped DEF DebugInv, SessionTyped, StepsOf, ProcessesNamed,
     Places, SamePipe
<1>14. Untouched'
  BY <1>2, <1>3, <1>6, <1>7, IdleTyped, NoSessionTyped DEF StepsOf, Untouched
<1>15. OneAwaited'
  BY <1>2, <1>3, <1>7, <1>8, <1>9, IdleTyped DEF DebugInv, SessionTyped, StepsOf, OneAwaited, SamePipe, SameTodo
<1>16. NoLateContinue'
  BY <1>1, <1>8, <1>9 DEF DebugInv, NoLateContinue, Trusted, SameTodo
<1>17. ConnectAlone'
  BY <1>1, <1>7, <1>8, <1>9 DEF DebugInv, ConnectAlone, SameTodo
<1>18. StopsFresh'
  BY <1>1, <1>7, <1>8, <1>9, NoStopsThen DEF DebugInv, SessionTyped, StepsOf, StopsFresh, StartHalts, HaltKnown,
     SamePipe, SameTodo
<1>19. HaltKnown'
  BY <1>1, <1>2, <1>3, <1>7, <1>8, <1>9, IdleTyped DEF DebugInv, SessionTyped, StepsOf, HaltKnown, StartHalts,
     ConnectAlone, Trusted, Quiet, SamePipe, SameTodo
<1>20. StartHalts'
  BY <1>1, <1>2, <1>9, IdleTyped DEF StartHalts, Places
<1>21. StopProves'
  BY <1>2, <1>8, <1>9, IdleTyped DEF StepsOf, StopProves
<1>22. BreakpointsKnown'
  BY <1>1, <1>2, <1>3, <1>4, <1>7, <1>8, <1>9, IdleTyped, NothingAnswered DEF DebugInv, BreakpointsKnown, Places,
     Disarmed, SamePipe, SameTodo, Debug!StopWaits
<1>23. LeftProved'
  BY <1>3 DEF DebugInv, SessionTyped, LeftProved
<1>24. EndProved'
  BY <1>6, <1>7 DEF DebugInv, EndProved
<1> QED BY <1>10, <1>11, <1>12, <1>13, <1>14, <1>15, <1>16, <1>17, <1>18, <1>19, <1>20, <1>21, <1>22, <1>23,
      <1>24 DEF DebugInv

-----------------------------------------------------------------------------
(* The steps of a call on a session.                                        *)

LEMMA DebugStatusKeeps ==
    ASSUME DebugInv, Debug!Status
    PROVE  DebugInv'
<1>1. call.tool = "none" /\ call.step = "none" /\ session.status \in {"halted", "running"}
  BY IdleTyped DEF Debug!Status, Debug!Called
<1>2. /\ session' \in SessionType /\ session'.status = (IF last THEN "halted" ELSE session.status)
      /\ session'.phase = session.phase /\ session'.breakpoints = session.breakpoints
      /\ session'.unconfirmed = session.unconfirmed
  BY RefreshedTyped, IdleTyped DEF DebugInv, SessionTyped, Places, LeaseReasoned, SessionType, CallType, AnswerType,
     Tools, Steps, Debug!CleanupReasons, Debug!Commands, Debug!StopWaits, Resting, Debug!Results, Debug!Status, Debug!Called, Debug!target, Debug!said
<1>3. last' = FALSE
  BY DEF Debug!StopWaits, Debug!Status
<1>4. UNCHANGED <<kind, call, server, gdb, core, todo, pipe, lease, answer, doubt, reached>>
  BY DEF Debug!Status, Debug!Called, Debug!target, Debug!said
<1>5. SamePipe /\ SameTodo
  BY <1>4, PipeStays, TodoStays
<1>6. ~Answering /\ ~Taken /\ ~Awaiting /\ \A c : AwaitedLast(c)
  BY <1>1, NothingAwaited, NoneAwaited DEF DebugInv, Debug!Commands
<1>7. SessionTyped'
  BY <1>2, <1>3, <1>4, <1>5 DEF DebugInv, SessionTyped
<1>8. StepsOf'
  BY <1>4, <1>5, <1>6 DEF DebugInv, SessionTyped, StepsOf
<1>9. Places'
  BY <1>1, <1>2, <1>3, <1>4, <1>5, <1>6 DEF DebugInv, Places, LeaseReasoned
<1>10. ProcessesNamed'
  BY <1>1, <1>2, <1>3, <1>4 DEF DebugInv, ProcessesNamed
<1>11. Untouched'
  BY <1>1, <1>4, <1>5, <1>6 DEF DebugInv, Untouched, SameTodo
<1>12. OneAwaited'
  BY <1>4, <1>5, <1>6 DEF DebugInv, OneAwaited, SamePipe, SameTodo, Debug!Commands
<1>13. NoLateContinue'
  BY <1>1, <1>5, <1>6 DEF DebugInv, NoLateContinue, Trusted, SameTodo
<1>14. ConnectAlone'
  BY <1>4, <1>5, <1>6 DEF DebugInv, ConnectAlone, SameTodo
<1>15. StopsFresh'
  BY <1>1, <1>2, <1>3, <1>4, <1>5, <1>6 DEF DebugInv, StopsFresh, Trusted, Resuming, Lost, SamePipe
<1>16. HaltKnown'
  BY <1>1, <1>2, <1>3, <1>4, <1>5, <1>6 DEF DebugInv, HaltKnown, Trusted, Quiet, SamePipe, SameTodo
<1>17. StartHalts'
  BY <1>1, <1>4, <1>5 DEF StartHalts, SameTodo
<1>18. StopProves'
  BY <1>1, <1>4, <1>5 DEF SessionTyped, StopProves
<1>19. BreakpointsKnown'
  BY <1>1, <1>2, <1>3, <1>4, <1>5, <1>6 DEF DebugInv, BreakpointsKnown, Disarmed, SamePipe, SameTodo
<1>20. LeftProved'
  BY <1>1, <1>2 DEF SessionTyped, LeftProved
<1>21. EndProved'
  BY <1>1, <1>4, <1>5, NoSessionTyped, NoLeaseTyped, NothingAnswered DEF DebugInv, EndProved, Places
<1> QED BY <1>7, <1>8, <1>9, <1>10, <1>11, <1>12, <1>13, <1>14, <1>15, <1>16, <1>17, <1>18, <1>19, <1>20, <1>21
      DEF DebugInv

LEMMA SetBreakpointKeeps ==
    ASSUME DebugInv, Debug!SetBreakpoint
    PROVE  DebugInv'
<1>1. /\ [Debug!Idle EXCEPT !.tool = "set"] \in CallType /\ SessionTyped /\ "insert" \in Debug!Commands
      /\ Debug!Ask([Debug!Idle EXCEPT !.tool = "set"], "insert")
  BY IdleTyped DEF DebugInv, SessionTyped, CallType, Tools, Debug!Commands, Debug!SetBreakpoint
<1>2. /\ call' \in CallType /\ call'.tool = [Debug!Idle EXCEPT !.tool = "set"].tool /\ call'.step = "insert"
      /\ call'.attempts = [Debug!Idle EXCEPT !.tool = "set"].attempts
   /\ call'.res = (IF gdb.up THEN "" ELSE "dead")
   /\ call'.halted = [Debug!Idle EXCEPT !.tool = "set"].halted /\ call'.removed = [Debug!Idle EXCEPT !.tool = "set"].removed
   /\ call'.pinned = [Debug!Idle EXCEPT !.tool = "set"].pinned
   /\ todo' \in Seq(OnItsWay) /\ UNCHANGED <<pipe, server, gdb, core>>
  BY <1>1, AskTyped
<1>3. /\ ([Debug!Idle EXCEPT !.tool = "set"]).tool = "set" /\ ([Debug!Idle EXCEPT !.tool = "set"]).halted
      /\ ([Debug!Idle EXCEPT !.tool = "set"]).removed /\ ([Debug!Idle EXCEPT !.tool = "set"]).pinned
  BY IdleTyped DEF CallType
<1>4. call.tool = "none" /\ call.step = "none" /\ gdb.up /\ session.status \in {"halted", "running"}
  BY IdleTyped DEF DebugInv, Debug!Results, Debug!SetBreakpoint, Debug!Called, Debug!Usable
<1>5. call' \in CallType /\ call'.tool = "set" /\ call'.step = "insert" /\ call'.res = ""
  BY <1>2, <1>3 DEF DebugInv, Debug!Results, Debug!SetBreakpoint, Debug!Called, Debug!Usable
<1>6. todo' \in Seq(OnItsWay)
  BY <1>1, <1>2
<1>7. UNCHANGED <<kind, session, server, gdb, core, pipe, last, lease, answer, doubt, reached>>
  BY <1>2, <1>3 DEF Debug!StopWaits, Debug!SetBreakpoint, Debug!target, Debug!said
<1>8. WrittenTo("insert")
  <2>1. [Debug!Idle EXCEPT !.tool = "set"] \in CallType
    BY IdleTyped DEF CallType, Tools
  <2> QED BY <1>4, <1>7, <2>1, AskAsks DEF DebugInv, Debug!SetBreakpoint, Debug!Commands
<1>9. ~Answering /\ ~Taken /\ ~Awaiting /\ \A c : AwaitedLast(c)
  BY <1>4, NothingAwaited, NoneAwaited DEF DebugInv, Debug!Commands
<1>10. SessionTyped'
  BY <1>5, <1>6, <1>7, <1>8 DEF DebugInv, SessionTyped
<1>11. StepsOf'
  BY <1>4, <1>5 DEF SessionTyped, StepsOf
<1>12. Places'
  BY <1>4, <1>5, <1>6, <1>7, <1>8, <1>9 DEF DebugInv, Places, LeaseReasoned
<1>13. ProcessesNamed'
  BY <1>4, <1>5, <1>6, <1>7 DEF DebugInv, ProcessesNamed
<1>14. Untouched'
  BY <1>4, <1>5 DEF DebugInv, Untouched
<1>15. OneAwaited'
  BY <1>5, <1>6, <1>7, <1>8, <1>9 DEF DebugInv, OneAwaited, WrittenTo, SamePipe, Debug!StopWaits
<1>16. NoLateContinue'
  BY <1>4, <1>5, <1>8, <1>9 DEF DebugInv, SessionTyped, StepsOf, NoLateContinue, Places, Trusted, WrittenTo, SamePipe
<1>17. ConnectAlone'
  BY <1>4, <1>5, <1>8, <1>9 DEF DebugInv, SessionTyped, StepsOf, ConnectAlone, WrittenTo, SamePipe
<1>18. StopsFresh'
  BY <1>4, <1>5, <1>6, <1>7, <1>8, <1>9 DEF DebugInv, SessionTyped, StepsOf, StopsFresh, ConnectAlone, Trusted,
     Resuming, Lost, Quiet, WrittenTo, SamePipe, Debug!StopWaits
<1>19. HaltKnown'
  BY <1>4, <1>5, <1>6, <1>7, <1>8, <1>9 DEF DebugInv, SessionTyped, StepsOf, HaltKnown, Quiet, Resuming, Lost,
     WrittenTo, SamePipe, Debug!StopWaits
<1>20. StartHalts'
  BY <1>4, <1>5 DEF DebugInv, StartHalts
<1>21. StopProves'
  BY <1>4, <1>5 DEF DebugInv, StopProves
<1>22. BreakpointsKnown'
  BY <1>4, <1>5, <1>6, <1>7, <1>8, <1>9 DEF DebugInv, BreakpointsKnown, Places, ProcessesNamed, Disarmed, WrittenTo,
     SamePipe
<1>23. LeftProved'
  BY <1>4, <1>7, <1>8 DEF SessionTyped, LeftProved
<1>24. EndProved'
  BY <1>4, <1>5 DEF DebugInv, EndProved
<1> QED BY <1>10, <1>11, <1>12, <1>13, <1>14, <1>15, <1>16, <1>17, <1>18, <1>19, <1>20, <1>21, <1>22, <1>23,
      <1>24 DEF DebugInv

LEMMA BreakpointSetKeeps ==
    ASSUME DebugInv, Debug!BreakpointSet
    PROVE  DebugInv'
<1>1. call.tool = "set" /\ call.step = "insert" /\ call.res # ""
  BY DEF Debug!BreakpointSet, Debug!Answered, Debug!At
<1>2. call' = Debug!Idle
  BY AnswersTyped, IdleTyped DEF DebugInv, SessionTyped, Places, LeaseReasoned, Debug!CleanupReasons, Debug!Results,
     Debug!BreakpointSet, Debug!Answered
<1>3. /\ session' \in SessionType /\ session'.status = session.status /\ session'.phase = session.phase
      /\ (session'.breakpoints <=> session.breakpoints \/ call.res \in {"ok", "timeout"})
      /\ session'.unconfirmed = session.unconfirmed
  <2>1. PICK s \in SessionType : /\ s = [session EXCEPT !.breakpoints = @ \/ call.res \in {"ok", "timeout"}]
                                 /\ s.status = session.status /\ s.phase = session.phase
                                 /\ s.unconfirmed = session.unconfirmed
                                 /\ (s.breakpoints <=> session.breakpoints \/ call.res \in {"ok", "timeout"})
    <3>1. session \in SessionType
      BY DEF DebugInv, SessionTyped
    <3>2. PICK b \in BOOLEAN : b <=> (session.breakpoints \/ call.res \in {"ok", "timeout"})
      OBVIOUS
    <3>3. [session EXCEPT !.breakpoints = @ \/ call.res \in {"ok", "timeout"}] = [session EXCEPT !.breakpoints = b]
      BY <3>2
    <3>4. [session EXCEPT !.breakpoints = b] \in SessionType
      BY <3>1, <3>2 DEF SessionType
    <3>5. /\ [session EXCEPT !.breakpoints = b].status = session.status
          /\ [session EXCEPT !.breakpoints = b].phase = session.phase
          /\ [session EXCEPT !.breakpoints = b].unconfirmed = session.unconfirmed
          /\ [session EXCEPT !.breakpoints = b].breakpoints = b
      OBVIOUS
    <3>6. PICK s \in SessionType : s = [session EXCEPT !.breakpoints = b] /\ s.status = session.status /\ s.phase = session.phase
                                   /\ s.unconfirmed = session.unconfirmed /\ s.breakpoints = b
      BY <3>4, <3>5
    <3> QED BY <3>2, <3>3, <3>6
  <2>2. session' = Debug!Poisoned(s)
    BY <2>1 DEF Debug!BreakpointSet
  <2> QED BY <2>1, <2>2, PoisonedTyped
<1>4. lease' \in LeaseType /\ LeaseReasoned' /\ (lease.state # "none" => lease'.state # "none")
  BY AnswersTyped, IdleTyped DEF DebugInv, SessionTyped, Places, LeaseReasoned, Debug!CleanupReasons, Debug!Results,
     Debug!BreakpointSet, Debug!Answered
<1>5. doubt' \in BOOLEAN /\ (doubt' <=> doubt \/ call.res \notin {"ok", "refused"})
  BY PoisonedTyped, AnswersTyped, IdleTyped DEF DebugInv, SessionTyped, Places, LeaseReasoned, SessionType,
     CallType, AnswerType, Tools, Steps, Debug!CleanupReasons, Debug!Commands, Debug!StopWaits, Resting, Debug!Results, Debug!BreakpointSet,
     Debug!Answered, Debug!At, Debug!target, Debug!stream
<1>6. answer' \in AnswerType /\ answer'.tool = "set" /\ ~answer'.safe
  BY PoisonedTyped, AnswersTyped, IdleTyped DEF DebugInv, SessionTyped, Places, LeaseReasoned, SessionType,
     CallType, AnswerType, Tools, Steps, Debug!CleanupReasons, Debug!Commands, Debug!StopWaits, Resting, Debug!Results, Debug!BreakpointSet,
     Debug!Answered, Debug!At, Debug!target, Debug!stream
<1>7. UNCHANGED <<kind, server, gdb, core, todo, pipe, last, reached>>
  BY DEF Debug!StopWaits, Debug!BreakpointSet, Debug!target, Debug!stream
<1>8. SamePipe /\ SameTodo
  BY <1>7, PipeStays, TodoStays
<1>9. ~Answering /\ ~Taken /\ ~Awaiting /\ \A c : AwaitedLast(c)
  BY <1>1, NothingAwaited, NoneAwaited DEF DebugInv, Debug!Commands
<1>10. SessionTyped'
  BY <1>2, <1>3, <1>4, <1>5, <1>6, <1>7, <1>8, IdleTyped DEF DebugInv, SessionTyped
<1>11. StepsOf'
  BY <1>1, <1>2, <1>9, IdleTyped, NoSessionTyped DEF StepsOf
<1>12. Places'
  BY <1>1, <1>2, <1>3, <1>4, <1>5, IdleTyped, NoSessionTyped DEF DebugInv, SessionTyped, StepsOf, Places
<1>13. ProcessesNamed'
  BY <1>2, <1>3, <1>4, <1>5, <1>6, <1>7, IdleTyped, NoSessionTyped DEF DebugInv, SessionTyped, StepsOf,
     ProcessesNamed
<1>14. Untouched'
  BY <1>2, <1>3, <1>6, <1>7, IdleTyped, NoSessionTyped DEF StepsOf, Untouched
<1>15. OneAwaited'
  BY <1>2, <1>3, <1>7, <1>8, <1>9, IdleTyped DEF DebugInv, SessionTyped, StepsOf, OneAwaited, SamePipe, SameTodo
<1>16. NoLateContinue'
  BY <1>1, <1>7, <1>8, <1>9 DEF DebugInv, NoLateContinue, Places, OneAwaited, Trusted, SamePipe, SameTodo
<1>17. ConnectAlone'
  BY <1>1, <1>7, <1>8, <1>9 DEF DebugInv, ConnectAlone, SameTodo
<1>18. StopsFresh'
  BY <1>1, <1>2, <1>3, <1>4, <1>5, <1>6, <1>7, <1>8, <1>9, IdleTyped DEF DebugInv, SessionTyped, StepsOf,
     StopsFresh, Trusted, Resuming, Lost, Quiet, SamePipe, SameTodo
<1>19. HaltKnown'
  BY <1>1, <1>2, <1>3, <1>4, <1>5, <1>6, <1>7, <1>8, <1>9, IdleTyped DEF DebugInv, SessionTyped, StepsOf, HaltKnown,
     Trusted, Quiet, SamePipe, SameTodo
<1>20. StartHalts'
  BY <1>1, <1>2, <1>9, IdleTyped DEF StartHalts, Places
<1>21. StopProves'
  BY <1>2, <1>8, <1>9, IdleTyped DEF StepsOf, StopProves
<1>22. BreakpointsKnown'
  BY <1>1, <1>2, <1>3, <1>4, <1>7, <1>8, <1>9, IdleTyped, NoStopsThen, NothingWritten, NothingAnswered DEF DebugInv,
     SessionTyped, StepsOf, BreakpointsKnown, Places, ProcessesNamed, OneAwaited, CallType, Debug!Results, Disarmed,
     SamePipe, SameTodo, Debug!StopWaits
<1>23. LeftProved'
  BY <1>1, <1>2, <1>3 DEF DebugInv, LeftProved, Places
<1>24. EndProved'
  BY <1>6, <1>7 DEF DebugInv, EndProved
<1> QED BY <1>10, <1>11, <1>12, <1>13, <1>14, <1>15, <1>16, <1>17, <1>18, <1>19, <1>20, <1>21, <1>22, <1>23,
      <1>24 DEF DebugInv

LEMMA ClearBreakpointsKeeps ==
    ASSUME DebugInv, Debug!ClearBreakpoints
    PROVE  DebugInv'
<1>1. /\ [Debug!Idle EXCEPT !.tool = "clear"] \in CallType /\ SessionTyped /\ "remove" \in Debug!Commands
      /\ Debug!Ask([Debug!Idle EXCEPT !.tool = "clear"], "remove")
  BY IdleTyped DEF DebugInv, SessionTyped, CallType, Tools, Debug!Commands, Debug!ClearBreakpoints
<1>2. /\ call' \in CallType /\ call'.tool = [Debug!Idle EXCEPT !.tool = "clear"].tool /\ call'.step = "remove"
      /\ call'.attempts = [Debug!Idle EXCEPT !.tool = "clear"].attempts
   /\ call'.res = (IF gdb.up THEN "" ELSE "dead")
   /\ call'.halted = [Debug!Idle EXCEPT !.tool = "clear"].halted
   /\ call'.removed = [Debug!Idle EXCEPT !.tool = "clear"].removed
   /\ call'.pinned = [Debug!Idle EXCEPT !.tool = "clear"].pinned
   /\ todo' \in Seq(OnItsWay) /\ UNCHANGED <<pipe, server, gdb, core>>
  BY <1>1, AskTyped
<1>3. /\ ([Debug!Idle EXCEPT !.tool = "clear"]).tool = "clear" /\ ([Debug!Idle EXCEPT !.tool = "clear"]).halted
      /\ ([Debug!Idle EXCEPT !.tool = "clear"]).removed /\ ([Debug!Idle EXCEPT !.tool = "clear"]).pinned
  BY IdleTyped DEF CallType
<1>4. call.tool = "none" /\ call.step = "none" /\ gdb.up /\ session.status \in {"halted", "running"}
  BY IdleTyped DEF DebugInv, Debug!Results, Debug!ClearBreakpoints, Debug!Called, Debug!Usable
<1>5. call' \in CallType /\ call'.tool = "clear" /\ call'.step = "remove" /\ call'.res = ""
  BY <1>2, <1>3 DEF DebugInv, Debug!Results, Debug!ClearBreakpoints, Debug!Called, Debug!Usable
<1>6. todo' \in Seq(OnItsWay)
  BY <1>1, <1>2
<1>7. UNCHANGED <<kind, session, server, gdb, core, pipe, last, lease, answer, doubt, reached>>
  BY <1>2, <1>3 DEF Debug!StopWaits, Debug!ClearBreakpoints, Debug!target, Debug!said
<1>8. WrittenTo("remove")
  <2>1. [Debug!Idle EXCEPT !.tool = "clear"] \in CallType
    BY IdleTyped DEF CallType, Tools
  <2> QED BY <1>4, <1>7, <2>1, AskAsks DEF DebugInv, Debug!ClearBreakpoints, Debug!Commands
<1>9. ~Answering /\ ~Taken /\ ~Awaiting /\ \A c : AwaitedLast(c)
  BY <1>4, NothingAwaited, NoneAwaited DEF DebugInv, Debug!Commands
<1>10. SessionTyped'
  BY <1>5, <1>6, <1>7, <1>8 DEF DebugInv, SessionTyped
<1>11. StepsOf'
  BY <1>4, <1>5 DEF SessionTyped, StepsOf
<1>12. Places'
  BY <1>4, <1>5, <1>6, <1>7, <1>8, <1>9 DEF DebugInv, Places, LeaseReasoned
<1>13. ProcessesNamed'
  BY <1>4, <1>5, <1>6, <1>7 DEF DebugInv, ProcessesNamed
<1>14. Untouched'
  BY <1>4, <1>5 DEF DebugInv, Untouched
<1>15. OneAwaited'
  BY <1>5, <1>6, <1>7, <1>8, <1>9 DEF DebugInv, OneAwaited, WrittenTo, SamePipe, Debug!StopWaits
<1>16. NoLateContinue'
  BY <1>4, <1>5, <1>8, <1>9 DEF DebugInv, SessionTyped, StepsOf, NoLateContinue, Places, Trusted, WrittenTo, SamePipe
<1>17. ConnectAlone'
  BY <1>4, <1>8, <1>9 DEF DebugInv, ConnectAlone, StartHalts, WrittenTo, SamePipe
<1>18. StopsFresh'
  BY <1>4, <1>5, <1>6, <1>7, <1>8, <1>9 DEF DebugInv, SessionTyped, StepsOf, StopsFresh, ConnectAlone, Trusted,
     Resuming, Lost, Quiet, WrittenTo, SamePipe, Debug!StopWaits
<1>19. HaltKnown'
  BY <1>4, <1>5, <1>6, <1>7, <1>8, <1>9 DEF DebugInv, SessionTyped, StepsOf, HaltKnown, Quiet, Resuming, Lost,
     WrittenTo, SamePipe, Debug!StopWaits
<1>20. StartHalts'
  BY <1>4, <1>5 DEF DebugInv, StartHalts
<1>21. StopProves'
  BY <1>4, <1>5 DEF DebugInv, StopProves
<1>22. BreakpointsKnown'
  BY <1>4, <1>5, <1>6, <1>7, <1>8, <1>9 DEF DebugInv, BreakpointsKnown, Places, ProcessesNamed, Disarmed, WrittenTo,
     SamePipe
<1>23. LeftProved'
  BY <1>4, <1>7, <1>8 DEF LeftProved, Places
<1>24. EndProved'
  BY <1>4, <1>5 DEF DebugInv, EndProved
<1> QED BY <1>10, <1>11, <1>12, <1>13, <1>14, <1>15, <1>16, <1>17, <1>18, <1>19, <1>20, <1>21, <1>22, <1>23,
      <1>24 DEF DebugInv

LEMMA BreakpointsClearedKeeps ==
    ASSUME DebugInv, Debug!BreakpointsCleared
    PROVE  DebugInv'
<1>1. CASE call.res = "ok"
  <2>1. call.tool = "clear" /\ call.step = "remove" /\ call.res # ""
    BY DEF Debug!Results, Debug!BreakpointsCleared, Debug!Answered, Debug!At
  <2>2. call' = Debug!Idle
    BY DEF Debug!Results, Debug!BreakpointsCleared, Debug!Poisoned, Debug!Answers
  <2>3. /\ session' \in SessionType /\ session'.status = session.status /\ session'.phase = session.phase
        /\ ~session'.breakpoints /\ session'.unconfirmed = session.unconfirmed
    <3>1. session' = [session EXCEPT !.breakpoints = FALSE]
      BY <1>1 DEF Debug!BreakpointsCleared
    <3>2. SessionTyped /\ Places /\ call \in CallType
      BY DEF DebugInv, SessionTyped
    <3> QED BY <1>1, <3>1, <3>2 DEF SessionTyped, SessionType, CallType
  <2>4. lease' \in LeaseType /\ LeaseReasoned' /\ (lease.state # "none" => lease'.state # "none")
    <3>1. lease' = Debug!Resolved("breakpoint")
      BY <1>1 DEF Debug!BreakpointsCleared
    <3>2. SessionTyped /\ Places /\ call \in CallType
      BY DEF DebugInv, SessionTyped
    <3> QED BY <3>1, <3>2, ResolvedTyped DEF SessionTyped, Places, LeaseReasoned
  <2>5. answer' \in AnswerType /\ answer'.tool = "clear" /\ ~answer'.safe
    <3>1. answer' = [tool |-> "clear", ok |-> TRUE, effect |-> "committed", safe |-> FALSE]
      BY <1>1 DEF Debug!BreakpointsCleared
    <3> QED BY <1>1, <3>1 DEF AnswerType, Tools
  <2>6. UNCHANGED <<kind, server, gdb, core, todo, pipe, last, reached, doubt>>
    BY <1>1 DEF DebugInv, Debug!BreakpointsCleared, Debug!Answered, Debug!target, Debug!stream
  <2>7. SamePipe /\ SameTodo
    BY <2>5, <2>6, PipeStays, TodoStays
  <2>8. ~Answering /\ ~Taken /\ ~Awaiting /\ \A c : AwaitedLast(c)
    BY <1>1, NothingAwaited, NoneAwaited DEF DebugInv, Debug!Commands
  <2>9. SessionTyped'
    BY <2>2, <2>3, <2>4, <2>5, <2>6, <2>7, IdleTyped DEF DebugInv, SessionTyped
  <2>10. StepsOf'
    BY <2>1, <2>2, IdleTyped, NoSessionTyped DEF DebugInv, StepsOf
  <2>11. Places'
    BY <2>1, <2>2, <2>3, <2>4, IdleTyped, NoSessionTyped DEF DebugInv, SessionTyped, StepsOf, Places
  <2>12. ProcessesNamed'
    BY <2>1, <2>2, <2>3, <2>4, <2>5, <2>6, IdleTyped, NoSessionTyped DEF DebugInv, SessionTyped, StepsOf,
       ProcessesNamed
  <2>13. Untouched'
    BY <2>2, <2>3, <2>4, <2>5, <2>8, IdleTyped DEF StepsOf, Untouched
  <2>14. OneAwaited'
    BY <2>2, <2>3, <2>6, <2>7, <2>8, IdleTyped DEF DebugInv, SessionTyped, StepsOf, OneAwaited, SamePipe, SameTodo
  <2>15. NoLateContinue'
    BY <1>1, <2>1, <2>6, <2>7, <2>8 DEF DebugInv, NoLateContinue, Places, OneAwaited, Trusted, SamePipe, SameTodo
  <2>16. ConnectAlone'
    BY <2>1, <2>2, <2>6, <2>7, <2>8 DEF DebugInv, ConnectAlone, SameTodo
  <2>17. StopsFresh'
    BY <1>1, <2>1, <2>2, <2>3, <2>6, <2>7, <2>8, IdleTyped DEF DebugInv, SessionTyped, StepsOf, StopsFresh, Trusted,
       Resuming, Lost, Quiet, SamePipe, SameTodo
  <2>18. HaltKnown'
    BY <1>1, <2>1, <2>2, <2>3, <2>6, <2>7, <2>8, IdleTyped DEF DebugInv, SessionTyped, StepsOf, HaltKnown, Trusted,
       Quiet, SamePipe, SameTodo
  <2>19. StartHalts'
    BY <2>1, <2>2, IdleTyped DEF DebugInv, StartHalts, Places
  <2>20. StopProves'
    BY <2>1, <2>2, IdleTyped DEF DebugInv, StepsOf, StopProves
  <2>21. BreakpointsKnown'
    BY <1>1, <2>1, <2>2, <2>3, <2>6, <2>7, <2>8, IdleTyped, NothingAnswered DEF DebugInv, BreakpointsKnown, Places,
       Disarmed, SamePipe, SameTodo, Debug!StopWaits
  <2>22. LeftProved'
    BY <2>1, <2>2, <2>3, <2>4, <2>5 DEF DebugInv, LeftProved, Places
  <2>23. EndProved'
    BY <2>5, <2>6 DEF DebugInv, EndProved
  <2> QED BY <2>9, <2>10, <2>11, <2>12, <2>13, <2>14, <2>15, <2>16, <2>17, <2>18, <2>19, <2>20, <2>21, <2>22,
        <2>23 DEF DebugInv
<1>2. CASE call.res # "ok"
  <2>1. Debug!Answers(call, FALSE, "unknown", "breakpoint")
    BY <1>2 DEF Debug!BreakpointsCleared
  <2>2. /\ SessionTyped /\ LeaseReasoned /\ call \in CallType /\ (FALSE) \in BOOLEAN
        /\ ("unknown") \in {"none", "unknown", "committed"} /\ "breakpoint" \in Debug!CleanupReasons
    BY DEF DebugInv, Places, SessionTyped, Debug!CleanupReasons
  <2>3. /\ call' = Debug!Idle /\ answer' \in AnswerType /\ answer'.tool = call.tool /\ ~answer'.safe
        /\ answer'.effect = "unknown" /\ lease' \in LeaseType /\ LeaseReasoned'
        /\ (lease.state # "none" => lease'.state # "none") /\ doubt' \in BOOLEAN
        /\ (doubt' <=> doubt \/ ("unknown") = "unknown")
    BY <1>2, <2>1, <2>2, AnswersTyped
  <2>4. call.tool = "clear" /\ call.step = "remove" /\ call.res # ""
    BY DEF Debug!BreakpointsCleared, Debug!Answered, Debug!At
  <2>5. call' = Debug!Idle
    BY <2>3
  <2>6. /\ session' \in SessionType /\ session'.status = session.status /\ session'.phase = session.phase
        /\ session'.breakpoints = session.breakpoints /\ session'.unconfirmed = session.unconfirmed
    <3>1. session' = Debug!Poisoned(session)
      BY <1>2 DEF Debug!BreakpointsCleared
    <3>2. SessionTyped /\ Places /\ call \in CallType
      BY DEF DebugInv, SessionTyped
    <3> QED BY <3>1, <3>2, PoisonedTyped DEF SessionTyped
  <2>7. lease' \in LeaseType /\ LeaseReasoned' /\ (lease.state # "none" => lease'.state # "none")
    BY <2>3
  <2>8. answer' \in AnswerType /\ answer'.tool = "clear" /\ ~answer'.safe
    BY <2>3 DEF DebugInv, SessionTyped, Debug!BreakpointsCleared, Debug!Answered, Debug!At
  <2>9. doubt' = TRUE
    BY <2>3
  <2>10. UNCHANGED <<kind, server, gdb, core, todo, pipe, last, reached>>
    BY DEF Debug!BreakpointsCleared, Debug!Answered, Debug!target, Debug!stream
  <2>11. SamePipe /\ SameTodo
    BY <2>10, PipeStays, TodoStays
  <2>12. ~Answering /\ ~Taken /\ ~Awaiting /\ \A c : AwaitedLast(c)
    BY <1>2, <2>4, NothingAwaited, NoneAwaited DEF DebugInv, Debug!Commands
  <2>13. SessionTyped'
    BY <2>5, <2>6, <2>7, <2>8, <2>9, <2>10, <2>11, IdleTyped DEF DebugInv, SessionTyped
  <2>14. StepsOf'
    BY <2>5, <2>6, IdleTyped, NoSessionTyped DEF DebugInv, StepsOf
  <2>15. Places'
    BY <1>2, <2>4, <2>5, <2>6, <2>7, <2>8, IdleTyped, NoSessionTyped DEF DebugInv, SessionTyped, StepsOf, Places
  <2>16. ProcessesNamed'
    BY <2>5, <2>6, <2>7, <2>8, <2>9, <2>10, IdleTyped, NoSessionTyped DEF DebugInv, SessionTyped, StepsOf,
       ProcessesNamed
  <2>17. Untouched'
    BY <2>4, <2>5, <2>8, <2>9, <2>12, IdleTyped DEF StepsOf, Untouched
  <2>18. OneAwaited'
    BY <2>5, <2>10, <2>11, <2>12, IdleTyped DEF DebugInv, SessionTyped, StepsOf, OneAwaited, SamePipe, SameTodo
  <2>19. NoLateContinue'
    BY <1>2, <2>4, <2>10, <2>11, <2>12 DEF DebugInv, NoLateContinue, Places, OneAwaited, Trusted, SamePipe, SameTodo
  <2>20. ConnectAlone'
    BY <2>4, <2>5, <2>10, <2>11, <2>12 DEF DebugInv, ConnectAlone, SameTodo
  <2>21. StopsFresh'
    BY <2>4, <2>5, <2>6, <2>7, <2>8, <2>9, <2>10, <2>11, <2>12, IdleTyped DEF DebugInv, SessionTyped, StepsOf,
       StopsFresh, Trusted, Resuming, Lost, Quiet, SamePipe, SameTodo
  <2>22. HaltKnown'
    BY <2>4, <2>5, <2>8, <2>9, IdleTyped DEF DebugInv, HaltKnown, Trusted
  <2>23. StartHalts'
    BY <2>5, <2>6, IdleTyped DEF DebugInv, StartHalts, Places
  <2>24. StopProves'
    BY <2>9, <2>10 DEF DebugInv, StopProves
  <2>25. BreakpointsKnown'
    BY <2>4, <2>5, <2>6, <2>7, <2>10, <2>11, <2>12, IdleTyped, NothingAnswered DEF DebugInv, BreakpointsKnown,
       Places, Disarmed, SamePipe, SameTodo, Debug!StopWaits
  <2>26. LeftProved'
    BY <2>9 DEF SessionTyped, LeftProved
  <2>27. EndProved'
    BY <2>8, <2>12 DEF DebugInv, EndProved
  <2> QED BY <2>13, <2>14, <2>15, <2>16, <2>17, <2>18, <2>19, <2>20, <2>21, <2>22, <2>23, <2>24, <2>25, <2>26,
        <2>27 DEF DebugInv
<1> QED BY <1>1, <1>2

LEMMA ContinueKeeps ==
    ASSUME DebugInv, Debug!Continue
    PROVE  DebugInv'
<1>1. CASE session' = [Debug!Refreshed EXCEPT !.status = "running"] /\ Debug!Ask([Debug!Idle EXCEPT !.tool = "continue"], "continue") /\ UNCHANGED <<lease, Debug!said>>
  <2>1. /\ [Debug!Idle EXCEPT !.tool = "continue"] \in CallType /\ SessionTyped /\ "continue" \in Debug!Commands
        /\ Debug!Ask([Debug!Idle EXCEPT !.tool = "continue"], "continue")
    BY <1>1, IdleTyped DEF DebugInv, SessionTyped, CallType, Tools, Debug!Commands, Debug!Continue
  <2>2. /\ call' \in CallType /\ call'.tool = [Debug!Idle EXCEPT !.tool = "continue"].tool /\ call'.step = "continue"
        /\ call'.attempts = [Debug!Idle EXCEPT !.tool = "continue"].attempts
     /\ call'.res = (IF gdb.up THEN "" ELSE "dead")
     /\ call'.halted = [Debug!Idle EXCEPT !.tool = "continue"].halted
     /\ call'.removed = [Debug!Idle EXCEPT !.tool = "continue"].removed
     /\ call'.pinned = [Debug!Idle EXCEPT !.tool = "continue"].pinned
     /\ todo' \in Seq(OnItsWay) /\ UNCHANGED <<pipe, server, gdb, core>>
    BY <2>1, AskTyped
  <2>3. /\ ([Debug!Idle EXCEPT !.tool = "continue"]).tool = "continue" /\ ([Debug!Idle EXCEPT !.tool = "continue"]).halted
        /\ ([Debug!Idle EXCEPT !.tool = "continue"]).removed /\ ([Debug!Idle EXCEPT !.tool = "continue"]).pinned
    BY IdleTyped DEF CallType
  <2>4. /\ call.tool = "none" /\ call.step = "none" /\ gdb.up /\ session.status \in {"halted", "running"}
        /\ last' = FALSE
    BY <2>3, IdleTyped, RefreshedTyped DEF Debug!Continue, Debug!Called, Debug!Usable
  <2>5. call' \in CallType /\ call'.tool = "continue" /\ call'.step = "continue" /\ call'.res = ""
    BY <2>1, <2>2, <2>3 DEF Debug!Continue, Debug!Called, Debug!Usable
  <2>6. /\ session' \in SessionType /\ session'.status = "running" /\ session'.phase = session.phase
        /\ session'.breakpoints = session.breakpoints /\ session'.unconfirmed = session.unconfirmed
    BY <1>1, <2>1, <2>2, <2>3, IdleTyped, RefreshedTyped DEF DebugInv, SessionTyped, Places, LeaseReasoned,
       SessionType, CallType, AnswerType, Tools, Steps, Debug!CleanupReasons, Debug!Commands, Debug!StopWaits, Resting, Debug!Results,
       Debug!Continue, Debug!Called, Debug!Usable, Debug!target, Debug!said, Debug!Settled, Debug!Resolved
  <2>7. todo' \in Seq(OnItsWay)
    BY <2>1, <2>2
  <2>8. UNCHANGED <<kind, server, gdb, core, pipe, lease, answer, doubt, reached>>
    BY <1>1, <2>1, <2>2 DEF Debug!Commands, Debug!Continue, Debug!said
  <2>9. WrittenTo("continue")
    <3>1. [Debug!Idle EXCEPT !.tool = "continue"] \in CallType
      BY IdleTyped DEF CallType, Tools
    <3> QED BY <1>1, <2>4, <2>8, <3>1, AskAsks DEF DebugInv, Debug!Continue, Debug!Commands
  <2>10. ~Answering /\ ~Taken /\ ~Awaiting /\ \A c : AwaitedLast(c)
    BY <2>4, <2>5, NothingAwaited, NoneAwaited DEF DebugInv, Debug!Commands
  <2>11. SessionTyped'
    BY <2>4, <2>5, <2>6, <2>7, <2>8, <2>9 DEF DebugInv, SessionTyped
  <2>12. StepsOf'
    BY <2>5, <2>6 DEF SessionTyped, StepsOf
  <2>13. Places'
    BY <1>1, <2>4, <2>5, <2>6, <2>7 DEF DebugInv, Places, LeaseReasoned
  <2>14. ProcessesNamed'
    BY <2>4, <2>5, <2>6, <2>7, <2>8 DEF DebugInv, ProcessesNamed
  <2>15. Untouched'
    BY <2>4, <2>5 DEF DebugInv, Untouched
  <2>16. OneAwaited'
    BY <2>4, <2>5, <2>8, <2>9, <2>10 DEF DebugInv, OneAwaited, WrittenTo, SamePipe, Debug!StopWaits
  <2>17. NoLateContinue'
    BY <1>1, <2>4, <2>5, <2>6, <2>9, <2>10 DEF DebugInv, SessionTyped, StepsOf, NoLateContinue, Places, Trusted,
       WrittenTo, SamePipe
  <2>18. ConnectAlone'
    BY <2>4, <2>5, <2>8, <2>9, <2>10 DEF DebugInv, ConnectAlone, StartHalts, WrittenTo, SamePipe
  <2>19. StopsFresh'
    BY <1>1, <2>4, <2>5, <2>6, <2>7, <2>8, <2>9, <2>10 DEF DebugInv, SessionTyped, StepsOf, StopsFresh,
       ConnectAlone, Trusted, Resuming, Lost, Quiet, WrittenTo, SamePipe, Debug!StopWaits
  <2>20. HaltKnown'
    BY <1>1, <2>4, <2>5, <2>6, <2>7, <2>8, <2>9, <2>10 DEF DebugInv, SessionTyped, StepsOf, HaltKnown, Quiet,
       Resuming, Lost, WrittenTo, SamePipe, Debug!StopWaits
  <2>21. StartHalts'
    BY <2>4, <2>5 DEF DebugInv, StartHalts
  <2>22. StopProves'
    BY <2>4, <2>5 DEF DebugInv, StopProves
  <2>23. BreakpointsKnown'
    BY <2>4, <2>5, <2>6, <2>7, <2>8, <2>9, <2>10 DEF DebugInv, BreakpointsKnown, Places, ProcessesNamed, Disarmed,
       WrittenTo, SamePipe
  <2>24. LeftProved'
    BY <1>1 DEF LeftProved, Places
  <2>25. EndProved'
    BY <2>4, <2>5 DEF DebugInv, EndProved
  <2> QED BY <2>11, <2>12, <2>13, <2>14, <2>15, <2>16, <2>17, <2>18, <2>19, <2>20, <2>21, <2>22, <2>23, <2>24,
        <2>25 DEF DebugInv
<1>2. CASE session' = Debug!Refreshed /\ Debug!Settled([Debug!Idle EXCEPT !.tool = "continue"], FALSE, FALSE) /\ UNCHANGED <<Debug!target, todo, pipe, reached>>
  <2>1. Debug!Settled([Debug!Idle EXCEPT !.tool = "continue"], FALSE, FALSE)
    BY <1>2
  <2>2. /\ SessionTyped /\ LeaseReasoned /\ [Debug!Idle EXCEPT !.tool = "continue"] \in CallType
        /\ (FALSE) \in BOOLEAN /\ (FALSE) \in BOOLEAN /\ ([Debug!Idle EXCEPT !.tool = "continue"]).tool = "continue"
    BY <1>2, IdleTyped, RefreshedTyped DEF DebugInv, Places, SessionTyped, CallType, Tools
  <2>3. /\ call' = Debug!Idle /\ answer' \in AnswerType /\ answer'.tool = ([Debug!Idle EXCEPT !.tool = "continue"]).tool
        /\ ~answer'.safe /\ lease' \in LeaseType /\ LeaseReasoned'
        /\ (lease.state # "none" => lease'.state # "none") /\ doubt' \in BOOLEAN
        /\ (doubt' <=> doubt /\ ~(FALSE))
    BY <1>2, <2>1, <2>2, SettledTyped
  <2>4. /\ call.tool = "none" /\ call.step = "none" /\ gdb.up /\ session.status \in {"halted", "running"}
        /\ last' = FALSE
    BY IdleTyped DEF Debug!Results, Debug!Continue, Debug!Called, Debug!Usable, Debug!Ask
  <2>5. call' = Debug!Idle
    BY <2>3
  <2>6. /\ session' \in SessionType /\ session'.status = (IF last THEN "halted" ELSE session.status)
        /\ session'.phase = session.phase /\ session'.breakpoints = session.breakpoints
        /\ session'.unconfirmed = session.unconfirmed
    <3>1. session' = Debug!Refreshed
      BY <1>2
    <3>2. SessionTyped /\ Places /\ call \in CallType
      BY DEF DebugInv, SessionTyped
    <3> QED BY <3>1, <3>2, RefreshedTyped DEF SessionTyped
  <2>7. lease' \in LeaseType /\ LeaseReasoned' /\ (lease.state # "none" => lease'.state # "none")
    BY <2>3
  <2>8. answer' \in AnswerType /\ answer'.tool = "continue" /\ ~answer'.safe
    BY <2>3
  <2>9. UNCHANGED <<kind, server, gdb, core, todo, pipe, reached, doubt>>
    BY <1>2, <2>1, <2>2, <2>3 DEF DebugInv, SessionTyped, Debug!Continue, Debug!Called, Debug!target, Debug!said
  <2>10. SamePipe /\ SameTodo
    BY <2>8, <2>9, PipeStays, TodoStays
  <2>11. ~Answering /\ ~Taken /\ ~Awaiting /\ \A c : AwaitedLast(c)
    BY <2>4, <2>5, NothingAwaited, NoneAwaited DEF DebugInv, Debug!Commands
  <2>12. SessionTyped'
    BY <2>4, <2>5, <2>6, <2>7, <2>8, <2>9, <2>10, IdleTyped DEF DebugInv, SessionTyped
  <2>13. StepsOf'
    BY <1>2, <2>4, <2>5 DEF DebugInv, SessionTyped, StepsOf
  <2>14. Places'
    BY <1>2, <2>4, <2>5, <2>6, <2>7, <2>8, <2>11 DEF DebugInv, SessionTyped, StepsOf, Places, LeaseReasoned
  <2>15. ProcessesNamed'
    BY <2>4, <2>5, <2>6, <2>7, <2>8, <2>9 DEF DebugInv, SessionTyped, StepsOf, ProcessesNamed
  <2>16. Untouched'
    BY <1>2, <2>4, <2>5, <2>6, <2>7, <2>8, NoSessionTyped DEF DebugInv, StepsOf, Untouched
  <2>17. OneAwaited'
    BY <1>2, <2>4, <2>5, <2>6, <2>9, <2>10 DEF DebugInv, SessionTyped, StepsOf, OneAwaited, SamePipe, SameTodo
  <2>18. NoLateContinue'
    BY <2>4, <2>5, <2>10, <2>11 DEF DebugInv, NoLateContinue, Trusted, SameTodo
  <2>19. ConnectAlone'
    BY <2>4, <2>5, <2>9, <2>10, <2>11 DEF DebugInv, ConnectAlone, SameTodo
  <2>20. StopsFresh'
    BY <2>4, <2>5, <2>9, <2>10, <2>11 DEF DebugInv, SessionTyped, StepsOf, StopsFresh, Trusted, Resuming, Lost,
       SamePipe, SameTodo
  <2>21. HaltKnown'
    BY <2>4, <2>5, <2>6, <2>7, <2>8, <2>9, <2>10, <2>11 DEF DebugInv, SessionTyped, StepsOf, HaltKnown, Trusted,
       Quiet, SamePipe, SameTodo
  <2>22. StartHalts'
    BY <2>4, <2>5, IdleTyped DEF DebugInv, StartHalts, Places
  <2>23. StopProves'
    BY <2>4, <2>5, IdleTyped DEF DebugInv, StepsOf, StopProves
  <2>24. BreakpointsKnown'
    BY <1>2, <2>4, <2>5, <2>6, <2>9, <2>10, <2>11 DEF DebugInv, SessionTyped, StepsOf, BreakpointsKnown, Disarmed,
       SamePipe, SameTodo
  <2>25. LeftProved'
    BY <2>4, <2>5, <2>6, <2>7 DEF LeftProved, Places
  <2>26. EndProved'
    BY <2>8, <2>9 DEF DebugInv, EndProved
  <2> QED BY <2>12, <2>13, <2>14, <2>15, <2>16, <2>17, <2>18, <2>19, <2>20, <2>21, <2>22, <2>23, <2>24, <2>25,
        <2>26 DEF DebugInv
<1> QED BY <1>1, <1>2 DEF Debug!Continue

LEMMA ResumedKeeps ==
    ASSUME DebugInv, Debug!Resumed
    PROVE  DebugInv'
<1>1. CASE call.res = "ok"
  <2>1. call.tool = "continue" /\ call.step = "continue" /\ call.res # ""
    BY DEF Debug!Resumed, Debug!Answered, Debug!At
  <2>2. /\ call' \in CallType /\ call'.tool = "continue" /\ call'.step = "stop"
        /\ call'.res = (IF last THEN "stop" ELSE "")
    BY <1>1, AwaitTyped DEF DebugInv, SessionTyped, Debug!StopWaits, Resting, Debug!Results, Debug!Resumed, Debug!Answered, Debug!At
  <2>3. /\ session' \in SessionType /\ session'.status = session.status /\ session'.phase = session.phase
        /\ session'.breakpoints = session.breakpoints /\ session'.unconfirmed = session.unconfirmed
    <3>1. session' = [session EXCEPT !.reason = "none"]
      BY <1>1 DEF Debug!Resumed
    <3>2. SessionTyped /\ Places /\ call \in CallType
      BY DEF DebugInv, SessionTyped
    <3> QED BY <1>1, <3>1, <3>2 DEF SessionTyped, SessionType, CallType
  <2>4. last' = FALSE
    BY <1>1, AwaitTyped DEF DebugInv, SessionTyped, CallType, Debug!StopWaits, Debug!Resumed
  <2>5. UNCHANGED <<kind, server, gdb, core, todo, pipe, lease, answer, doubt, reached>>
    BY <1>1, AwaitTyped DEF DebugInv, SessionTyped, CallType, Debug!StopWaits, Debug!Resumed
  <2>6. SamePipe /\ SameTodo
    BY <2>4, <2>5, PipeStays, TodoStays
  <2>7. ~Answering /\ ~Taken /\ ~Awaiting /\ \A c : AwaitedLast(c)
    BY <1>1, <2>1, <2>2, NothingAwaited, NoneAwaited DEF DebugInv
  <2>8. SessionTyped'
    BY <2>1, <2>2, <2>3, <2>4, <2>5, <2>6 DEF DebugInv, SessionTyped
  <2>9. StepsOf'
    BY <2>1, <2>2 DEF StepsOf, SamePipe, SameTodo, Debug!StopWaits, Debug!Commands, Resting
  <2>10. Places'
    BY <2>1, <2>2, <2>3, <2>4, <2>5, <2>6, <2>7 DEF DebugInv, Places, LeaseReasoned
  <2>11. ProcessesNamed'
    BY <2>2, <2>3, <2>4, <2>5 DEF DebugInv, ProcessesNamed
  <2>12. Untouched'
    BY <2>1, <2>2 DEF DebugInv, Untouched
  <2>13. OneAwaited'
    BY <2>1, <2>2, <2>5, <2>6, <2>7 DEF DebugInv, OneAwaited, SamePipe, SameTodo, Debug!Commands
  <2>14. NoLateContinue'
    BY <1>1, <2>6, <2>7, NothingWritten, NothingAnswered DEF DebugInv, SessionTyped, StepsOf, NoLateContinue,
       OneAwaited, StartHalts, SameTodo, Debug!StopWaits
  <2>15. ConnectAlone'
    BY <1>1, <2>1, <2>5, <2>6, <2>7 DEF DebugInv, ConnectAlone, SameTodo
  <2>16. StopsFresh'
    BY <1>1, <2>1, <2>2, <2>3, <2>4, <2>5, <2>6, <2>7, NoStopsThen, NothingWritten, NothingAnswered DEF DebugInv,
       SessionTyped, StepsOf, StopsFresh, Trusted, Resuming, SamePipe, SameTodo
  <2>17. HaltKnown'
    BY <1>1, <2>1, <2>2, <2>3, <2>4, <2>5, <2>6, <2>7 DEF DebugInv, SessionTyped, StepsOf, HaltKnown, StopsFresh,
       StartHalts, ConnectAlone, Trusted, Quiet, Resuming, Lost, SamePipe
  <2>18. StartHalts'
    BY <2>1, <2>2 DEF DebugInv, StartHalts
  <2>19. StopProves'
    BY <2>1, <2>2 DEF DebugInv, StopProves
  <2>20. BreakpointsKnown'
    BY <2>1, <2>2, <2>3, <2>4, <2>5, <2>6, <2>7 DEF DebugInv, BreakpointsKnown, Disarmed, SamePipe, SameTodo
  <2>21. LeftProved'
    BY <1>1, <2>1, <2>2, <2>3, <2>4 DEF DebugInv, LeftProved, Places
  <2>22. EndProved'
    BY <2>1, <2>2 DEF DebugInv, EndProved
  <2> QED BY <2>8, <2>9, <2>10, <2>11, <2>12, <2>13, <2>14, <2>15, <2>16, <2>17, <2>18, <2>19, <2>20, <2>21,
        <2>22 DEF DebugInv
<1>2. CASE call.res # "ok"
  <2>1. Debug!Answers(call, FALSE, IF call.res = "refused" THEN "none" ELSE "unknown", "state")
    BY <1>2 DEF Debug!Resumed
  <2>2. /\ SessionTyped /\ LeaseReasoned /\ call \in CallType /\ (FALSE) \in BOOLEAN
        /\ (IF call.res = "refused" THEN "none" ELSE "unknown") \in {"none", "unknown", "committed"}
        /\ "state" \in Debug!CleanupReasons
    BY DEF DebugInv, Places, SessionTyped, Debug!CleanupReasons
  <2>3. /\ call' = Debug!Idle /\ answer' \in AnswerType /\ answer'.tool = call.tool /\ ~answer'.safe
        /\ answer'.effect = (IF call.res = "refused" THEN "none" ELSE "unknown") /\ lease' \in LeaseType
        /\ LeaseReasoned' /\ (lease.state # "none" => lease'.state # "none") /\ doubt' \in BOOLEAN
        /\ (doubt' <=> doubt \/ (IF call.res = "refused" THEN "none" ELSE "unknown") = "unknown")
    BY <1>2, <2>1, <2>2, AnswersTyped
  <2>4. call.tool = "continue" /\ call.step = "continue" /\ call.res # ""
    BY DEF Debug!Resumed, Debug!Answered, Debug!At
  <2>5. call' = Debug!Idle
    BY <2>3
  <2>6. /\ session' \in SessionType /\ session'.status = "error" /\ session'.phase = session.phase
        /\ session'.breakpoints = session.breakpoints /\ session'.unconfirmed = session.unconfirmed
    <3>1. session' = [Debug!Poisoned(session) EXCEPT !.status = "error"]
      BY <1>2 DEF Debug!Resumed
    <3>2. SessionTyped /\ Places /\ call \in CallType
      BY DEF DebugInv, SessionTyped
    <3> QED BY <1>2, <3>1, <3>2, PoisonedTyped DEF SessionTyped, SessionType, CallType
  <2>7. lease' \in LeaseType /\ LeaseReasoned' /\ (lease.state # "none" => lease'.state # "none")
    BY <2>3
  <2>8. answer' \in AnswerType /\ answer'.tool = "continue" /\ ~answer'.safe
    BY <2>3 DEF DebugInv, SessionTyped, Debug!Resumed, Debug!Answered, Debug!At
  <2>9. doubt' \in BOOLEAN /\ (doubt' <=> doubt \/ call.res # "refused")
    BY <2>3
  <2>10. UNCHANGED <<kind, server, gdb, core, todo, pipe, last, reached>>
    BY <1>2 DEF Debug!Resumed, Debug!Answered, Debug!target, Debug!stream
  <2>11. SamePipe /\ SameTodo
    BY <2>10, PipeStays, TodoStays
  <2>12. ~Answering /\ ~Taken /\ ~Awaiting /\ \A c : AwaitedLast(c)
    BY <1>2, <2>4, NothingAwaited, NoneAwaited DEF DebugInv, Debug!Commands
  <2>13. SessionTyped'
    BY <2>5, <2>6, <2>7, <2>8, <2>9, <2>10, <2>11, IdleTyped DEF DebugInv, SessionTyped
  <2>14. StepsOf'
    BY <2>5, <2>6, IdleTyped, NoSessionTyped DEF DebugInv, StepsOf
  <2>15. Places'
    BY <2>5, <2>6, <2>7, <2>8, <2>12, IdleTyped, NoSessionTyped DEF Places
  <2>16. ProcessesNamed'
    BY <1>2, <2>4, <2>5, <2>6, <2>7, <2>8, <2>9, <2>10, IdleTyped, NoSessionTyped DEF DebugInv, SessionTyped,
       StepsOf, ProcessesNamed, Places, SamePipe
  <2>17. Untouched'
    BY <2>4, <2>5, <2>8, <2>9, <2>12, IdleTyped DEF StepsOf, Untouched
  <2>18. OneAwaited'
    BY <2>5, <2>10, <2>11, <2>12, IdleTyped DEF DebugInv, SessionTyped, StepsOf, OneAwaited, SamePipe, SameTodo
  <2>19. NoLateContinue'
    BY <2>5, <2>6, <2>9, <2>10, <2>11, <2>12, IdleTyped, NoSessionTyped, NothingWritten, NothingAnswered
       DEF DebugInv, SessionTyped, StepsOf, NoLateContinue, OneAwaited, StartHalts, Trusted, SamePipe, SameTodo,
       Debug!StopWaits
  <2>20. ConnectAlone'
    BY <2>4, <2>5, <2>10, <2>11, <2>12 DEF DebugInv, ConnectAlone, SameTodo
  <2>21. StopsFresh'
    BY <2>5, <2>6, <2>7, <2>8, <2>9, <2>10, <2>11, <2>12, IdleTyped DEF DebugInv, SessionTyped, StepsOf, StopsFresh,
       Trusted, Resuming, Lost, Quiet, SamePipe, SameTodo
  <2>22. HaltKnown'
    BY <2>5, <2>6, <2>12, IdleTyped DEF StepsOf, HaltKnown
  <2>23. StartHalts'
    BY <2>5, <2>6, IdleTyped DEF DebugInv, StartHalts, Places
  <2>24. StopProves'
    BY <2>5, <2>6, IdleTyped DEF DebugInv, StepsOf, StopProves
  <2>25. BreakpointsKnown'
    BY <2>4, <2>5, <2>6, <2>10, <2>11, <2>12, IdleTyped, NothingAnswered DEF DebugInv, BreakpointsKnown, Places,
       Disarmed, SamePipe, SameTodo, Debug!StopWaits
  <2>26. LeftProved'
    BY <2>6, <2>7 DEF SessionTyped, LeftProved
  <2>27. EndProved'
    BY <2>8, <2>12 DEF DebugInv, EndProved
  <2> QED BY <2>13, <2>14, <2>15, <2>16, <2>17, <2>18, <2>19, <2>20, <2>21, <2>22, <2>23, <2>24, <2>25, <2>26,
        <2>27 DEF DebugInv
<1> QED BY <1>1, <1>2

LEMMA StoppedKeeps ==
    ASSUME DebugInv, Debug!Stopped
    PROVE  DebugInv'
<1>1. CASE call.res = "stop"
  <2>1. Debug!Settled(call, TRUE, FALSE)
    BY <1>1 DEF Debug!Stopped
  <2>2. SessionTyped /\ LeaseReasoned /\ call \in CallType /\ (TRUE) \in BOOLEAN /\ (FALSE) \in BOOLEAN
    BY <1>1 DEF DebugInv, Places, SessionTyped
  <2>3. /\ call' = Debug!Idle /\ answer' \in AnswerType /\ answer'.tool = call.tool /\ ~answer'.safe
        /\ lease' \in LeaseType /\ LeaseReasoned' /\ (lease.state # "none" => lease'.state # "none")
        /\ doubt' \in BOOLEAN /\ (doubt' <=> doubt /\ ~(FALSE))
    BY <1>1, <2>1, <2>2, SettledTyped
  <2>4. call.tool = "continue" /\ call.step = "stop"
    BY DEF Debug!Stopped, Debug!Answered, Debug!At
  <2>5. call' = Debug!Idle
    BY <2>3
  <2>6. /\ session' \in SessionType /\ session'.status = "halted" /\ session'.phase = session.phase
        /\ session'.breakpoints = session.breakpoints /\ session'.unconfirmed = session.unconfirmed
    <3>1. session' = [session EXCEPT !.status = "halted", !.reason = "stop"]
      BY <1>1 DEF Debug!Stopped
    <3>2. SessionTyped /\ Places /\ call \in CallType
      BY DEF DebugInv, SessionTyped
    <3> QED BY <1>1, <3>1, <3>2 DEF SessionTyped, SessionType, CallType
  <2>7. lease' \in LeaseType /\ LeaseReasoned' /\ (lease.state # "none" => lease'.state # "none")
    BY <2>3
  <2>8. answer' \in AnswerType /\ answer'.tool = "continue" /\ ~answer'.safe
    BY <2>3 DEF DebugInv, SessionTyped, Debug!Stopped, Debug!Answered, Debug!At
  <2>9. UNCHANGED <<kind, server, gdb, core, todo, pipe, last, reached, doubt>>
    BY <1>1, <2>1, <2>2, <2>3 DEF DebugInv, SessionTyped, Debug!Stopped, Debug!Answered, Debug!At, Debug!target
  <2>10. SamePipe /\ SameTodo
    BY <2>8, <2>9, PipeStays, TodoStays
  <2>11. ~Answering /\ ~Taken /\ ~Awaiting /\ \A c : AwaitedLast(c)
    BY <1>1, NothingAwaited, NoneAwaited DEF DebugInv, Debug!Commands
  <2>12. SessionTyped'
    BY <2>5, <2>6, <2>7, <2>8, <2>9, <2>10, IdleTyped DEF DebugInv, SessionTyped
  <2>13. StepsOf'
    BY <2>4, <2>5, IdleTyped, NoSessionTyped DEF DebugInv, StepsOf
  <2>14. Places'
    BY <2>4, <2>5, <2>6, <2>7, IdleTyped, NoSessionTyped DEF DebugInv, Places
  <2>15. ProcessesNamed'
    BY <2>4, <2>5, <2>6, <2>7, <2>8, <2>9, IdleTyped, NoSessionTyped DEF DebugInv, SessionTyped, StepsOf,
       ProcessesNamed, Places, SamePipe
  <2>16. Untouched'
    BY <2>4, <2>5, <2>8, <2>9, IdleTyped DEF DebugInv, StepsOf, Untouched
  <2>17. OneAwaited'
    BY <2>5, <2>6, <2>9, <2>10, <2>11, IdleTyped DEF DebugInv, SessionTyped, StepsOf, OneAwaited, SamePipe, SameTodo
  <2>18. NoLateContinue'
    BY <1>1, <2>4, <2>9, <2>10, <2>11 DEF DebugInv, NoLateContinue, Places, OneAwaited, Trusted, SamePipe, SameTodo
  <2>19. ConnectAlone'
    BY <2>4, <2>5, <2>9, <2>10, <2>11 DEF DebugInv, ConnectAlone, SameTodo
  <2>20. StopsFresh'
    BY <2>4, <2>5, <2>6, <2>9, <2>10, <2>11, IdleTyped DEF DebugInv, SessionTyped, StepsOf, StopsFresh, Places,
       ConnectAlone, Trusted, Resuming, Lost, Quiet, SamePipe, SameTodo
  <2>21. HaltKnown'
    BY <1>1, <2>4, <2>5, <2>6, <2>9, <2>10, <2>11, IdleTyped DEF DebugInv, SessionTyped, StepsOf, HaltKnown,
       Trusted, Quiet, SamePipe, SameTodo
  <2>22. StartHalts'
    BY <2>4, <2>5, IdleTyped DEF DebugInv, StartHalts, Places
  <2>23. StopProves'
    BY <2>4, <2>5, IdleTyped DEF DebugInv, StepsOf, StopProves
  <2>24. BreakpointsKnown'
    BY <1>1, <2>4, <2>5, <2>6, <2>9, <2>10, <2>11, IdleTyped, NothingAnswered DEF DebugInv, BreakpointsKnown,
       Places, Disarmed, SamePipe, SameTodo, Debug!StopWaits
  <2>25. LeftProved'
    BY <2>6, <2>7 DEF LeftProved, Places
  <2>26. EndProved'
    BY <2>8, <2>9 DEF DebugInv, EndProved
  <2> QED BY <2>12, <2>13, <2>14, <2>15, <2>16, <2>17, <2>18, <2>19, <2>20, <2>21, <2>22, <2>23, <2>24, <2>25,
        <2>26 DEF DebugInv
<1>2. CASE call.res = "dead"
  <2>1. Debug!Answers(call, FALSE, "unknown", "state")
    BY <1>2 DEF Debug!Stopped
  <2>2. /\ SessionTyped /\ LeaseReasoned /\ call \in CallType /\ (FALSE) \in BOOLEAN
        /\ ("unknown") \in {"none", "unknown", "committed"} /\ "state" \in Debug!CleanupReasons
    BY DEF DebugInv, Places, SessionTyped, Debug!CleanupReasons
  <2>3. /\ call' = Debug!Idle /\ answer' \in AnswerType /\ answer'.tool = call.tool /\ ~answer'.safe
        /\ answer'.effect = "unknown" /\ lease' \in LeaseType /\ LeaseReasoned'
        /\ (lease.state # "none" => lease'.state # "none") /\ doubt' \in BOOLEAN
        /\ (doubt' <=> doubt \/ ("unknown") = "unknown")
    BY <1>2, <2>1, <2>2, AnswersTyped
  <2>4. call.tool = "continue" /\ call.step = "stop"
    BY DEF Debug!Stopped, Debug!Answered, Debug!At
  <2>5. call' = Debug!Idle
    BY <2>3
  <2>6. /\ session' \in SessionType /\ session'.status = "error" /\ session'.phase = session.phase
        /\ session'.breakpoints = session.breakpoints /\ session'.unconfirmed = session.unconfirmed
    <3>1. session' = [session EXCEPT !.status = "error", !.reason = "debugger_error"]
      BY <1>2 DEF Debug!Stopped
    <3>2. SessionTyped /\ Places /\ call \in CallType
      BY DEF DebugInv, SessionTyped
    <3> QED BY <1>2, <3>1, <3>2 DEF SessionTyped, SessionType, CallType
  <2>7. lease' \in LeaseType /\ LeaseReasoned' /\ (lease.state # "none" => lease'.state # "none")
    BY <2>3
  <2>8. answer' \in AnswerType /\ answer'.tool = "continue" /\ ~answer'.safe
    BY <2>3 DEF Debug!Stopped, Debug!Answered, Debug!At
  <2>9. doubt' = TRUE
    BY <2>3
  <2>10. UNCHANGED <<kind, server, gdb, core, todo, pipe, last, reached>>
    BY <1>2 DEF Debug!Stopped, Debug!Resolved, Debug!target, Debug!Ask
  <2>11. SamePipe /\ SameTodo
    BY <2>10, PipeStays, TodoStays
  <2>12. ~Answering /\ ~Taken /\ ~Awaiting /\ \A c : AwaitedLast(c)
    BY <1>2, <2>4, NothingAwaited, NoneAwaited DEF DebugInv, Debug!Commands
  <2>13. SessionTyped'
    BY <2>5, <2>6, <2>7, <2>8, <2>9, <2>10, <2>11, IdleTyped DEF DebugInv, SessionTyped
  <2>14. StepsOf'
    BY <2>5, <2>6, IdleTyped, NoSessionTyped DEF DebugInv, StepsOf
  <2>15. Places'
    BY <2>5, <2>6, <2>7, <2>8, IdleTyped, NoSessionTyped DEF DebugInv, Places
  <2>16. ProcessesNamed'
    BY <1>2, <2>4, <2>5, <2>6, <2>7, <2>8, <2>9, <2>10, IdleTyped, NoSessionTyped DEF DebugInv, SessionTyped,
       StepsOf, ProcessesNamed, Places, SamePipe
  <2>17. Untouched'
    BY <2>5, <2>6, <2>7, <2>8, IdleTyped DEF DebugInv, StepsOf, Untouched
  <2>18. OneAwaited'
    BY <1>2, <2>10, <2>11, <2>12 DEF DebugInv, OneAwaited, SamePipe, SameTodo, Debug!Commands
  <2>19. NoLateContinue'
    BY <1>2, <2>4, <2>10, <2>11, <2>12 DEF DebugInv, NoLateContinue, Places, OneAwaited, Trusted, SamePipe, SameTodo
  <2>20. ConnectAlone'
    BY <2>4, <2>5, <2>10, <2>11, <2>12 DEF DebugInv, ConnectAlone, SameTodo
  <2>21. StopsFresh'
    BY <2>5, <2>6, <2>7, <2>8, <2>9, <2>10, <2>11, <2>12, IdleTyped DEF DebugInv, SessionTyped, StepsOf, StopsFresh,
       Trusted, Resuming, SamePipe, SameTodo
  <2>22. HaltKnown'
    BY <2>5, <2>6, IdleTyped DEF DebugInv, HaltKnown, Places
  <2>23. StartHalts'
    BY <2>5, <2>6, IdleTyped DEF DebugInv, StartHalts, Places
  <2>24. StopProves'
    BY <2>9 DEF SessionTyped, StopProves
  <2>25. BreakpointsKnown'
    BY <2>4, <2>5, <2>6, <2>10, <2>11, <2>12, IdleTyped, NothingAnswered DEF DebugInv, BreakpointsKnown, Places,
       Disarmed, SamePipe, SameTodo, Debug!StopWaits
  <2>26. LeftProved'
    BY <2>9 DEF LeftProved, Places
  <2>27. EndProved'
    BY <2>8, <2>12 DEF DebugInv, EndProved
  <2> QED BY <2>13, <2>14, <2>15, <2>16, <2>17, <2>18, <2>19, <2>20, <2>21, <2>22, <2>23, <2>24, <2>25, <2>26,
        <2>27 DEF DebugInv
<1>3. CASE call.res = "timeout"
  <2>1. call \in CallType /\ SessionTyped /\ "interrupt" \in Debug!Commands /\ Debug!Ask(call, "interrupt")
    BY <1>3 DEF DebugInv, SessionTyped, Debug!Commands, Debug!Stopped
  <2>2. /\ call' \in CallType /\ call'.tool = call.tool /\ call'.step = "interrupt"
        /\ call'.attempts = call.attempts
     /\ call'.res = (IF gdb.up THEN "" ELSE "dead")
     /\ call'.halted = call.halted /\ call'.removed = call.removed /\ call'.pinned = call.pinned
     /\ todo' \in Seq(OnItsWay) /\ UNCHANGED <<pipe, server, gdb, core>>
    BY <2>1, AskTyped
  <2>3. call.tool = "continue" /\ call.step = "stop"
    BY DEF Debug!Results, Debug!Stopped, Debug!Answered, Debug!At
  <2>4. /\ call' \in CallType /\ call'.tool = "continue" /\ call'.step = "interrupt"
        /\ call'.res = (IF gdb.up THEN "" ELSE "dead")
    BY <2>1, <2>2 DEF Debug!Results, Debug!Stopped, Debug!Answered, Debug!At
  <2>5. todo' \in Seq(OnItsWay)
    BY <2>2
  <2>6. UNCHANGED <<kind, session, server, gdb, core, pipe, last, lease, answer, doubt, reached>>
    BY <1>3, <2>1, <2>2 DEF DebugInv, Debug!StopWaits, Debug!Stopped
  <2>7. WrittenTo("interrupt")
    BY <1>3, <2>3, <2>6, AskAsks DEF DebugInv, SessionTyped, Debug!Stopped, Debug!Answered, Debug!At, Debug!Commands
  <2>8. ~Answering /\ ~Taken /\ ~Awaiting /\ \A c : AwaitedLast(c)
    BY <1>3, <2>3, NothingAwaited, NoneAwaited DEF DebugInv
  <2>9. SessionTyped'
    BY <2>4, <2>5, <2>6, <2>7 DEF DebugInv, SessionTyped
  <2>10. StepsOf'
    BY <2>3, <2>4 DEF DebugInv, StepsOf, Debug!Commands, Resting
  <2>11. Places'
    BY <2>3, <2>4, <2>5, <2>6, <2>7, <2>8 DEF DebugInv, Places, LeaseReasoned
  <2>12. ProcessesNamed'
    BY <2>3, <2>4, <2>5, <2>6 DEF DebugInv, ProcessesNamed
  <2>13. Untouched'
    BY <2>3, <2>4 DEF SessionTyped, Untouched
  <2>14. OneAwaited'
    BY <2>4, <2>5, <2>6, <2>7, <2>8 DEF DebugInv, OneAwaited, WrittenTo, SamePipe, Debug!StopWaits
  <2>15. NoLateContinue'
    BY <2>3, <2>4, <2>7, <2>8 DEF DebugInv, SessionTyped, StepsOf, NoLateContinue, Places, Trusted, WrittenTo, SamePipe
  <2>16. ConnectAlone'
    BY <2>3, <2>7, <2>8 DEF DebugInv, ConnectAlone, StartHalts, WrittenTo, SamePipe
  <2>17. StopsFresh'
    BY <2>3, <2>4, <2>5, <2>6, <2>7, <2>8 DEF DebugInv, SessionTyped, StepsOf, StopsFresh, ConnectAlone, Trusted,
       Resuming, Lost, Quiet, WrittenTo, SamePipe, Debug!StopWaits
  <2>18. HaltKnown'
    BY <2>3, <2>4 DEF SessionTyped, HaltKnown
  <2>19. StartHalts'
    BY <2>4, <2>8 DEF DebugInv, StartHalts
  <2>20. StopProves'
    BY <2>3, <2>4 DEF SessionTyped, StopProves
  <2>21. BreakpointsKnown'
    BY <2>3, <2>4, <2>5, <2>6, <2>7, <2>8 DEF DebugInv, BreakpointsKnown, Places, ProcessesNamed, Disarmed, WrittenTo,
       SamePipe
  <2>22. LeftProved'
    BY <2>3, <2>6, <2>7, <2>8 DEF DebugInv, LeftProved, Places
  <2>23. EndProved'
    BY <2>4, <2>8 DEF DebugInv, EndProved
  <2> QED BY <2>9, <2>10, <2>11, <2>12, <2>13, <2>14, <2>15, <2>16, <2>17, <2>18, <2>19, <2>20, <2>21, <2>22,
        <2>23 DEF DebugInv
<1> QED BY <1>1, <1>2, <1>3 DEF Debug!Stopped, DebugInv, SessionTyped, CallType, Debug!Results, StepsOf, Debug!Commands, Debug!Answered, Debug!At

LEMMA HaltKeeps ==
    ASSUME DebugInv, Debug!Halt
    PROVE  DebugInv'
<1>1. CASE Debug!Refreshed.status = "halted"
  <2>1. Debug!Settled([Debug!Idle EXCEPT !.tool = "halt"], Debug!Refreshed.reason # "debugger_error", last)
    BY <1>1 DEF Debug!Halt
  <2>2. /\ SessionTyped /\ LeaseReasoned /\ [Debug!Idle EXCEPT !.tool = "halt"] \in CallType
        /\ (Debug!Refreshed.reason # "debugger_error") \in BOOLEAN /\ (last) \in BOOLEAN
        /\ ([Debug!Idle EXCEPT !.tool = "halt"]).tool = "halt"
    BY <1>1, IdleTyped, RefreshedTyped DEF DebugInv, Places, SessionTyped, CallType, Tools
  <2>3. /\ call' = Debug!Idle /\ answer' \in AnswerType /\ answer'.tool = ([Debug!Idle EXCEPT !.tool = "halt"]).tool
        /\ ~answer'.safe /\ lease' \in LeaseType /\ LeaseReasoned'
        /\ (lease.state # "none" => lease'.state # "none") /\ doubt' \in BOOLEAN
        /\ (doubt' <=> doubt /\ ~(last))
    BY <1>1, <2>1, <2>2, SettledTyped
  <2>4. /\ call.tool = "none" /\ call.step = "none" /\ gdb.up /\ session.status \in {"halted", "running"}
        /\ last' = FALSE
    BY IdleTyped DEF Debug!Results, Debug!Halt, Debug!Called, Debug!Usable, Debug!target
  <2>5. call' = Debug!Idle
    BY <2>3
  <2>6. /\ session' \in SessionType /\ session'.status = (IF last THEN "halted" ELSE session.status)
        /\ session'.phase = session.phase /\ session'.breakpoints = session.breakpoints
        /\ session'.unconfirmed = session.unconfirmed
    BY <1>1, <2>1, <2>2, <2>3, IdleTyped, RefreshedTyped DEF DebugInv, SessionTyped, Places, LeaseReasoned,
       SessionType, CallType, AnswerType, Tools, Steps, Debug!CleanupReasons, Debug!Commands, Debug!StopWaits, Resting, Debug!Results,
       Debug!Halt, Debug!Called, Debug!Usable, Debug!target, Debug!Ask, Debug!said
  <2>7. lease' \in LeaseType /\ LeaseReasoned' /\ (lease.state # "none" => lease'.state # "none")
    BY <2>3
  <2>8. answer' \in AnswerType /\ answer'.tool = "halt" /\ ~answer'.safe
    BY <2>3
  <2>9. doubt' \in BOOLEAN /\ (doubt' <=> doubt /\ ~last)
    BY <2>3
  <2>10. UNCHANGED <<kind, server, gdb, core, todo, pipe, reached>>
    BY <1>1 DEF Debug!Halt, Debug!Called, Debug!Usable, Debug!target
  <2>11. SamePipe /\ SameTodo
    BY <2>10, PipeStays, TodoStays
  <2>12. ~Answering /\ ~Taken /\ ~Awaiting /\ \A c : AwaitedLast(c)
    BY <1>1, <2>4, NothingAwaited, NoneAwaited DEF DebugInv, Debug!Commands
  <2>13. SessionTyped'
    BY <2>4, <2>5, <2>6, <2>7, <2>8, <2>9, <2>10, <2>11, IdleTyped DEF DebugInv, SessionTyped
  <2>14. StepsOf'
    BY <2>4, <2>5, <2>12 DEF DebugInv, SessionTyped, StepsOf
  <2>15. Places'
    BY <1>1, <2>4, <2>5, <2>6, <2>7, <2>8, IdleTyped, NoSessionTyped DEF DebugInv, Places
  <2>16. ProcessesNamed'
    BY <1>1, <2>4, <2>5, <2>6, <2>7, <2>8, <2>9, <2>10 DEF DebugInv, SessionTyped, StepsOf, ProcessesNamed
  <2>17. Untouched'
    BY <2>5, <2>6, <2>7, <2>8, IdleTyped DEF DebugInv, StepsOf, Untouched
  <2>18. OneAwaited'
    BY <2>5, <2>10, <2>11, <2>12, IdleTyped DEF DebugInv, SessionTyped, StepsOf, OneAwaited, SamePipe, SameTodo
  <2>19. NoLateContinue'
    BY <1>1, <2>4, <2>11, <2>12 DEF DebugInv, NoLateContinue, Trusted, SameTodo
  <2>20. ConnectAlone'
    BY <2>4, <2>5, <2>10, <2>11, <2>12 DEF DebugInv, ConnectAlone, SameTodo
  <2>21. StopsFresh'
    BY <2>4, <2>5, <2>6, <2>10, <2>11, <2>12 DEF DebugInv, SessionTyped, StepsOf, StopsFresh, Trusted, Resuming,
       Lost, SamePipe, SameTodo
  <2>22. HaltKnown'
    BY <2>4, <2>5, <2>6, <2>9, <2>10, <2>11, <2>12 DEF DebugInv, SessionTyped, StepsOf, HaltKnown, StopsFresh,
       StartHalts, ConnectAlone, Trusted, Quiet, Resuming, Lost, SamePipe
  <2>23. StartHalts'
    BY <2>5, <2>6, IdleTyped DEF DebugInv, StartHalts, Places
  <2>24. StopProves'
    BY <2>5, <2>6, IdleTyped DEF DebugInv, StepsOf, StopProves
  <2>25. BreakpointsKnown'
    BY <2>4, <2>5, <2>6, <2>7, <2>10, <2>11, <2>12 DEF DebugInv, SessionTyped, StepsOf, BreakpointsKnown, Disarmed,
       SamePipe, SameTodo
  <2>26. LeftProved'
    BY <2>4, <2>5, <2>6, <2>7 DEF SessionTyped, LeftProved
  <2>27. EndProved'
    BY <2>8, <2>12 DEF DebugInv, EndProved
  <2> QED BY <2>13, <2>14, <2>15, <2>16, <2>17, <2>18, <2>19, <2>20, <2>21, <2>22, <2>23, <2>24, <2>25, <2>26,
        <2>27 DEF DebugInv
<1>2. CASE Debug!Refreshed.status # "halted"
  <2>1. /\ [Debug!Idle EXCEPT !.tool = "halt"] \in CallType /\ SessionTyped /\ "interrupt" \in Debug!Commands
        /\ Debug!Ask([Debug!Idle EXCEPT !.tool = "halt"], "interrupt")
    BY <1>2, IdleTyped DEF DebugInv, SessionTyped, CallType, Tools, Debug!Commands, Debug!Halt
  <2>2. /\ call' \in CallType /\ call'.tool = [Debug!Idle EXCEPT !.tool = "halt"].tool /\ call'.step = "interrupt"
        /\ call'.attempts = [Debug!Idle EXCEPT !.tool = "halt"].attempts
     /\ call'.res = (IF gdb.up THEN "" ELSE "dead")
     /\ call'.halted = [Debug!Idle EXCEPT !.tool = "halt"].halted
     /\ call'.removed = [Debug!Idle EXCEPT !.tool = "halt"].removed
     /\ call'.pinned = [Debug!Idle EXCEPT !.tool = "halt"].pinned
     /\ todo' \in Seq(OnItsWay) /\ UNCHANGED <<pipe, server, gdb, core>>
    BY <2>1, AskTyped
  <2>3. /\ ([Debug!Idle EXCEPT !.tool = "halt"]).tool = "halt" /\ ([Debug!Idle EXCEPT !.tool = "halt"]).halted
        /\ ([Debug!Idle EXCEPT !.tool = "halt"]).removed /\ ([Debug!Idle EXCEPT !.tool = "halt"]).pinned
    BY IdleTyped DEF CallType
  <2>4. /\ call.tool = "none" /\ call.step = "none" /\ gdb.up /\ session.status \in {"halted", "running"}
        /\ last' = FALSE /\ session.status = "running" /\ ~last
    BY <1>2, <2>1, <2>2, <2>3, IdleTyped, RefreshedTyped DEF Debug!Halt, Debug!Called, Debug!Usable
  <2>5. call' \in CallType /\ call'.tool = "halt" /\ call'.step = "interrupt" /\ call'.res = ""
    BY <2>1, <2>2, <2>3 DEF Debug!Halt, Debug!Called, Debug!Usable
  <2>6. /\ session' \in SessionType /\ session'.status = (IF last THEN "halted" ELSE session.status)
        /\ session'.phase = session.phase /\ session'.breakpoints = session.breakpoints
        /\ session'.unconfirmed = session.unconfirmed
    <3>1. session' = Debug!Refreshed
      BY DEF Debug!Halt
    <3>2. SessionTyped /\ Places /\ call \in CallType
      BY DEF DebugInv, SessionTyped
    <3> QED BY <3>1, <3>2, RefreshedTyped DEF SessionTyped
  <2>7. todo' \in Seq(OnItsWay)
    BY <2>1, <2>2
  <2>8. UNCHANGED <<kind, server, gdb, core, pipe, lease, answer, doubt, reached>>
    BY <1>2, <2>1, <2>2 DEF Debug!Commands, Debug!Halt, Debug!Resolved, Debug!target, Debug!said
  <2>9. WrittenTo("interrupt")
    <3>1. [Debug!Idle EXCEPT !.tool = "halt"] \in CallType
      BY IdleTyped DEF CallType, Tools
    <3> QED BY <1>2, <2>4, <2>8, <3>1, AskAsks DEF DebugInv, Debug!Halt, Debug!Commands
  <2>10. ~Answering /\ ~Taken /\ ~Awaiting /\ \A c : AwaitedLast(c)
    BY <2>4, <2>5, NothingAwaited, NoneAwaited DEF DebugInv, Debug!Commands
  <2>11. SessionTyped'
    BY <2>4, <2>5, <2>6, <2>7, <2>8, <2>9 DEF DebugInv, SessionTyped
  <2>12. StepsOf'
    BY <2>5, <2>6 DEF SessionTyped, StepsOf
  <2>13. Places'
    BY <2>4, <2>5, <2>6, <2>7, <2>8, <2>9, <2>10 DEF DebugInv, Places, LeaseReasoned
  <2>14. ProcessesNamed'
    BY <2>4, <2>5, <2>6, <2>7, <2>8 DEF DebugInv, ProcessesNamed
  <2>15. Untouched'
    BY <2>4, <2>5 DEF DebugInv, Untouched
  <2>16. OneAwaited'
    BY <2>4, <2>5, <2>8, <2>9, <2>10 DEF DebugInv, OneAwaited, WrittenTo, SamePipe, Debug!StopWaits
  <2>17. NoLateContinue'
    BY <1>2, <2>4, <2>9, <2>10 DEF DebugInv, SessionTyped, StepsOf, NoLateContinue, Places, Trusted, WrittenTo, SamePipe
  <2>18. ConnectAlone'
    BY <1>2, <2>4, <2>5, <2>9, <2>10 DEF DebugInv, ConnectAlone, StartHalts, WrittenTo, SamePipe
  <2>19. StopsFresh'
    BY <1>2, <2>4, <2>5, <2>6, <2>7, <2>8, <2>9, <2>10 DEF DebugInv, SessionTyped, StepsOf, StopsFresh,
       ConnectAlone, Trusted, Resuming, Lost, Quiet, WrittenTo, SamePipe, Debug!StopWaits
  <2>20. HaltKnown'
    BY <2>4, <2>5, <2>6, <2>7, <2>8, <2>9, <2>10 DEF DebugInv, SessionTyped, HaltKnown
  <2>21. StartHalts'
    BY <2>4, <2>5 DEF DebugInv, StartHalts
  <2>22. StopProves'
    BY <2>4, <2>5 DEF DebugInv, StopProves
  <2>23. BreakpointsKnown'
    BY <2>4, <2>5, <2>6, <2>7, <2>8, <2>9, <2>10 DEF DebugInv, BreakpointsKnown, Places, ProcessesNamed, Disarmed,
       WrittenTo, SamePipe
  <2>24. LeftProved'
    BY <1>2, <2>4, <2>5, <2>6 DEF SessionTyped, LeftProved
  <2>25. EndProved'
    BY <2>4, <2>5 DEF DebugInv, EndProved
  <2> QED BY <2>11, <2>12, <2>13, <2>14, <2>15, <2>16, <2>17, <2>18, <2>19, <2>20, <2>21, <2>22, <2>23, <2>24,
        <2>25 DEF DebugInv
<1> QED BY <1>1, <1>2

LEMMA InterruptedKeeps ==
    ASSUME DebugInv, Debug!Interrupted
    PROVE  DebugInv'
<1>1. call.step = "interrupt" /\ call.res = "ok"
  BY DEF Debug!Interrupted, Debug!Answered, Debug!At
<1>2. /\ call' \in CallType /\ call'.tool = call.tool /\ call'.step = "halted"
      /\ call'.res = (IF last THEN "stop" ELSE "") /\ call'.halted = call.halted /\ call'.removed = call.removed
      /\ call'.pinned = call.pinned
  BY AwaitTyped DEF DebugInv, SessionTyped, Places, LeaseReasoned, SessionType, CallType, AnswerType, Tools, Steps,
     Debug!CleanupReasons, Debug!Commands, Debug!StopWaits, Resting, Debug!Results, Debug!Interrupted, Debug!Answered, Debug!At, Debug!target, Debug!said
<1>3. last' = FALSE
  BY AwaitTyped DEF DebugInv, SessionTyped, Debug!StopWaits, Debug!Interrupted
<1>4. UNCHANGED <<kind, session, server, gdb, core, todo, pipe, lease, answer, doubt, reached>>
  BY AwaitTyped DEF DebugInv, SessionTyped, Debug!StopWaits, Debug!Interrupted, Debug!target, Debug!said
<1>5. SamePipe /\ SameTodo
  BY <1>4, PipeStays, TodoStays
<1>6. ~Answering /\ ~Taken /\ ~Awaiting /\ \A c : AwaitedLast(c)
  BY <1>1, NothingAwaited, NoneAwaited DEF DebugInv
<1>7. SessionTyped'
  BY <1>2, <1>3, <1>4, <1>5 DEF DebugInv, SessionTyped
<1>8. StepsOf'
  BY <1>1, <1>2, <1>3, <1>6 DEF DebugInv, StepsOf, SamePipe, SameTodo, Debug!StopWaits, Debug!Commands, Resting
<1>9. Places'
  BY <1>1, <1>2, <1>3, <1>4, <1>5, <1>6, IdleTyped, NoSessionTyped, NoLeaseTyped, NoStopsThen, NothingWritten,
     NothingAnswered DEF DebugInv, SessionTyped, StepsOf, Places, ProcessesNamed, LeaseReasoned, CallType, Debug!Results,
     SamePipe, SameTodo, Debug!StopWaits, Debug!Commands, Resting
<1>10. ProcessesNamed'
  BY <1>1, <1>2, <1>3, <1>4 DEF DebugInv, ProcessesNamed
<1>11. Untouched'
  BY <1>2, <1>3, <1>4, <1>5, <1>6 DEF DebugInv, Untouched, SameTodo
<1>12. OneAwaited'
  BY <1>2, <1>3, <1>4, <1>5, <1>6 DEF DebugInv, OneAwaited, SamePipe, SameTodo, Debug!Commands
<1>13. NoLateContinue'
  BY <1>1, <1>2, <1>3, <1>4, <1>5, <1>6 DEF DebugInv, NoLateContinue, Trusted, SameTodo
<1>14. ConnectAlone'
  BY <1>1, <1>4, <1>5, <1>6 DEF DebugInv, ConnectAlone, SameTodo
<1>15. StopsFresh'
  BY <1>1, <1>2, <1>3, <1>4, <1>5, <1>6, IdleTyped, NoSessionTyped, NoLeaseTyped, NoStopsThen, NothingWritten,
     NothingAnswered DEF DebugInv, SessionTyped, StepsOf, StopsFresh, Places, ProcessesNamed, OneAwaited,
     NoLateContinue, StartHalts, HaltKnown, ConnectAlone, Trusted, Resuming, Lost, Quiet, SamePipe, SameTodo,
     Debug!StopWaits, Debug!Commands, Resting
<1>16. HaltKnown'
  BY <1>1, <1>2, <1>3, <1>4, <1>5, <1>6, IdleTyped, NoSessionTyped, NoLeaseTyped, NoStopsThen, NothingWritten,
     NothingAnswered DEF DebugInv, SessionTyped, StepsOf, HaltKnown, Places, ProcessesNamed, OneAwaited,
     NoLateContinue, StopsFresh, StartHalts, ConnectAlone, Trusted, Quiet, Resuming, Lost, SamePipe, SameTodo,
     Debug!StopWaits, Debug!Commands, Resting
<1>17. StartHalts'
  BY <1>2, <1>3, <1>4, <1>5, <1>6 DEF DebugInv, StartHalts, SameTodo
<1>18. StopProves'
  BY <1>2, <1>3, <1>4, <1>5, <1>6 DEF DebugInv, SessionTyped, StopProves
<1>19. BreakpointsKnown'
  BY <1>1, <1>2, <1>3, <1>4, <1>5, <1>6, IdleTyped, NoSessionTyped, NoLeaseTyped, NoStopsThen, NothingWritten,
     NothingAnswered DEF DebugInv, SessionTyped, StepsOf, BreakpointsKnown, Places, ProcessesNamed, OneAwaited,
     CallType, Debug!Results, Disarmed, SamePipe, SameTodo, Debug!StopWaits, Debug!Commands, Resting
<1>20. LeftProved'
  BY <1>4, <1>5, <1>6 DEF DebugInv, LeftProved, Disarmed, SamePipe, SameTodo
<1>21. EndProved'
  BY <1>1, <1>2, <1>3, <1>4, <1>5, <1>6, IdleTyped, NoSessionTyped, NoLeaseTyped, NoStopsThen, NothingWritten,
     NothingAnswered DEF DebugInv, SessionTyped, StepsOf, EndProved, Places, ProcessesNamed, StopProves,
     BreakpointsKnown, LeftProved, Disarmed, Trusted, Quiet, SamePipe, SameTodo, Debug!StopWaits, Debug!Commands, Resting
<1> QED BY <1>7, <1>8, <1>9, <1>10, <1>11, <1>12, <1>13, <1>14, <1>15, <1>16, <1>17, <1>18, <1>19, <1>20, <1>21
      DEF DebugInv

LEMMA HaltDoneKeeps ==
    ASSUME DebugInv, Debug!HaltDone
    PROVE  DebugInv'
<1>1. CASE call.res = "stop"
  <2>1. Debug!Settled(call, call.tool = "halt", call.tool = "halt")
    BY <1>1 DEF Debug!HaltDone
  <2>2. /\ SessionTyped /\ LeaseReasoned /\ call \in CallType /\ (call.tool = "halt") \in BOOLEAN
        /\ (call.tool = "halt") \in BOOLEAN
    BY <1>1 DEF DebugInv, Places, SessionTyped
  <2>3. /\ call' = Debug!Idle /\ answer' \in AnswerType /\ answer'.tool = call.tool /\ ~answer'.safe
        /\ lease' \in LeaseType /\ LeaseReasoned' /\ (lease.state # "none" => lease'.state # "none")
        /\ doubt' \in BOOLEAN /\ (doubt' <=> doubt /\ ~(call.tool = "halt"))
    BY <1>1, <2>1, <2>2, SettledTyped
  <2>4. call.tool \in {"continue", "halt"} /\ call.step \in {"interrupt", "halted"}
    BY DEF Debug!HaltDone, Debug!Poisoned
  <2>5. call' = Debug!Idle
    BY <2>3
  <2>6. /\ session' \in SessionType /\ session'.status = "halted" /\ session'.phase = session.phase
        /\ session'.breakpoints = session.breakpoints /\ session'.unconfirmed = session.unconfirmed
    <3>1. session' = [session EXCEPT !.status = "halted", !.reason = "stop"]
      BY <1>1 DEF Debug!HaltDone
    <3>2. SessionTyped /\ Places /\ call \in CallType
      BY DEF DebugInv, SessionTyped
    <3> QED BY <1>1, <3>1, <3>2 DEF SessionTyped, SessionType, CallType
  <2>7. lease' \in LeaseType /\ LeaseReasoned' /\ (lease.state # "none" => lease'.state # "none")
    BY <2>3
  <2>8. answer' \in AnswerType /\ answer'.tool = call.tool /\ ~answer'.safe
    BY <2>3
  <2>9. doubt' \in BOOLEAN /\ (doubt' <=> doubt /\ call.tool # "halt")
    BY <2>3
  <2>10. UNCHANGED <<kind, server, gdb, core, todo, pipe, last, reached>>
    BY DEF Debug!StopWaits, Debug!HaltDone, Debug!target, Debug!stream
  <2>11. SamePipe /\ SameTodo
    BY <2>10, PipeStays, TodoStays
  <2>12. ~Answering /\ ~Taken /\ ~Awaiting /\ \A c : AwaitedLast(c)
    BY <1>1, <2>4, NothingAwaited, NoneAwaited DEF DebugInv, Debug!Commands
  <2>13. SessionTyped'
    BY <2>5, <2>6, <2>7, <2>8, <2>9, <2>10, <2>11, IdleTyped DEF DebugInv, SessionTyped
  <2>14. StepsOf'
    BY <2>5, <2>6, IdleTyped, NoSessionTyped DEF DebugInv, StepsOf
  <2>15. Places'
    BY <2>5, <2>6, <2>7, <2>8, IdleTyped, NoSessionTyped DEF DebugInv, Places
  <2>16. ProcessesNamed'
    BY <1>1, <2>4, <2>5, <2>6, <2>7, <2>8, <2>9, <2>10, IdleTyped, NoSessionTyped DEF DebugInv, SessionTyped,
       StepsOf, ProcessesNamed, Places, SamePipe
  <2>17. Untouched'
    BY <1>1, <2>4, <2>5, <2>6, <2>7, <2>8, IdleTyped DEF DebugInv, StepsOf, Untouched
  <2>18. OneAwaited'
    BY <2>5, <2>10, <2>11, <2>12, IdleTyped DEF DebugInv, SessionTyped, StepsOf, OneAwaited, SamePipe, SameTodo
  <2>19. NoLateContinue'
    BY <2>4, <2>10, <2>11, <2>12 DEF DebugInv, NoLateContinue, Places, OneAwaited, Trusted, SamePipe, SameTodo
  <2>20. ConnectAlone'
    BY <2>4, <2>5, <2>10, <2>11, <2>12 DEF DebugInv, ConnectAlone, SameTodo
  <2>21. StopsFresh'
    BY <2>4, <2>5, <2>10, <2>11, <2>12, IdleTyped DEF DebugInv, SessionTyped, StepsOf, StopsFresh, Places,
       ConnectAlone, Trusted, Resuming, Lost, Quiet, SamePipe, SameTodo
  <2>22. HaltKnown'
    BY <1>1, <2>4, <2>5, <2>6, <2>9, <2>10, <2>11, <2>12, IdleTyped DEF DebugInv, SessionTyped, StepsOf, HaltKnown,
       Places, ConnectAlone, Trusted, Quiet, Resuming, Lost, SamePipe, SameTodo, Debug!StopWaits
  <2>23. StartHalts'
    BY <2>5, <2>6, IdleTyped DEF DebugInv, StartHalts, Places
  <2>24. StopProves'
    BY <2>5, <2>6, IdleTyped DEF DebugInv, StepsOf, StopProves
  <2>25. BreakpointsKnown'
    BY <2>4, <2>5, <2>6, <2>10, <2>11, <2>12, IdleTyped, NothingAnswered DEF DebugInv, BreakpointsKnown, Places,
       Disarmed, SamePipe, SameTodo, Debug!StopWaits
  <2>26. LeftProved'
    BY <2>6, <2>7 DEF LeftProved, Places
  <2>27. EndProved'
    BY <2>8, <2>12 DEF DebugInv, EndProved
  <2> QED BY <2>13, <2>14, <2>15, <2>16, <2>17, <2>18, <2>19, <2>20, <2>21, <2>22, <2>23, <2>24, <2>25, <2>26,
        <2>27 DEF DebugInv
<1>2. CASE call.res \notin {"", "ok", "stop"}
  <2>1. Debug!Answers(call, FALSE, IF call.tool = "halt" /\ call.res = "refused" THEN "none" ELSE "unknown", "state")
    BY <1>2 DEF Debug!HaltDone
  <2>2. /\ SessionTyped /\ LeaseReasoned /\ call \in CallType /\ (FALSE) \in BOOLEAN
        /\ (IF call.tool = "halt" /\ call.res = "refused" THEN "none" ELSE "unknown") \in {"none", "unknown", "committed"}
        /\ "state" \in Debug!CleanupReasons
    BY DEF DebugInv, Places, SessionTyped, Debug!CleanupReasons
  <2>3. /\ call' = Debug!Idle /\ answer' \in AnswerType /\ answer'.tool = call.tool /\ ~answer'.safe
        /\ answer'.effect = (IF call.tool = "halt" /\ call.res = "refused" THEN "none" ELSE "unknown")
        /\ lease' \in LeaseType /\ LeaseReasoned' /\ (lease.state # "none" => lease'.state # "none")
        /\ doubt' \in BOOLEAN
        /\ (doubt' <=> doubt \/ (IF call.tool = "halt" /\ call.res = "refused" THEN "none" ELSE "unknown") = "unknown")
    BY <1>2, <2>1, <2>2, AnswersTyped
  <2>4. call.tool \in {"continue", "halt"} /\ call.step \in {"interrupt", "halted"}
    BY DEF Debug!HaltDone, Debug!Settled
  <2>5. call' = Debug!Idle
    BY <2>3
  <2>6. /\ session' \in SessionType /\ session'.status \in {"running", "error", session.status}
        /\ (session'.status = session.status \/ call.tool = "continue" \/ doubt)
        /\ session'.phase = session.phase /\ session'.breakpoints = session.breakpoints
        /\ session'.unconfirmed = session.unconfirmed
    <3>1. SessionTyped /\ Debug!Poisoned(session) \in SessionType /\ session \in SessionType /\ HaltKnown
      BY PoisonedTyped DEF DebugInv, SessionTyped
    <3>2. CASE session' = Debug!Poisoned(session)
      BY <3>1, <3>2, PoisonedTyped DEF SessionTyped
    <3>3. CASE call.tool = "continue" /\ session' = [session EXCEPT !.status = "running", !.reason = "timeout"]
      BY <3>1, <3>3 DEF SessionType
    <3>4. CASE call.tool = "halt" /\ session' = [session EXCEPT !.status = "running", !.reason = "timeout"]
      <4>1. session.status = "running"
        BY <3>1, <3>4 DEF HaltKnown
      <4> QED BY <3>1, <3>4, <4>1 DEF SessionType
    <3>5. CASE call.tool = "halt" /\ session' = [session EXCEPT !.status = "error", !.reason = "debugger_error"]
      <4>1. session.status = "running" /\ doubt
        BY <3>1, <3>5 DEF HaltKnown
      <4> QED BY <3>1, <3>5, <4>1 DEF SessionType
    <3> QED BY <1>2, <3>2, <3>3, <3>4, <3>5 DEF Debug!HaltDone
  <2>7. lease' \in LeaseType /\ LeaseReasoned' /\ (lease.state # "none" => lease'.state # "none")
    BY <2>3
  <2>8. answer' \in AnswerType /\ answer'.tool = call.tool /\ ~answer'.safe
    BY <2>3
  <2>9. doubt' \in BOOLEAN /\ (doubt => doubt') /\ (call.tool = "continue" => doubt')
    BY <2>3
  <2>10. UNCHANGED <<kind, server, gdb, core, todo, pipe, last, reached>>
    BY DEF Debug!StopWaits, Debug!HaltDone, Debug!target, Debug!stream
  <2>11. SamePipe /\ SameTodo
    BY <2>10, PipeStays, TodoStays
  <2>12. ~Answering /\ ~Taken /\ ~Awaiting /\ \A c : AwaitedLast(c)
    BY <1>2, <2>4, NothingAwaited, NoneAwaited DEF DebugInv, Debug!Commands
  <2>13. SessionTyped'
    BY <2>5, <2>6, <2>7, <2>8, <2>9, <2>10, <2>11, IdleTyped DEF DebugInv, SessionTyped
  <2>14. StepsOf'
    BY <2>5, <2>6, IdleTyped, NoSessionTyped DEF DebugInv, StepsOf
  <2>15. Places'
    BY <1>2, <2>4, <2>5, <2>6, <2>7, <2>8, IdleTyped, NoSessionTyped DEF DebugInv, Places
  <2>16. ProcessesNamed'
    BY <1>2, <2>4, <2>5, <2>6, <2>7, <2>8, <2>9, <2>10, IdleTyped, NoSessionTyped DEF DebugInv, SessionTyped,
       StepsOf, ProcessesNamed, Places, SamePipe
  <2>17. Untouched'
    BY <1>2, <2>4, <2>5, <2>6, <2>7, <2>8, IdleTyped DEF DebugInv, StepsOf, Untouched
  <2>18. OneAwaited'
    BY <2>5, <2>10, <2>11, <2>12, IdleTyped DEF DebugInv, SessionTyped, StepsOf, OneAwaited, SamePipe, SameTodo
  <2>19. NoLateContinue'
    BY <2>4, <2>10, <2>11, <2>12 DEF DebugInv, NoLateContinue, Places, OneAwaited, Trusted, SamePipe, SameTodo
  <2>20. ConnectAlone'
    BY <2>4, <2>5, <2>10, <2>11, <2>12 DEF DebugInv, ConnectAlone, SameTodo
  <2>21. StopsFresh'
    BY <2>4, <2>5, <2>10, <2>11, <2>12, IdleTyped DEF DebugInv, SessionTyped, StepsOf, StopsFresh, Places,
       ConnectAlone, Trusted, Resuming, Lost, Quiet, SamePipe, SameTodo
  <2>22. HaltKnown'
    BY <1>2, <2>4, <2>5, <2>6, <2>9, <2>10, IdleTyped DEF DebugInv, StepsOf, HaltKnown
  <2>23. StartHalts'
    BY <2>5, <2>6, IdleTyped DEF DebugInv, StartHalts, Places
  <2>24. StopProves'
    BY <2>5, <2>6, IdleTyped DEF DebugInv, StepsOf, StopProves
  <2>25. BreakpointsKnown'
    BY <2>4, <2>5, <2>6, <2>10, <2>11, <2>12, IdleTyped, NothingAnswered DEF DebugInv, BreakpointsKnown, Places,
       Disarmed, SamePipe, SameTodo, Debug!StopWaits
  <2>26. LeftProved'
    BY <2>4, <2>5, <2>6, <2>7, <2>12 DEF DebugInv, LeftProved, Places
  <2>27. EndProved'
    BY <2>8, <2>12 DEF DebugInv, EndProved
  <2> QED BY <2>13, <2>14, <2>15, <2>16, <2>17, <2>18, <2>19, <2>20, <2>21, <2>22, <2>23, <2>24, <2>25, <2>26,
        <2>27 DEF DebugInv
<1> QED BY <1>1, <1>2 DEF Debug!HaltDone

-----------------------------------------------------------------------------
(* The steps of a stop, and the recovery.                                   *)

LEMMA StopSessionKeeps ==
    ASSUME DebugInv, Debug!StopSession
    PROVE  DebugInv'
<1>1. CASE session.status = "cleanup_required"
  <2>1. Debug!Turns([[Debug!Idle EXCEPT !.tool = "stop"] EXCEPT !.halted = ~session.unconfirmed], "end")
    BY <1>1 DEF Debug!StopSession
  <2>2. [[Debug!Idle EXCEPT !.tool = "stop"] EXCEPT !.halted = ~session.unconfirmed] \in CallType /\ "end" \in Steps
    BY IdleTyped DEF CallType, Tools, Steps, Debug!Commands, Debug!StopWaits, Resting
  <2>3. /\ call' \in CallType
        /\ call'.tool = ([[Debug!Idle EXCEPT !.tool = "stop"] EXCEPT !.halted = ~session.unconfirmed]).tool
        /\ call'.step = "end" /\ call'.res = ""
        /\ call'.attempts = ([[Debug!Idle EXCEPT !.tool = "stop"] EXCEPT !.halted = ~session.unconfirmed]).attempts
         /\ call'.halted = ([[Debug!Idle EXCEPT !.tool = "stop"] EXCEPT !.halted = ~session.unconfirmed]).halted
         /\ call'.removed = ([[Debug!Idle EXCEPT !.tool = "stop"] EXCEPT !.halted = ~session.unconfirmed]).removed
         /\ call'.pinned = ([[Debug!Idle EXCEPT !.tool = "stop"] EXCEPT !.halted = ~session.unconfirmed]).pinned
    BY <1>1, <2>1, <2>2, TurnsTyped
  <2>4. /\ ([[Debug!Idle EXCEPT !.tool = "stop"] EXCEPT !.halted = ~session.unconfirmed]).tool = "stop"
        /\ (([[Debug!Idle EXCEPT !.tool = "stop"] EXCEPT !.halted = ~session.unconfirmed]).halted <=> ~session.unconfirmed)
        /\ ([[Debug!Idle EXCEPT !.tool = "stop"] EXCEPT !.halted = ~session.unconfirmed]).removed
        /\ ([[Debug!Idle EXCEPT !.tool = "stop"] EXCEPT !.halted = ~session.unconfirmed]).pinned
    BY <1>1, IdleTyped DEF CallType, Tools
  <2>5. call.tool = "none" /\ call.step = "none" /\ session.status # "none"
    BY IdleTyped DEF Debug!StopSession, Debug!Called, Debug!target
  <2>6. /\ call' \in CallType /\ call'.tool = "stop" /\ call'.step = "end" /\ call'.res = ""
        /\ (call'.halted <=> ~session.unconfirmed) /\ call'.removed /\ call'.pinned
    BY <2>3, <2>4
  <2>7. UNCHANGED <<session, last>>
    BY <1>1, <2>1 DEF Debug!StopSession, Debug!Called, Debug!target, Debug!stream
  <2>8. UNCHANGED <<kind, server, gdb, core, todo, pipe, lease, answer, doubt, reached>>
    BY <1>1 DEF Debug!StopWaits, Debug!StopSession, Debug!Called, Debug!target, Debug!stream, Debug!Refreshed, Debug!Ask, Debug!said
  <2>9. SamePipe /\ SameTodo
    BY <2>8, PipeStays, TodoStays
  <2>10. ~Answering /\ ~Taken /\ ~Awaiting /\ \A c : AwaitedLast(c)
    BY <1>1, <2>5, NothingAwaited, NoneAwaited DEF DebugInv, Debug!Commands
  <2>11. SessionTyped'
    BY <2>6, <2>7, <2>8, <2>9 DEF DebugInv, SessionTyped
  <2>12. StepsOf'
    BY <2>5, <2>6 DEF SessionTyped, StepsOf
  <2>13. Places'
    BY <2>5, <2>6, <2>7, <2>8, <2>9, <2>10 DEF DebugInv, Places, LeaseReasoned
  <2>14. ProcessesNamed'
    BY <2>5, <2>6, <2>7, <2>8 DEF DebugInv, ProcessesNamed
  <2>15. Untouched'
    BY <2>6, <2>10 DEF DebugInv, Untouched
  <2>16. OneAwaited'
    BY <2>6, <2>7, <2>8, <2>9, <2>10 DEF DebugInv, OneAwaited, SamePipe, SameTodo, Debug!Commands
  <2>17. NoLateContinue'
    BY <2>5, <2>6, <2>7, <2>8, <2>9, <2>10 DEF DebugInv, NoLateContinue, Trusted, SameTodo
  <2>18. ConnectAlone'
    BY <2>5, <2>8, <2>9, <2>10 DEF DebugInv, ConnectAlone, SameTodo
  <2>19. StopsFresh'
    BY <1>1, <2>5, <2>6, <2>7, <2>8, <2>9, <2>10 DEF DebugInv, StopsFresh, Trusted, Resuming, Lost, SamePipe,
       SameTodo
  <2>20. HaltKnown'
    BY <2>5, <2>6 DEF SessionTyped, HaltKnown
  <2>21. StartHalts'
    BY <2>6, <2>10 DEF DebugInv, StartHalts
  <2>22. StopProves'
    BY <1>1, <2>5, <2>6, <2>7, <2>8 DEF DebugInv, SessionTyped, StepsOf, StopProves, Places, ProcessesNamed,
       LeftProved, Trusted
  <2>23. BreakpointsKnown'
    BY <1>1, <2>5, <2>6, <2>7, <2>8, <2>9, <2>10 DEF DebugInv, BreakpointsKnown, Disarmed, SamePipe, SameTodo
  <2>24. LeftProved'
    BY <2>7, <2>8, <2>9, <2>10 DEF DebugInv, LeftProved, Disarmed, SamePipe, SameTodo
  <2>25. EndProved'
    BY <2>6, <2>10 DEF DebugInv, EndProved
  <2> QED BY <2>11, <2>12, <2>13, <2>14, <2>15, <2>16, <2>17, <2>18, <2>19, <2>20, <2>21, <2>22, <2>23, <2>24,
        <2>25 DEF DebugInv
<1>2. CASE session.status # "cleanup_required" /\ ~gdb.up
  <2>1. Debug!Turns([[Debug!Idle EXCEPT !.tool = "stop"] EXCEPT !.halted = FALSE], "removal")
    BY <1>2 DEF Debug!StopSession
  <2>2. [[Debug!Idle EXCEPT !.tool = "stop"] EXCEPT !.halted = FALSE] \in CallType /\ "removal" \in Steps
    BY IdleTyped DEF CallType, Tools, Steps, Debug!Commands, Debug!StopWaits, Resting
  <2>3. /\ call' \in CallType /\ call'.tool = ([[Debug!Idle EXCEPT !.tool = "stop"] EXCEPT !.halted = FALSE]).tool
        /\ call'.step = "removal" /\ call'.res = ""
        /\ call'.attempts = ([[Debug!Idle EXCEPT !.tool = "stop"] EXCEPT !.halted = FALSE]).attempts
         /\ call'.halted = ([[Debug!Idle EXCEPT !.tool = "stop"] EXCEPT !.halted = FALSE]).halted
         /\ call'.removed = ([[Debug!Idle EXCEPT !.tool = "stop"] EXCEPT !.halted = FALSE]).removed
         /\ call'.pinned = ([[Debug!Idle EXCEPT !.tool = "stop"] EXCEPT !.halted = FALSE]).pinned
    BY <1>2, <2>1, <2>2, TurnsTyped
  <2>4. /\ ([[Debug!Idle EXCEPT !.tool = "stop"] EXCEPT !.halted = FALSE]).tool = "stop"
        /\ (([[Debug!Idle EXCEPT !.tool = "stop"] EXCEPT !.halted = FALSE]).halted <=> FALSE)
        /\ ([[Debug!Idle EXCEPT !.tool = "stop"] EXCEPT !.halted = FALSE]).removed
        /\ ([[Debug!Idle EXCEPT !.tool = "stop"] EXCEPT !.halted = FALSE]).pinned
    BY <1>2, IdleTyped DEF CallType, Tools
  <2>5. call.tool = "none" /\ call.step = "none" /\ session.status # "none"
    BY IdleTyped DEF Debug!StopSession, Debug!Called, Debug!target
  <2>6. call' \in CallType /\ call'.tool = "stop" /\ call'.step = "removal" /\ call'.res = "" /\ ~call'.halted
    BY <2>3, <2>4
  <2>7. UNCHANGED <<session, last>>
    BY <1>2, <2>1 DEF Debug!StopSession, Debug!Called, Debug!target, Debug!stream
  <2>8. UNCHANGED <<kind, server, gdb, core, todo, pipe, lease, answer, doubt, reached>>
    BY <1>2 DEF Debug!StopWaits, Debug!StopSession, Debug!Called, Debug!target, Debug!stream, Debug!Refreshed, Debug!Ask, Debug!said
  <2>9. SamePipe /\ SameTodo
    BY <2>8, PipeStays, TodoStays
  <2>10. ~Answering /\ ~Taken /\ ~Awaiting /\ \A c : AwaitedLast(c)
    BY <1>2, <2>5, NothingAwaited, NoneAwaited DEF DebugInv, Debug!Commands
  <2>11. SessionTyped'
    BY <2>6, <2>7, <2>8, <2>9 DEF DebugInv, SessionTyped
  <2>12. StepsOf'
    BY <2>5, <2>6 DEF SessionTyped, StepsOf
  <2>13. Places'
    BY <1>2, <2>5, <2>6, <2>7, <2>8, <2>9, <2>10 DEF DebugInv, Places, LeaseReasoned
  <2>14. ProcessesNamed'
    BY <1>2, <2>7, <2>8 DEF DebugInv, ProcessesNamed
  <2>15. Untouched'
    BY <2>6, <2>10 DEF DebugInv, Untouched
  <2>16. OneAwaited'
    BY <1>2, <2>5, <2>8, <2>9, <2>10 DEF DebugInv, OneAwaited, SamePipe, SameTodo, Debug!Commands
  <2>17. NoLateContinue'
    BY <2>5, <2>6, <2>7, <2>8, <2>9, <2>10 DEF DebugInv, NoLateContinue, Trusted, SameTodo
  <2>18. ConnectAlone'
    BY <2>5, <2>8, <2>9, <2>10 DEF DebugInv, ConnectAlone, SameTodo
  <2>19. StopsFresh'
    BY <1>2, <2>8, <2>9 DEF SessionTyped, StopsFresh
  <2>20. HaltKnown'
    BY <2>5, <2>6 DEF SessionTyped, HaltKnown
  <2>21. StartHalts'
    BY <2>6, <2>10 DEF DebugInv, StartHalts
  <2>22. StopProves'
    BY <2>6, <2>10 DEF DebugInv, StopProves
  <2>23. BreakpointsKnown'
    BY <1>2, <2>5, <2>6, <2>7, <2>8, <2>9, <2>10 DEF DebugInv, BreakpointsKnown, Disarmed, SamePipe, SameTodo
  <2>24. LeftProved'
    BY <1>2, <2>7 DEF DebugInv, LeftProved, Places
  <2>25. EndProved'
    BY <2>6, <2>10 DEF DebugInv, EndProved
  <2> QED BY <2>11, <2>12, <2>13, <2>14, <2>15, <2>16, <2>17, <2>18, <2>19, <2>20, <2>21, <2>22, <2>23, <2>24,
        <2>25 DEF DebugInv
<1>3. CASE session.status # "cleanup_required" /\ gdb.up /\ Debug!Refreshed.status = "halted"
  <2>1. Debug!Turns([Debug!Idle EXCEPT !.tool = "stop"], "removal")
    BY <1>3 DEF Debug!StopSession
  <2>2. [Debug!Idle EXCEPT !.tool = "stop"] \in CallType /\ "removal" \in Steps
    BY IdleTyped DEF CallType, Tools, Steps, Debug!Commands, Debug!StopWaits, Resting
  <2>3. /\ call' \in CallType /\ call'.tool = ([Debug!Idle EXCEPT !.tool = "stop"]).tool /\ call'.step = "removal"
        /\ call'.res = "" /\ call'.attempts = ([Debug!Idle EXCEPT !.tool = "stop"]).attempts
         /\ call'.halted = ([Debug!Idle EXCEPT !.tool = "stop"]).halted
         /\ call'.removed = ([Debug!Idle EXCEPT !.tool = "stop"]).removed
         /\ call'.pinned = ([Debug!Idle EXCEPT !.tool = "stop"]).pinned
    BY <1>3, <2>1, <2>2, TurnsTyped
  <2>4. /\ ([Debug!Idle EXCEPT !.tool = "stop"]).tool = "stop" /\ (([Debug!Idle EXCEPT !.tool = "stop"]).halted <=> TRUE)
        /\ ([Debug!Idle EXCEPT !.tool = "stop"]).removed /\ ([Debug!Idle EXCEPT !.tool = "stop"]).pinned
    BY <1>3, IdleTyped DEF CallType, Tools
  <2>5. call.tool = "none" /\ call.step = "none" /\ session.status # "none"
    BY IdleTyped DEF Debug!Results, Debug!StopSession, Debug!Called
  <2>6. call' \in CallType /\ call'.tool = "stop" /\ call'.step = "removal" /\ call'.res = "" /\ call'.halted
    BY <2>3, <2>4
  <2>7. /\ session' \in SessionType /\ session'.status = (IF last THEN "halted" ELSE session.status)
        /\ session'.phase = session.phase /\ session'.breakpoints = session.breakpoints
        /\ session'.unconfirmed = session.unconfirmed
    <3>1. session' = Debug!Refreshed
      BY <1>3 DEF Debug!StopSession
    <3>2. SessionTyped /\ Places /\ call \in CallType
      BY DEF DebugInv, SessionTyped
    <3> QED BY <3>1, <3>2, RefreshedTyped DEF SessionTyped
  <2>8. last' = FALSE
    BY <1>3 DEF Debug!StopWaits, Debug!StopSession
  <2>9. UNCHANGED <<kind, server, gdb, core, todo, pipe, lease, answer, doubt, reached>>
    BY <1>3 DEF Debug!StopSession, Debug!Called, Debug!target, Debug!stream, Debug!Ask, Debug!said
  <2>10. last \/ session.status = "halted"
    BY <1>3, IdleTyped, RefreshedTyped DEF DebugInv, SessionTyped
  <2>11. SamePipe /\ SameTodo
    BY <2>9, <2>10, PipeStays, TodoStays
  <2>12. ~Answering /\ ~Taken /\ ~Awaiting /\ \A c : AwaitedLast(c)
    BY <2>5, <2>6, NothingAwaited, NoneAwaited DEF DebugInv, Debug!Commands
  <2>13. SessionTyped'
    BY <2>6, <2>7, <2>8, <2>9 DEF DebugInv, SessionTyped
  <2>14. StepsOf'
    BY <2>6 DEF DebugInv, SessionTyped, StepsOf
  <2>15. Places'
    BY <1>3, <2>5, <2>6, <2>7, <2>8, <2>9 DEF DebugInv, Places, LeaseReasoned
  <2>16. ProcessesNamed'
    BY <2>5, <2>6, <2>7, <2>8, <2>9, <2>10 DEF DebugInv, ProcessesNamed
  <2>17. Untouched'
    BY <2>6, <2>7 DEF DebugInv, Untouched
  <2>18. OneAwaited'
    BY <2>6, <2>7, <2>8, <2>9, <2>10, <2>11, <2>12 DEF DebugInv, OneAwaited, SamePipe, SameTodo, Debug!Commands
  <2>19. NoLateContinue'
    BY <2>5, <2>6, <2>9, <2>10, <2>11, <2>12 DEF DebugInv, NoLateContinue, Trusted, SameTodo
  <2>20. ConnectAlone'
    BY <2>5, <2>6, <2>10, <2>11, <2>12 DEF DebugInv, ConnectAlone, SameTodo
  <2>21. StopsFresh'
    BY <1>3, <2>5, <2>6, <2>7, <2>8, <2>9, <2>10, <2>11, <2>12 DEF DebugInv, StopsFresh, Trusted, Resuming, Lost,
       SamePipe, SameTodo
  <2>22. HaltKnown'
    BY <2>6 DEF DebugInv, SessionTyped, HaltKnown
  <2>23. StartHalts'
    BY <2>6, <2>7 DEF DebugInv, StartHalts
  <2>24. StopProves'
    BY <1>3, <2>5, <2>6, <2>7, <2>8, <2>9, <2>10, <2>11, <2>12 DEF DebugInv, StopProves, Places, NoLateContinue,
       StopsFresh, HaltKnown, LeftProved, Trusted, Quiet, Resuming, Lost
  <2>25. BreakpointsKnown'
    BY <1>3, <2>5, <2>6, <2>7, <2>8, <2>9, <2>10, <2>11, <2>12 DEF DebugInv, BreakpointsKnown, Disarmed, SamePipe,
       SameTodo
  <2>26. LeftProved'
    BY <1>3, <2>7, <2>8 DEF LeftProved, Places
  <2>27. EndProved'
    BY <2>6, <2>7 DEF DebugInv, EndProved
  <2> QED BY <2>13, <2>14, <2>15, <2>16, <2>17, <2>18, <2>19, <2>20, <2>21, <2>22, <2>23, <2>24, <2>25, <2>26,
        <2>27 DEF DebugInv
<1>4. CASE session.status # "cleanup_required" /\ gdb.up /\ Debug!Refreshed.status # "halted"
  <2>1. /\ [Debug!Idle EXCEPT !.tool = "stop"] \in CallType /\ SessionTyped /\ "interrupt" \in Debug!Commands
        /\ Debug!Ask([Debug!Idle EXCEPT !.tool = "stop"], "interrupt")
    BY <1>4, IdleTyped DEF DebugInv, SessionTyped, CallType, Tools, Debug!Commands, Debug!StopSession
  <2>2. /\ call' \in CallType /\ call'.tool = [Debug!Idle EXCEPT !.tool = "stop"].tool /\ call'.step = "interrupt"
        /\ call'.attempts = [Debug!Idle EXCEPT !.tool = "stop"].attempts
     /\ call'.res = (IF gdb.up THEN "" ELSE "dead")
     /\ call'.halted = [Debug!Idle EXCEPT !.tool = "stop"].halted
     /\ call'.removed = [Debug!Idle EXCEPT !.tool = "stop"].removed
     /\ call'.pinned = [Debug!Idle EXCEPT !.tool = "stop"].pinned
     /\ todo' \in Seq(OnItsWay) /\ UNCHANGED <<pipe, server, gdb, core>>
    BY <2>1, AskTyped
  <2>3. /\ ([Debug!Idle EXCEPT !.tool = "stop"]).tool = "stop" /\ ([Debug!Idle EXCEPT !.tool = "stop"]).halted
        /\ ([Debug!Idle EXCEPT !.tool = "stop"]).removed /\ ([Debug!Idle EXCEPT !.tool = "stop"]).pinned
    BY IdleTyped DEF CallType
  <2>4. call.tool = "none" /\ call.step = "none" /\ session.status # "none"
    BY IdleTyped DEF Debug!Results, Debug!StopSession, Debug!Called
  <2>5. call' \in CallType /\ call'.tool = "stop" /\ call'.step = "interrupt" /\ call'.res = ""
    BY <1>4, <2>1, <2>2, <2>3
  <2>6. /\ session' \in SessionType /\ session'.status = (IF last THEN "halted" ELSE session.status)
        /\ session'.phase = session.phase /\ session'.breakpoints = session.breakpoints
        /\ session'.unconfirmed = session.unconfirmed
    <3>1. session' = Debug!Refreshed
      BY <1>4 DEF Debug!StopSession
    <3>2. SessionTyped /\ Places /\ call \in CallType
      BY DEF DebugInv, SessionTyped
    <3> QED BY <3>1, <3>2, RefreshedTyped DEF SessionTyped
  <2>7. ~last /\ last' = FALSE
    BY <1>4, RefreshedTyped DEF DebugInv, Debug!StopSession, Debug!Called
  <2>8. todo' \in Seq(OnItsWay)
    BY <2>1, <2>2
  <2>9. UNCHANGED <<kind, server, gdb, core, pipe, lease, answer, doubt, reached>>
    BY <2>2 DEF Debug!StopSession, Debug!Called, Debug!stream, Debug!said
  <2>10. WrittenTo("interrupt")
    <3>1. [Debug!Idle EXCEPT !.tool = "stop"] \in CallType
      BY IdleTyped DEF CallType, Tools
    <3> QED BY <1>4, <2>4, <2>5, <2>9, <3>1, AskAsks DEF DebugInv, Debug!StopSession, Debug!Commands
  <2>11. ~Answering /\ ~Taken /\ ~Awaiting /\ \A c : AwaitedLast(c)
    BY <2>4, <2>5, NothingAwaited, NoneAwaited DEF DebugInv, Debug!Commands
  <2>12. SessionTyped'
    BY <2>5, <2>6, <2>7, <2>8, <2>9, <2>10 DEF DebugInv, SessionTyped
  <2>13. StepsOf'
    BY <2>5 DEF DebugInv, SessionTyped, StepsOf
  <2>14. Places'
    BY <1>4, <2>4, <2>5, <2>6, <2>9, <2>10, <2>11 DEF DebugInv, Places, LeaseReasoned
  <2>15. ProcessesNamed'
    BY <2>5, <2>6, <2>7, <2>8, <2>9 DEF DebugInv, ProcessesNamed
  <2>16. Untouched'
    BY <2>5, <2>6 DEF DebugInv, Untouched
  <2>17. OneAwaited'
    BY <2>5, <2>6, <2>9, <2>10, <2>11 DEF DebugInv, OneAwaited, WrittenTo, SamePipe, Debug!StopWaits
  <2>18. NoLateContinue'
    BY <2>4, <2>5, <2>8, <2>9, <2>10, <2>11 DEF DebugInv, SessionTyped, StepsOf, NoLateContinue, Places, Trusted,
       WrittenTo, SamePipe
  <2>19. ConnectAlone'
    BY <1>4, <2>4, <2>9, <2>10, <2>11 DEF DebugInv, ConnectAlone, StartHalts, WrittenTo, SamePipe
  <2>20. StopsFresh'
    BY <2>4, <2>5, <2>6, <2>7, <2>8, <2>9, <2>10, <2>11 DEF DebugInv, SessionTyped, StepsOf, StopsFresh,
       ConnectAlone, Trusted, Resuming, Lost, Quiet, WrittenTo, SamePipe, Debug!StopWaits
  <2>21. HaltKnown'
    BY <2>5 DEF DebugInv, SessionTyped, HaltKnown
  <2>22. StartHalts'
    BY <2>5, <2>6 DEF DebugInv, StartHalts
  <2>23. StopProves'
    BY <1>4, <2>4, <2>5, <2>6 DEF DebugInv, StopProves
  <2>24. BreakpointsKnown'
    BY <1>4, <2>4, <2>5, <2>6, <2>9, <2>10, <2>11 DEF DebugInv, BreakpointsKnown, Places, ProcessesNamed, Disarmed,
       WrittenTo, SamePipe
  <2>25. LeftProved'
    BY <1>4, <2>6, <2>7 DEF LeftProved, Places
  <2>26. EndProved'
    BY <2>5, <2>6 DEF DebugInv, EndProved
  <2> QED BY <2>12, <2>13, <2>14, <2>15, <2>16, <2>17, <2>18, <2>19, <2>20, <2>21, <2>22, <2>23, <2>24, <2>25,
        <2>26 DEF DebugInv
<1> QED BY <1>1, <1>2, <1>3, <1>4

LEMMA ConfirmedKeeps ==
    ASSUME DebugInv, Debug!Confirmed
    PROVE  DebugInv'
<1>1. call.tool = "stop" /\ call.step \in {"interrupt", "halted"} /\ call.res \notin {"", "ok"}
  BY DEF Debug!Confirmed, Debug!Turns
<1>2. /\ call' \in CallType /\ call'.tool = "stop" /\ call'.step = "removal" /\ call'.res = ""
      /\ (call'.halted <=> call.res = "stop") /\ call'.removed = call.removed /\ call'.pinned = call.pinned
  BY PoisonedTyped DEF DebugInv, SessionTyped, Places, LeaseReasoned, SessionType, CallType, AnswerType, Tools,
     Steps, Debug!CleanupReasons, Debug!Commands, Debug!StopWaits, Resting, Debug!Results, Debug!Confirmed, Debug!Turns, Debug!target, Debug!stream, Debug!said
<1>3. /\ session' \in SessionType /\ session'.status \in {"halted", "running", session.status}
      /\ session'.phase = session.phase /\ session'.breakpoints = session.breakpoints
      /\ session'.unconfirmed = session.unconfirmed
  BY PoisonedTyped DEF DebugInv, SessionTyped, Places, LeaseReasoned, SessionType, CallType, AnswerType, Tools,
     Steps, Debug!CleanupReasons, Debug!Commands, Debug!StopWaits, Resting, Debug!Results, Debug!Confirmed, Debug!Turns, Debug!target, Debug!stream, Debug!said
<1>4. UNCHANGED <<kind, server, gdb, core, todo, pipe, last, lease, answer, doubt, reached>>
  BY DEF Debug!StopWaits, Debug!Confirmed, Debug!Turns, Debug!target, Debug!stream, Debug!said
<1>5. SamePipe /\ SameTodo
  BY <1>4, PipeStays, TodoStays
<1>6. ~Answering /\ ~Taken /\ ~Awaiting /\ \A c : AwaitedLast(c)
  BY <1>1, NothingAwaited, NoneAwaited DEF DebugInv
<1>7. SessionTyped'
  BY <1>2, <1>3, <1>4, <1>5 DEF DebugInv, SessionTyped
<1>8. StepsOf'
  BY <1>1, <1>2 DEF SessionTyped, StepsOf
<1>9. Places'
  BY <1>1, <1>2, <1>3, <1>4, <1>5, <1>6, IdleTyped, NoSessionTyped, NoLeaseTyped, NoStopsThen, NothingWritten,
     NothingAnswered DEF DebugInv, SessionTyped, StepsOf, Places, ProcessesNamed, LeaseReasoned, CallType, Debug!Results,
     SamePipe, SameTodo, Debug!StopWaits, Debug!Commands, Resting
<1>10. ProcessesNamed'
  BY <1>1, <1>2, <1>3, <1>4, <1>5, <1>6, IdleTyped, NoSessionTyped, NoLeaseTyped, NoStopsThen, NothingWritten,
     NothingAnswered DEF DebugInv, SessionTyped, StepsOf, ProcessesNamed, Places, SamePipe, SameTodo, Debug!StopWaits,
     Debug!Commands, Resting
<1>11. Untouched'
  BY <1>1, <1>2 DEF Untouched, SameTodo
<1>12. OneAwaited'
  BY <1>2, <1>3, <1>4, <1>5, <1>6 DEF DebugInv, OneAwaited, SamePipe, SameTodo, Debug!Commands
<1>13. NoLateContinue'
  BY <1>1, <1>2, <1>3, <1>4, <1>5, <1>6 DEF DebugInv, NoLateContinue, Trusted, SameTodo
<1>14. ConnectAlone'
  BY <1>1, <1>4, <1>5, <1>6 DEF DebugInv, ConnectAlone, SameTodo
<1>15. StopsFresh'
  BY <1>1, <1>2, <1>3, <1>4, <1>5, <1>6 DEF DebugInv, StopsFresh, Trusted, Resuming, Lost, SamePipe, SameTodo
<1>16. HaltKnown'
  BY <1>1, <1>2 DEF SessionTyped, HaltKnown
<1>17. StartHalts'
  BY <1>1, <1>2 DEF StartHalts, SameTodo
<1>18. StopProves'
  BY <1>1, <1>2, <1>3, <1>4, <1>5, <1>6 DEF DebugInv, SessionTyped, StepsOf, StopProves, Places, HaltKnown,
     LeftProved, Trusted, Quiet, SameTodo, Debug!StopWaits
<1>19. BreakpointsKnown'
  BY <1>1, <1>2, <1>3, <1>4, <1>5, <1>6 DEF DebugInv, BreakpointsKnown, Places, OneAwaited, Disarmed, SamePipe,
     SameTodo
<1>20. LeftProved'
  BY <1>3, <1>4, <1>5, <1>6 DEF DebugInv, LeftProved, Disarmed, SamePipe, SameTodo
<1>21. EndProved'
  BY <1>1, <1>2 DEF DebugInv, EndProved
<1> QED BY <1>7, <1>8, <1>9, <1>10, <1>11, <1>12, <1>13, <1>14, <1>15, <1>16, <1>17, <1>18, <1>19, <1>20, <1>21
      DEF DebugInv

LEMMA RemoveBreakpointsKeeps ==
    ASSUME DebugInv, Debug!RemoveBreakpoints
    PROVE  DebugInv'
<1>1. CASE kind = "ended" /\ session.breakpoints
  <2>1. call \in CallType /\ SessionTyped /\ "remove" \in Debug!Commands /\ Debug!Ask(call, "remove")
    BY <1>1 DEF DebugInv, SessionTyped, Debug!Commands, Debug!RemoveBreakpoints
  <2>2. /\ call' \in CallType /\ call'.tool = call.tool /\ call'.step = "remove"
        /\ call'.attempts = call.attempts
     /\ call'.res = (IF gdb.up THEN "" ELSE "dead")
     /\ call'.halted = call.halted /\ call'.removed = call.removed /\ call'.pinned = call.pinned
     /\ todo' \in Seq(OnItsWay) /\ UNCHANGED <<pipe, server, gdb, core>>
    BY <2>1, AskTyped
  <2>3. call.tool = "stop" /\ call.step = "removal"
    BY DEF Debug!RemoveBreakpoints, Debug!At
  <2>4. /\ call' \in CallType /\ call'.tool = "stop" /\ call'.step = "remove"
        /\ call'.res = (IF gdb.up THEN "" ELSE "dead") /\ call'.halted = call.halted
        /\ call'.removed = call.removed /\ call'.pinned = call.pinned
    BY <2>1, <2>2 DEF Debug!RemoveBreakpoints, Debug!At
  <2>5. todo' \in Seq(OnItsWay)
    BY <2>2
  <2>6. UNCHANGED <<kind, session, server, gdb, core, pipe, last, lease, answer, doubt, reached>>
    BY <2>1, <2>2 DEF Debug!StopWaits, Debug!RemoveBreakpoints, Debug!Turns, Debug!said
  <2>7. WrittenTo("remove")
    BY <1>1, <2>3, <2>6, AskAsks DEF DebugInv, SessionTyped, Debug!RemoveBreakpoints, Debug!Answered, Debug!At, Debug!Commands
  <2>8. ~Answering /\ ~Taken /\ ~Awaiting /\ \A c : AwaitedLast(c)
    BY <1>1, <2>3, NothingAwaited, NoneAwaited DEF DebugInv, Debug!Commands
  <2>9. SessionTyped'
    BY <2>4, <2>5, <2>6, <2>7 DEF DebugInv, SessionTyped
  <2>10. StepsOf'
    BY <2>4, <2>5, <2>6 DEF StepsOf, Debug!Commands, Resting
  <2>11. Places'
    BY <2>3, <2>4, <2>5, <2>6, <2>7, <2>8 DEF DebugInv, Places, LeaseReasoned
  <2>12. ProcessesNamed'
    BY <2>3, <2>4, <2>5, <2>6 DEF DebugInv, ProcessesNamed
  <2>13. Untouched'
    BY <2>4, <2>8 DEF DebugInv, Untouched
  <2>14. OneAwaited'
    BY <2>4, <2>5, <2>6, <2>7, <2>8 DEF DebugInv, OneAwaited, WrittenTo, SamePipe, Debug!StopWaits
  <2>15. NoLateContinue'
    BY <2>3, <2>4, <2>5, <2>6, <2>7, <2>8 DEF DebugInv, SessionTyped, StepsOf, NoLateContinue, Places, Trusted,
       WrittenTo, SamePipe
  <2>16. ConnectAlone'
    BY <1>1, <2>3, <2>6, <2>7, <2>8 DEF DebugInv, ConnectAlone, StartHalts, WrittenTo, SamePipe
  <2>17. StopsFresh'
    BY <2>3, <2>4, <2>5, <2>6, <2>7, <2>8 DEF DebugInv, SessionTyped, StepsOf, StopsFresh, ConnectAlone, Trusted,
       Resuming, Lost, Quiet, WrittenTo, SamePipe, Debug!StopWaits
  <2>18. HaltKnown'
    BY <2>3, <2>4 DEF SessionTyped, HaltKnown
  <2>19. StartHalts'
    BY <2>4, <2>8 DEF DebugInv, StartHalts
  <2>20. StopProves'
    BY <2>3, <2>4, <2>5, <2>6 DEF DebugInv, StopProves
  <2>21. BreakpointsKnown'
    BY <1>1, <2>3, <2>4, <2>5, <2>6, <2>7 DEF BreakpointsKnown, Places, WrittenTo, SamePipe
  <2>22. LeftProved'
    BY <2>3, <2>6, <2>7, <2>8 DEF DebugInv, LeftProved, Places
  <2>23. EndProved'
    BY <2>4, <2>8 DEF DebugInv, EndProved
  <2> QED BY <2>9, <2>10, <2>11, <2>12, <2>13, <2>14, <2>15, <2>16, <2>17, <2>18, <2>19, <2>20, <2>21, <2>22,
        <2>23 DEF DebugInv
<1>2. CASE ~(kind = "ended" /\ session.breakpoints)
  <2>1. call.tool = "stop" /\ call.step = "removal"
    BY DEF Debug!RemoveBreakpoints, Debug!At
  <2>2. /\ call' \in CallType /\ call'.tool = "stop" /\ call'.step = "pin" /\ call'.res = ""
        /\ call'.halted = call.halted /\ call'.removed = call.removed /\ call'.pinned = call.pinned
    BY <1>2, TurnsTyped DEF DebugInv, SessionTyped, Places, LeaseReasoned, SessionType, CallType, AnswerType, Tools,
       Steps, Debug!CleanupReasons, Debug!Commands, Debug!StopWaits, Resting, Debug!Results, Debug!RemoveBreakpoints, Debug!At, Debug!Ask, Debug!target, Debug!said
  <2>3. UNCHANGED <<todo>>
    BY <1>2 DEF Debug!StopWaits, Debug!RemoveBreakpoints
  <2>4. UNCHANGED <<kind, session, server, gdb, core, pipe, last, lease, answer, doubt, reached>>
    BY DEF Debug!StopWaits, Debug!RemoveBreakpoints, Debug!At, Debug!Ask, Debug!target, Debug!said
  <2>5. SamePipe /\ SameTodo
    BY <2>3, <2>4, PipeStays, TodoStays
  <2>6. ~Answering /\ ~Taken /\ ~Awaiting /\ \A c : AwaitedLast(c)
    BY <1>2, <2>1, NothingAwaited, NoneAwaited DEF DebugInv, Debug!Commands
  <2>7. SessionTyped'
    BY <2>2, <2>3, <2>4, <2>5 DEF DebugInv, SessionTyped
  <2>8. StepsOf'
    BY <2>1, <2>2 DEF SessionTyped, StepsOf
  <2>9. Places'
    BY <2>1, <2>2, <2>3, <2>4, <2>5, <2>6 DEF DebugInv, Places, LeaseReasoned
  <2>10. ProcessesNamed'
    BY <2>1, <2>2, <2>3, <2>4 DEF DebugInv, ProcessesNamed
  <2>11. Untouched'
    BY <2>2, <2>6 DEF DebugInv, Untouched
  <2>12. OneAwaited'
    BY <2>2, <2>3, <2>4, <2>5, <2>6 DEF DebugInv, OneAwaited, SamePipe, SameTodo, Debug!Commands
  <2>13. NoLateContinue'
    BY <2>1, <2>2, <2>3, <2>4, <2>5, <2>6 DEF DebugInv, NoLateContinue, Trusted, SameTodo
  <2>14. ConnectAlone'
    BY <2>1, <2>4, <2>5, <2>6 DEF DebugInv, ConnectAlone, SameTodo
  <2>15. StopsFresh'
    BY <1>2, <2>1, <2>2, <2>3, <2>4, <2>5, <2>6 DEF DebugInv, StopsFresh, Trusted, Resuming, Lost, SamePipe,
       SameTodo
  <2>16. HaltKnown'
    BY <2>1, <2>2 DEF SessionTyped, HaltKnown
  <2>17. StartHalts'
    BY <2>2, <2>6 DEF DebugInv, StartHalts
  <2>18. StopProves'
    BY <2>1, <2>2, <2>3, <2>4 DEF DebugInv, StopProves
  <2>19. BreakpointsKnown'
    BY <1>2, <2>1, <2>2, <2>3, <2>4, <2>5, <2>6 DEF DebugInv, BreakpointsKnown, Places, OneAwaited, Disarmed,
       SamePipe, SameTodo
  <2>20. LeftProved'
    BY <2>1, <2>4, <2>5, <2>6 DEF DebugInv, LeftProved, Places
  <2>21. EndProved'
    BY <2>2, <2>6 DEF DebugInv, EndProved
  <2> QED BY <2>7, <2>8, <2>9, <2>10, <2>11, <2>12, <2>13, <2>14, <2>15, <2>16, <2>17, <2>18, <2>19, <2>20,
        <2>21 DEF DebugInv
<1> QED BY <1>1, <1>2

LEMMA RemovedKeeps ==
    ASSUME DebugInv, Debug!Removed
    PROVE  DebugInv'
<1>1. call.tool = "stop" /\ call.step = "remove" /\ call.res # ""
  BY DEF Debug!Removed, Debug!Answered, Debug!At, Debug!Turns
<1>2. /\ call' \in CallType /\ call'.tool = "stop" /\ call'.step = "pin" /\ call'.res = ""
      /\ (call'.removed <=> call.res = "ok") /\ call'.halted = call.halted /\ call'.pinned = call.pinned
  BY DEF DebugInv, SessionTyped, Places, LeaseReasoned, SessionType, CallType, AnswerType, Tools, Steps,
     Debug!CleanupReasons, Debug!Commands, Debug!StopWaits, Resting, Debug!Results, Debug!Removed, Debug!Answered, Debug!At, Debug!Turns, Debug!target, Debug!stream, Debug!said
<1>3. /\ session' \in SessionType /\ session'.status = session.status /\ session'.phase = session.phase
      /\ (session'.breakpoints <=> session.breakpoints /\ call.res # "ok")
      /\ session'.unconfirmed = session.unconfirmed
  BY DEF DebugInv, SessionTyped, Places, LeaseReasoned, SessionType, Debug!Results, Debug!Removed
<1>4. UNCHANGED <<kind, server, gdb, core, todo, pipe, last, lease, answer, doubt, reached>>
  BY DEF Debug!Removed, Debug!Turns, Debug!target, Debug!stream, Debug!said
<1>5. SamePipe /\ SameTodo
  BY <1>4, PipeStays, TodoStays
<1>6. ~Answering /\ ~Taken /\ ~Awaiting /\ \A c : AwaitedLast(c)
  BY <1>1, NothingAwaited, NoneAwaited DEF DebugInv
<1>7. SessionTyped'
  BY <1>2, <1>3, <1>4, <1>5 DEF DebugInv, SessionTyped
<1>8. StepsOf'
  BY <1>1, <1>2 DEF SessionTyped, StepsOf
<1>9. Places'
  BY <1>1, <1>2, <1>3, <1>4, <1>5, <1>6, IdleTyped, NoSessionTyped, NoLeaseTyped, NoStopsThen, NothingWritten,
     NothingAnswered DEF DebugInv, SessionTyped, StepsOf, Places, ProcessesNamed, LeaseReasoned, CallType, Debug!Results,
     SamePipe, SameTodo, Debug!StopWaits, Debug!Commands, Resting
<1>10. ProcessesNamed'
  BY <1>1, <1>2, <1>3, <1>4 DEF DebugInv, ProcessesNamed
<1>11. Untouched'
  BY <1>1, <1>2 DEF Untouched, SameTodo
<1>12. OneAwaited'
  BY <1>2, <1>3, <1>4, <1>5, <1>6 DEF DebugInv, OneAwaited, SamePipe, SameTodo, Debug!Commands
<1>13. NoLateContinue'
  BY <1>1, <1>2, <1>3, <1>4, <1>5, <1>6 DEF DebugInv, NoLateContinue, Trusted, SameTodo
<1>14. ConnectAlone'
  BY <1>1, <1>4, <1>5, <1>6 DEF DebugInv, ConnectAlone, SameTodo
<1>15. StopsFresh'
  BY <1>1, <1>2, <1>3, <1>4, <1>5, <1>6 DEF DebugInv, StopsFresh, Trusted, Resuming, Lost, SamePipe, SameTodo
<1>16. HaltKnown'
  BY <1>1, <1>2 DEF SessionTyped, HaltKnown
<1>17. StartHalts'
  BY <1>1, <1>2 DEF StartHalts, SameTodo
<1>18. StopProves'
  BY <1>1, <1>2, <1>3, <1>4, <1>5, <1>6 DEF DebugInv, SessionTyped, StopProves
<1>19. BreakpointsKnown'
  BY <1>1, <1>2, <1>3, <1>4, <1>5, <1>6 DEF DebugInv, BreakpointsKnown, Disarmed, SamePipe, SameTodo
<1>20. LeftProved'
  BY <1>1, <1>2, <1>3, <1>4, <1>5, <1>6, IdleTyped, NoSessionTyped, NoLeaseTyped, NoStopsThen, NothingWritten,
     NothingAnswered DEF DebugInv, SessionTyped, StepsOf, LeftProved, Places, ProcessesNamed, StopProves,
     BreakpointsKnown, OneAwaited, Disarmed, Trusted, Quiet, SamePipe, SameTodo, Debug!StopWaits, Debug!Commands, Resting
<1>21. EndProved'
  BY <1>1, <1>2 DEF DebugInv, EndProved
<1> QED BY <1>7, <1>8, <1>9, <1>10, <1>11, <1>12, <1>13, <1>14, <1>15, <1>16, <1>17, <1>18, <1>19, <1>20, <1>21
      DEF DebugInv

LEMMA PinKeeps ==
    ASSUME DebugInv, Debug!Pin
    PROVE  DebugInv'
<1>1. CASE kind = "command" /\ Debug!Ask(call, "guard")
  <2>1. call \in CallType /\ SessionTyped /\ "guard" \in Debug!Commands /\ Debug!Ask(call, "guard")
    BY <1>1 DEF DebugInv, SessionTyped, Debug!Commands, Debug!Pin
  <2>2. /\ call' \in CallType /\ call'.tool = call.tool /\ call'.step = "guard"
        /\ call'.attempts = call.attempts
     /\ call'.res = (IF gdb.up THEN "" ELSE "dead")
     /\ call'.halted = call.halted /\ call'.removed = call.removed /\ call'.pinned = call.pinned
     /\ todo' \in Seq(OnItsWay) /\ UNCHANGED <<pipe, server, gdb, core>>
    BY <2>1, AskTyped
  <2>3. call.tool = "stop" /\ call.step = "pin"
    BY DEF Debug!Pin, Debug!At
  <2>4. /\ call' \in CallType /\ call'.tool = "stop" /\ call'.step = "guard"
        /\ call'.res = (IF gdb.up THEN "" ELSE "dead") /\ call'.halted = call.halted
        /\ call'.removed = call.removed /\ call'.pinned = call.pinned
    BY <2>1, <2>2 DEF Debug!Pin, Debug!At
  <2>5. todo' \in Seq(OnItsWay)
    BY <2>2
  <2>6. UNCHANGED <<kind, session, server, gdb, core, pipe, last, lease, answer, doubt, reached>>
    BY <2>1, <2>2 DEF Debug!StopWaits, Debug!Pin, Debug!Turns, Debug!said
  <2>7. WrittenTo("guard")
    BY <1>1, <2>3, <2>6, AskAsks DEF DebugInv, SessionTyped, Debug!At, Debug!Commands
  <2>8. ~Answering /\ ~Taken /\ ~Awaiting /\ \A c : AwaitedLast(c)
    BY <1>1, <2>3, NothingAwaited, NoneAwaited DEF DebugInv, Debug!Commands
  <2>9. SessionTyped'
    BY <2>4, <2>5, <2>6, <2>7 DEF DebugInv, SessionTyped
  <2>10. StepsOf'
    BY <2>3, <2>4 DEF DebugInv, StepsOf, Debug!Commands, Resting
  <2>11. Places'
    BY <2>3, <2>4, <2>5, <2>6, <2>7, <2>8 DEF DebugInv, Places, LeaseReasoned
  <2>12. ProcessesNamed'
    BY <2>3, <2>4, <2>5, <2>6 DEF DebugInv, ProcessesNamed
  <2>13. Untouched'
    BY <2>4, <2>8 DEF DebugInv, Untouched
  <2>14. OneAwaited'
    BY <2>4, <2>5, <2>6, <2>7, <2>8 DEF DebugInv, OneAwaited, WrittenTo, SamePipe, Debug!StopWaits
  <2>15. NoLateContinue'
    BY <2>3, <2>4, <2>5, <2>6, <2>7, <2>8 DEF DebugInv, SessionTyped, StepsOf, NoLateContinue, Places, Trusted,
       WrittenTo, SamePipe
  <2>16. ConnectAlone'
    BY <1>1, <2>3, <2>6, <2>7, <2>8 DEF DebugInv, ConnectAlone, StartHalts, WrittenTo, SamePipe
  <2>17. StopsFresh'
    BY <2>3, <2>4, <2>5, <2>6, <2>7, <2>8 DEF DebugInv, SessionTyped, StepsOf, StopsFresh, ConnectAlone, Trusted,
       Resuming, Lost, Quiet, WrittenTo, SamePipe, Debug!StopWaits
  <2>18. HaltKnown'
    BY <2>3, <2>4 DEF SessionTyped, HaltKnown
  <2>19. StartHalts'
    BY <2>4, <2>8 DEF DebugInv, StartHalts
  <2>20. StopProves'
    BY <2>3, <2>4, <2>5, <2>6, <2>7, <2>8 DEF DebugInv, SessionTyped, StepsOf, StopProves, Disarmed, WrittenTo,
       SamePipe, Debug!StopWaits
  <2>21. BreakpointsKnown'
    BY <1>1, <2>6, <2>7 DEF SessionTyped, BreakpointsKnown
  <2>22. LeftProved'
    BY <1>1, <2>6, <2>7, <2>8 DEF DebugInv, LeftProved, Places
  <2>23. EndProved'
    BY <2>4, <2>8 DEF DebugInv, EndProved
  <2> QED BY <2>9, <2>10, <2>11, <2>12, <2>13, <2>14, <2>15, <2>16, <2>17, <2>18, <2>19, <2>20, <2>21, <2>22,
        <2>23 DEF DebugInv
<1>2. CASE Debug!Turns([call EXCEPT !.pinned = FALSE], "end") /\ UNCHANGED <<Debug!target, todo, pipe>>
  <2>1. Debug!Turns([call EXCEPT !.pinned = FALSE], "end")
    BY <1>2
  <2>2. [call EXCEPT !.pinned = FALSE] \in CallType /\ "end" \in Steps
    BY DEF DebugInv, SessionTyped, CallType, Tools, Steps, Debug!Commands, Debug!StopWaits, Resting
  <2>3. /\ call' \in CallType /\ call'.tool = ([call EXCEPT !.pinned = FALSE]).tool /\ call'.step = "end"
        /\ call'.res = "" /\ call'.attempts = ([call EXCEPT !.pinned = FALSE]).attempts
         /\ call'.halted = ([call EXCEPT !.pinned = FALSE]).halted
         /\ call'.removed = ([call EXCEPT !.pinned = FALSE]).removed
         /\ call'.pinned = ([call EXCEPT !.pinned = FALSE]).pinned
    BY <1>2, <2>1, <2>2, TurnsTyped
  <2>4. /\ ([call EXCEPT !.pinned = FALSE]).tool = call.tool
        /\ ([call EXCEPT !.pinned = FALSE]).halted = call.halted
        /\ ([call EXCEPT !.pinned = FALSE]).removed = call.removed /\ ~([call EXCEPT !.pinned = FALSE]).pinned
    OBVIOUS
  <2>5. call.tool = "stop" /\ call.step = "pin"
    BY DEF Debug!Pin, Debug!At
  <2>6. /\ call' \in CallType /\ call'.tool = "stop" /\ call'.step = "end" /\ call'.res = ""
        /\ call'.halted = call.halted /\ call'.removed = call.removed /\ ~call'.pinned
    BY <2>3, <2>4 DEF Debug!Pin, Debug!At
  <2>7. UNCHANGED <<server>>
    BY <1>2 DEF Debug!Ask, Debug!target, Debug!said
  <2>8. UNCHANGED <<kind, session, gdb, core, todo, pipe, last, lease, answer, doubt, reached>>
    BY <1>2, <2>1 DEF Debug!Pin, Debug!target, Debug!said
  <2>9. SamePipe /\ SameTodo
    BY <2>8, PipeStays, TodoStays
  <2>10. ~Answering /\ ~Taken /\ ~Awaiting /\ \A c : AwaitedLast(c)
    BY <1>2, <2>5, NothingAwaited, NoneAwaited DEF DebugInv, Debug!Commands
  <2>11. SessionTyped'
    BY <2>6, <2>7, <2>8, <2>9 DEF DebugInv, SessionTyped
  <2>12. StepsOf'
    BY <2>5, <2>6 DEF SessionTyped, StepsOf
  <2>13. Places'
    BY <2>5, <2>6, <2>7, <2>8, <2>9, <2>10 DEF DebugInv, Places, LeaseReasoned
  <2>14. ProcessesNamed'
    BY <2>5, <2>6, <2>7, <2>8 DEF DebugInv, ProcessesNamed
  <2>15. Untouched'
    BY <2>6, <2>10 DEF DebugInv, Untouched
  <2>16. OneAwaited'
    BY <2>6, <2>7, <2>8, <2>9, <2>10 DEF DebugInv, OneAwaited, SamePipe, SameTodo, Debug!Commands
  <2>17. NoLateContinue'
    BY <2>5, <2>6, <2>7, <2>8, <2>9, <2>10 DEF DebugInv, NoLateContinue, Trusted, SameTodo
  <2>18. ConnectAlone'
    BY <2>5, <2>8, <2>9, <2>10 DEF DebugInv, ConnectAlone, SameTodo
  <2>19. StopsFresh'
    BY <1>2, <2>5, <2>6, <2>7, <2>8, <2>9, <2>10 DEF DebugInv, StopsFresh, Trusted, Resuming, Lost, SamePipe,
       SameTodo
  <2>20. HaltKnown'
    BY <2>5, <2>6 DEF SessionTyped, HaltKnown
  <2>21. StartHalts'
    BY <2>6, <2>10 DEF DebugInv, StartHalts
  <2>22. StopProves'
    BY <2>5, <2>6, <2>7, <2>8 DEF DebugInv, StopProves
  <2>23. BreakpointsKnown'
    BY <1>2, <2>5, <2>6, <2>7, <2>8, <2>9, <2>10 DEF DebugInv, BreakpointsKnown, Disarmed, SamePipe, SameTodo
  <2>24. LeftProved'
    BY <2>5, <2>8, <2>9, <2>10 DEF DebugInv, LeftProved, Places
  <2>25. EndProved'
    BY <2>6, <2>10 DEF DebugInv, EndProved
  <2> QED BY <2>11, <2>12, <2>13, <2>14, <2>15, <2>16, <2>17, <2>18, <2>19, <2>20, <2>21, <2>22, <2>23, <2>24,
        <2>25 DEF DebugInv
<1>3. CASE gdb.up /\ server' = "gone" /\ Debug!Turns(call, "end") /\ UNCHANGED <<gdb, core, todo, pipe>>
  <2>1. Debug!Turns(call, "end")
    BY <1>3
  <2>2. call \in CallType /\ "end" \in Steps
    BY DEF DebugInv, SessionTyped, Steps, Debug!Commands, Debug!StopWaits, Resting
  <2>3. /\ call' \in CallType /\ call'.tool = call.tool /\ call'.step = "end" /\ call'.res = ""
        /\ call'.attempts = call.attempts
         /\ call'.halted = call.halted /\ call'.removed = call.removed /\ call'.pinned = call.pinned
    BY <1>3, <2>1, <2>2, TurnsTyped
  <2>4. call.tool = "stop" /\ call.step = "pin"
    BY DEF Debug!Pin, Debug!At
  <2>5. /\ call' \in CallType /\ call'.tool = "stop" /\ call'.step = "end" /\ call'.res = ""
        /\ call'.halted = call.halted /\ call'.removed = call.removed /\ call'.pinned = call.pinned
    BY <2>2, <2>3 DEF Debug!Pin, Debug!At
  <2>6. gdb.up /\ server' = "gone"
    BY <1>3
  <2>7. UNCHANGED <<kind, session, gdb, core, todo, pipe, last, lease, answer, doubt, reached>>
    BY <1>3, <2>1 DEF Debug!StopWaits, Debug!Pin, Debug!target, Debug!said
  <2>8. SamePipe /\ SameTodo
    BY <2>7, PipeStays, TodoStays
  <2>9. ~Answering /\ ~Taken /\ ~Awaiting /\ \A c : AwaitedLast(c)
    BY <1>3, <2>4, NothingAwaited, NoneAwaited DEF DebugInv, Debug!Commands
  <2>10. SessionTyped'
    BY <2>5, <2>6, <2>7, <2>8 DEF DebugInv, SessionTyped
  <2>11. StepsOf'
    BY <2>4, <2>5 DEF SessionTyped, StepsOf
  <2>12. Places'
    BY <2>4, <2>5, <2>6, <2>7, <2>8, <2>9 DEF DebugInv, Places, LeaseReasoned
  <2>13. ProcessesNamed'
    BY <2>4, <2>5, <2>6, <2>7 DEF DebugInv, ProcessesNamed
  <2>14. Untouched'
    BY <2>5, <2>9 DEF DebugInv, Untouched
  <2>15. OneAwaited'
    BY <2>5, <2>6, <2>7, <2>8, <2>9 DEF DebugInv, OneAwaited, SamePipe, SameTodo, Debug!Commands
  <2>16. NoLateContinue'
    BY <2>4, <2>5, <2>6, <2>7, <2>8, <2>9 DEF DebugInv, NoLateContinue, Trusted, SameTodo
  <2>17. ConnectAlone'
    BY <2>4, <2>7, <2>8, <2>9 DEF DebugInv, ConnectAlone, SameTodo
  <2>18. StopsFresh'
    BY <1>3, <2>4, <2>5, <2>6, <2>7, <2>8, <2>9 DEF DebugInv, StopsFresh, Trusted, Resuming, Lost, SamePipe,
       SameTodo
  <2>19. HaltKnown'
    BY <2>4, <2>5 DEF SessionTyped, HaltKnown
  <2>20. StartHalts'
    BY <2>5, <2>9 DEF DebugInv, StartHalts
  <2>21. StopProves'
    BY <2>4, <2>5, <2>6, <2>7 DEF DebugInv, StopProves
  <2>22. BreakpointsKnown'
    BY <1>3, <2>4, <2>5, <2>6, <2>7, <2>8, <2>9 DEF DebugInv, BreakpointsKnown, Disarmed, SamePipe, SameTodo
  <2>23. LeftProved'
    BY <1>3, <2>7, <2>8, <2>9 DEF DebugInv, LeftProved, Places
  <2>24. EndProved'
    BY <2>5, <2>9 DEF DebugInv, EndProved
  <2> QED BY <2>10, <2>11, <2>12, <2>13, <2>14, <2>15, <2>16, <2>17, <2>18, <2>19, <2>20, <2>21, <2>22, <2>23,
        <2>24 DEF DebugInv
<1> QED BY <1>1, <1>2, <1>3 DEF Debug!Pin

LEMMA PinnedKeeps ==
    ASSUME DebugInv, Debug!Pinned
    PROVE  DebugInv'
<1>1. call.tool = "stop" /\ call.step = "guard" /\ call.res # ""
  BY DEF Debug!Pinned, Debug!Answered, Debug!At, Debug!Turns
<1>2. /\ call' \in CallType /\ call'.tool = "stop" /\ call'.step = "end" /\ call'.res = ""
      /\ (call'.pinned <=> call.res = "ok") /\ call'.halted = call.halted /\ call'.removed = call.removed
  BY DEF DebugInv, SessionTyped, Places, LeaseReasoned, SessionType, CallType, AnswerType, Tools, Steps,
     Debug!CleanupReasons, Debug!Commands, Debug!StopWaits, Resting, Debug!Results, Debug!Pinned, Debug!Answered, Debug!At, Debug!Turns, Debug!target, Debug!stream, Debug!said
<1>3. UNCHANGED <<kind, session, server, gdb, core, todo, pipe, last, lease, answer, doubt, reached>>
  BY DEF Debug!Pinned, Debug!Turns, Debug!target, Debug!stream, Debug!said
<1>4. SamePipe /\ SameTodo
  BY <1>3, PipeStays, TodoStays
<1>5. ~Answering /\ ~Taken /\ ~Awaiting /\ \A c : AwaitedLast(c)
  BY <1>1, <1>2, <1>3, NothingAwaited, NoneAwaited DEF DebugInv
<1>6. SessionTyped'
  BY <1>1, <1>2, <1>3, <1>4 DEF DebugInv, SessionTyped
<1>7. StepsOf'
  BY <1>1, <1>2 DEF SessionTyped, StepsOf
<1>8. Places'
  BY <1>1, <1>2, <1>3, <1>4, <1>5 DEF DebugInv, Places, LeaseReasoned
<1>9. ProcessesNamed'
  BY <1>1, <1>2, <1>3, <1>4, <1>5 DEF DebugInv, SessionTyped, ProcessesNamed
<1>10. Untouched'
  BY <1>1, <1>2 DEF SessionTyped, Untouched
<1>11. OneAwaited'
  BY <1>2, <1>3, <1>4, <1>5 DEF DebugInv, OneAwaited, SamePipe, SameTodo, Debug!Commands
<1>12. NoLateContinue'
  BY <1>1, <1>2, <1>3, <1>4, <1>5 DEF DebugInv, NoLateContinue, Trusted, SamePipe, SameTodo
<1>13. ConnectAlone'
  BY <1>1, <1>4, <1>5 DEF DebugInv, ConnectAlone, SamePipe, SameTodo
<1>14. StopsFresh'
  BY <1>1, <1>2, <1>3, <1>4, <1>5 DEF DebugInv, StopsFresh, Trusted, Resuming, Lost, SamePipe, SameTodo
<1>15. HaltKnown'
  BY <1>1, <1>2 DEF SessionTyped, HaltKnown
<1>16. StartHalts'
  BY <1>1, <1>2 DEF SessionTyped, StartHalts
<1>17. StopProves'
  BY <1>1, <1>2, <1>3, <1>4, <1>5 DEF DebugInv, SessionTyped, StopProves
<1>18. BreakpointsKnown'
  BY <1>1, <1>2, <1>3, <1>4, <1>5 DEF DebugInv, BreakpointsKnown, Disarmed, SamePipe, SameTodo
<1>19. LeftProved'
  BY <1>3, <1>4, <1>5 DEF DebugInv, LeftProved, Disarmed, SamePipe, SameTodo
<1>20. EndProved'
  BY <1>1, <1>2 DEF SessionTyped, EndProved
<1> QED BY <1>6, <1>7, <1>8, <1>9, <1>10, <1>11, <1>12, <1>13, <1>14, <1>15, <1>16, <1>17, <1>18, <1>19, <1>20
      DEF DebugInv

LEMMA EndKeeps ==
    ASSUME DebugInv, Debug!End
    PROVE  DebugInv'
<1>1. PICK ended \in BOOLEAN :
          LET proved == call.halted /\ call.removed /\ call.pinned
              over == ended /\ proved
              released == over /\ lease.why \subseteq {"cleanup"} IN
          /\ Debug!Cleans(ended)
          /\ session' = IF over THEN Debug!NoSession
                        ELSE [session EXCEPT !.status = "cleanup_required", !.unconfirmed = @ \/ ~proved]
          /\ lease' = IF released THEN Debug!NoLease ELSE IF over THEN lease ELSE Debug!Held("cleanup")
          /\ call' = Debug!Idle /\ answer' = [tool |-> "stop", ok |-> released, effect |-> "committed", safe |-> over]
  BY DEF Debug!End
<1>2. /\ server' = (IF ended THEN "gone" ELSE server) /\ server' \in {"none", "up", "gone"}
      /\ gdb' \in [up : BOOLEAN, linked : BOOLEAN] /\ ~gdb'.up /\ ~gdb'.linked
      /\ core' \in [halted : BOOLEAN, armed : BOOLEAN, guarded : BOOLEAN]
      /\ core.halted /\ (core.guarded \/ server # "up" \/ ~gdb.linked) => core'.halted
      /\ ~core.armed => ~core'.armed
      /\ todo' = <<>> /\ pipe' = <<>> /\ last' = FALSE
  <2>1. SessionTyped /\ Debug!CleanUp(ended)
    BY <1>1 DEF DebugInv, Debug!Cleans
  <2> QED BY <2>1, CleanUpTyped
<1>3. /\ SessionTyped /\ LeaseReasoned /\ call.halted \in BOOLEAN /\ call.removed \in BOOLEAN
      /\ call.pinned \in BOOLEAN
  BY DEF DebugInv, Places, SessionTyped, CallType
<1>4. CASE ended /\ call.halted /\ call.removed /\ call.pinned
  <2>1. call.tool = "stop" /\ call.step = "end"
    BY DEF Debug!End, Debug!At
  <2>2. call' = Debug!Idle
    BY <1>1
  <2>3. answer' \in AnswerType /\ answer'.tool = "stop"
    BY <1>1, <1>3 DEF AnswerType, Tools
  <2>4. session' = Debug!NoSession
    BY <1>4, <1>1
  <2>5. lease' \in LeaseType /\ LeaseReasoned'
    BY <1>4, <1>1, <1>3, NoLeaseTyped DEF LeaseReasoned, SessionTyped
  <2>6. server' = (IF ended THEN "gone" ELSE server) /\ server' \in {"none", "up", "gone"}
    BY <1>2
  <2>7. gdb' \in [up : BOOLEAN, linked : BOOLEAN] /\ ~gdb'.up /\ ~gdb'.linked
    BY <1>2
  <2>8. core' \in [halted : BOOLEAN, armed : BOOLEAN, guarded : BOOLEAN]
    BY <1>2
  <2>9. core.halted /\ (core.guarded \/ server # "up" \/ ~gdb.linked) => core'.halted
    BY <1>2
  <2>10. ~core.armed => ~core'.armed
    BY <1>2
  <2>11. UNCHANGED <<kind, doubt, reached>>
    BY DEF Debug!StopWaits, Debug!End
  <2>12. Emptied
    BY <1>2, StreamEmptied
  <2>13. SessionTyped'
    BY <2>2, <2>3, <2>4, <2>5, <2>6, <2>7, <2>8, <2>9, <2>10, <2>11, <2>12, EmptySeq, IdleTyped, NoSessionTyped,
       NoLeaseTyped DEF DebugInv, SessionTyped, Emptied
  <2>14. StepsOf'
    BY <1>1, <1>2, IdleTyped, NoSessionTyped DEF DebugInv, StepsOf
  <2>15. Places'
    BY <2>2, <2>3, <2>4, <2>5, IdleTyped, NoSessionTyped DEF DebugInv, Places
  <2>16. ProcessesNamed'
    BY <1>4, <1>1, <1>2, <2>1, NoSessionTyped DEF DebugInv, ProcessesNamed, Places
  <2>17. Untouched'
    BY <1>1, <1>2, IdleTyped DEF DebugInv, StepsOf, Untouched
  <2>18. OneAwaited'
    BY <1>2, <2>12 DEF DebugInv, OneAwaited, Emptied
  <2>19. NoLateContinue'
    BY <2>12 DEF DebugInv, NoLateContinue, Places, Emptied, Debug!StopWaits
  <2>20. ConnectAlone'
    BY <2>11, <2>12 DEF StepsOf, ConnectAlone, Emptied, Debug!StopWaits
  <2>21. StopsFresh'
    BY <2>7, <2>8 DEF SessionTyped, StopsFresh
  <2>22. HaltKnown'
    BY <1>4, <1>1, <2>2, IdleTyped, NoSessionTyped, NoLeaseTyped DEF StepsOf, HaltKnown
  <2>23. StartHalts'
    BY <2>6, <2>7 DEF DebugInv, StartHalts
  <2>24. StopProves'
    BY <1>1, <1>2, IdleTyped DEF DebugInv, StepsOf, StopProves
  <2>25. BreakpointsKnown'
    BY <1>4, <1>1, <1>2, <2>1, <2>2, <2>3, <2>4, <2>5, <2>6, <2>7, <2>8, <2>9, <2>10, <2>11, <2>12, IdleTyped,
       NoSessionTyped, NoLeaseTyped, NoStopsThen, NothingWritten, NothingAnswered DEF DebugInv, SessionTyped,
       StepsOf, BreakpointsKnown, Places, ProcessesNamed, OneAwaited, CallType, Debug!Results, Disarmed, Emptied,
       Debug!StopWaits, Debug!Commands, Resting
  <2>26. LeftProved'
    BY <1>4, <1>1, <1>2, <2>1, <2>2, <2>11, <2>12 DEF DebugInv, SessionTyped, StepsOf, LeftProved, Places,
       ProcessesNamed, StopProves, BreakpointsKnown, OneAwaited, Disarmed, Emptied, Debug!StopWaits
  <2>27. EndProved'
    BY <1>1, <1>2, <2>1, <2>2, <2>11, <2>12 DEF DebugInv, SessionTyped, StepsOf, EndProved, Places, ProcessesNamed,
       StopProves, BreakpointsKnown, LeftProved, Disarmed
  <2> QED BY <2>13, <2>14, <2>15, <2>16, <2>17, <2>18, <2>19, <2>20, <2>21, <2>22, <2>23, <2>24, <2>25, <2>26,
        <2>27 DEF DebugInv
<1>5. CASE ~(ended /\ call.halted /\ call.removed /\ call.pinned)
  <2>1. call.tool = "stop" /\ call.step = "end"
    BY DEF Debug!End, Debug!At
  <2>2. call' = Debug!Idle
    BY <1>1
  <2>3. answer' \in AnswerType /\ answer'.tool = "stop" /\ ~answer'.safe
    BY <1>5, <1>1, <1>3 DEF AnswerType, Tools
  <2>4. /\ session' \in SessionType /\ session'.status = "cleanup_required"
        /\ session'.breakpoints = session.breakpoints
        /\ (session'.unconfirmed <=> session.unconfirmed \/ ~(call.halted /\ call.removed /\ call.pinned))
    <3>1. session' = [session EXCEPT !.status = "cleanup_required", !.unconfirmed = @ \/ ~(call.halted /\ call.removed /\ call.pinned)]
      BY <1>5, <1>1
    <3>2. PICK b \in BOOLEAN : b <=> (session.unconfirmed \/ ~(call.halted /\ call.removed /\ call.pinned))
      OBVIOUS
    <3>3. session \in SessionType /\ session.unconfirmed \in BOOLEAN
      BY <1>3 DEF SessionTyped, SessionType
    <3>4. session' = [session EXCEPT !.status = "cleanup_required", !.unconfirmed = b]
      BY <3>1, <3>2, <3>3
    <3> QED BY <3>2, <3>3, <3>4 DEF SessionType
  <2>5. lease' \in LeaseType /\ LeaseReasoned' /\ lease'.state # "none"
    BY <1>5, <1>1, <1>3, HeldTyped DEF LeaseReasoned, Debug!CleanupReasons
  <2>6. server' = (IF ended THEN "gone" ELSE server) /\ server' \in {"none", "up", "gone"}
    BY <1>2
  <2>7. gdb' \in [up : BOOLEAN, linked : BOOLEAN] /\ ~gdb'.up /\ ~gdb'.linked
    BY <1>2
  <2>8. core' \in [halted : BOOLEAN, armed : BOOLEAN, guarded : BOOLEAN]
    BY <1>2
  <2>9. core.halted /\ (core.guarded \/ server # "up" \/ ~gdb.linked) => core'.halted
    BY <1>2
  <2>10. ~core.armed => ~core'.armed
    BY <1>2
  <2>11. UNCHANGED <<kind, doubt, reached>>
    BY DEF Debug!StopWaits, Debug!End
  <2>12. Emptied
    BY <1>2, StreamEmptied
  <2>13. SessionTyped'
    BY <2>2, <2>3, <2>4, <2>5, <2>6, <2>7, <2>8, <2>9, <2>10, <2>11, <2>12, EmptySeq, IdleTyped, NoSessionTyped,
       NoLeaseTyped DEF DebugInv, SessionTyped, Emptied
  <2>14. StepsOf'
    BY <1>1, <1>2, IdleTyped, NoSessionTyped DEF DebugInv, StepsOf
  <2>15. Places'
    BY <1>2, <2>1, <2>2, <2>3, <2>4, <2>5, IdleTyped, NoSessionTyped DEF DebugInv, Places
  <2>16. ProcessesNamed'
    BY <1>1, <2>5, <2>6, <2>7 DEF DebugInv, ProcessesNamed
  <2>17. Untouched'
    BY <1>1, <1>2, IdleTyped DEF DebugInv, StepsOf, Untouched
  <2>18. OneAwaited'
    BY <1>2, <2>12 DEF DebugInv, OneAwaited, Emptied
  <2>19. NoLateContinue'
    BY <2>12 DEF DebugInv, NoLateContinue, Places, Emptied, Debug!StopWaits
  <2>20. ConnectAlone'
    BY <2>11, <2>12 DEF StepsOf, ConnectAlone, Emptied, Debug!StopWaits
  <2>21. StopsFresh'
    BY <2>7, <2>8 DEF SessionTyped, StopsFresh
  <2>22. HaltKnown'
    BY <2>2, <2>3, <2>4, <2>5, IdleTyped DEF DebugInv, HaltKnown, Places
  <2>23. StartHalts'
    BY <2>6, <2>7 DEF DebugInv, StartHalts
  <2>24. StopProves'
    BY <1>1, <1>2, IdleTyped DEF DebugInv, StepsOf, StopProves
  <2>25. BreakpointsKnown'
    BY <2>1, <2>2, <2>3, <2>4, <2>10, <2>11, <2>12, IdleTyped DEF DebugInv, SessionTyped, StepsOf, BreakpointsKnown,
       Places, Debug!Results, Disarmed, Emptied
  <2>26. LeftProved'
    BY <2>1, <2>2, <2>3, <2>4, <2>9, <2>10, <2>11, <2>12 DEF DebugInv, SessionTyped, StepsOf, LeftProved, Places,
       ProcessesNamed, StopProves, BreakpointsKnown, OneAwaited, Disarmed, Emptied, Debug!StopWaits
  <2>27. EndProved'
    BY <1>5, <1>1, <2>10 DEF DebugInv, EndProved
  <2> QED BY <2>13, <2>14, <2>15, <2>16, <2>17, <2>18, <2>19, <2>20, <2>21, <2>22, <2>23, <2>24, <2>25, <2>26,
        <2>27 DEF DebugInv
<1> QED BY <1>4, <1>5

LEMMA RecoversKeeps ==
    ASSUME DebugInv, NEW works \in BOOLEAN, Debug!Recovers(works)
    PROVE  DebugInv'
<1>1. CASE works
  <2>1. call = Debug!Idle
    BY DEF Debug!Recovers
  <2>2. gdb' \in [up : BOOLEAN, linked : BOOLEAN] /\ ~gdb'.up /\ ~gdb'.linked
    BY DEF Debug!Recovers
  <2>3. server' \in {"none", "gone"}
    BY DEF Debug!Recovers
  <2>4. core' \in [halted : BOOLEAN, armed : BOOLEAN, guarded : BOOLEAN] /\ core'.armed = core.armed
    <3>1. PICK c \in {core, Debug!LetGo(core)} : core' = [c EXCEPT !.halted = @ \/ (works /\ lease.why = {"start"})]
      BY DEF Debug!Recovers
    <3>2. core \in [halted : BOOLEAN, armed : BOOLEAN, guarded : BOOLEAN]
      BY DEF DebugInv, SessionTyped
    <3>3. /\ c \in [halted : BOOLEAN, armed : BOOLEAN, guarded : BOOLEAN] /\ c.armed = core.armed
          /\ (core.halted /\ ~gdb.linked => c.halted)
      BY <3>2 DEF Debug!LetGo
    <3>4. PICK b \in BOOLEAN : b <=> (c.halted \/ (works /\ lease.why = {"start"}))
      OBVIOUS
    <3>5. core' = [c EXCEPT !.halted = b] /\ (c.halted => b)
      BY <3>1, <3>3, <3>4
    <3> QED BY <3>3, <3>5
  <2>5. core.halted /\ ~gdb.linked => core'.halted
    <3>1. PICK c \in {core, Debug!LetGo(core)} : core' = [c EXCEPT !.halted = @ \/ (works /\ lease.why = {"start"})]
      BY DEF Debug!Recovers
    <3>2. core \in [halted : BOOLEAN, armed : BOOLEAN, guarded : BOOLEAN]
      BY DEF DebugInv, SessionTyped
    <3>3. /\ c \in [halted : BOOLEAN, armed : BOOLEAN, guarded : BOOLEAN] /\ c.armed = core.armed
          /\ (core.halted /\ ~gdb.linked => c.halted)
      BY <3>2 DEF Debug!LetGo
    <3>4. PICK b \in BOOLEAN : b <=> (c.halted \/ (works /\ lease.why = {"start"}))
      OBVIOUS
    <3>5. core' = [c EXCEPT !.halted = b] /\ (c.halted => b)
      BY <3>1, <3>3, <3>4
    <3> QED BY <3>3, <3>5
  <2>6. answer' \in AnswerType /\ answer'.tool = "none"
    BY DEF AnswerType, Tools, Debug!Recovers, Debug!CleanupReasons, Debug!NoLease, Debug!NoAnswer
  <2>7. session' = Debug!NoSession /\ lease' = Debug!NoLease /\ doubt' = FALSE
    BY <1>1 DEF DebugInv, SessionTyped, Debug!Recovers
  <2>8. UNCHANGED <<kind, call, reached>>
    BY DEF Debug!Recovers, Debug!CleanupReasons
  <2>9. Emptied
    BY StreamEmptied DEF DebugInv, Debug!Recovers, Debug!stream
  <2>10. SessionTyped'
    BY <2>1, <2>2, <2>3, <2>4, <2>5, <2>6, <2>7, <2>8, <2>9, EmptySeq, IdleTyped, NoSessionTyped, NoLeaseTyped
       DEF DebugInv, SessionTyped, Emptied
  <2>11. StepsOf'
    BY <2>7, <2>8, <2>9 DEF DebugInv, SessionTyped, StepsOf
  <2>12. Places'
    BY <1>1, <2>1, <2>6, <2>7, <2>8, <2>9, IdleTyped, NoSessionTyped, NoLeaseTyped, NoStopsThen DEF StepsOf,
       Places, ProcessesNamed, LeaseReasoned
  <2>13. ProcessesNamed'
    BY <2>2, <2>3, <2>6, <2>7, IdleTyped, NoSessionTyped DEF StepsOf, ProcessesNamed
  <2>14. Untouched'
    BY <1>1, <2>1, <2>6, <2>7, <2>8, <2>9, IdleTyped DEF DebugInv, StepsOf, Untouched
  <2>15. OneAwaited'
    BY <2>2, <2>8, <2>9 DEF DebugInv, OneAwaited, Emptied
  <2>16. NoLateContinue'
    BY <2>9 DEF DebugInv, NoLateContinue, StartHalts, Trusted, Emptied
  <2>17. ConnectAlone'
    BY <2>8, <2>9 DEF ConnectAlone, Places, StartHalts, Emptied
  <2>18. StopsFresh'
    BY <2>1, <2>2 DEF SessionTyped, StopsFresh
  <2>19. HaltKnown'
    BY <2>1, <2>7, <2>8, <2>9, IdleTyped, NoSessionTyped DEF StepsOf, HaltKnown, Places
  <2>20. StartHalts'
    BY <2>2, <2>9 DEF DebugInv, StartHalts
  <2>21. StopProves'
    BY <1>1, <2>1, <2>8, <2>9, IdleTyped DEF DebugInv, StepsOf, StopProves
  <2>22. BreakpointsKnown'
    BY <1>1, <2>1, <2>6, <2>7, <2>8, <2>9, IdleTyped, NoSessionTyped DEF StepsOf, BreakpointsKnown
  <2>23. LeftProved'
    BY <2>6, <2>7, IdleTyped, NoSessionTyped DEF StepsOf, LeftProved
  <2>24. EndProved'
    BY <2>6, <2>7 DEF DebugInv, EndProved
  <2> QED BY <2>10, <2>11, <2>12, <2>13, <2>14, <2>15, <2>16, <2>17, <2>18, <2>19, <2>20, <2>21, <2>22, <2>23,
        <2>24 DEF DebugInv
<1>2. CASE ~works
  <2>1. call = Debug!Idle
    BY DEF Debug!Recovers
  <2>2. gdb' \in [up : BOOLEAN, linked : BOOLEAN] /\ ~gdb'.up /\ ~gdb'.linked
    BY DEF Debug!Recovers
  <2>3. server' \in {"none", "gone"}
    BY DEF Debug!Recovers
  <2>4. core' \in [halted : BOOLEAN, armed : BOOLEAN, guarded : BOOLEAN] /\ core'.armed = core.armed
    <3>1. PICK c \in {core, Debug!LetGo(core)} : core' = [c EXCEPT !.halted = @ \/ (works /\ lease.why = {"start"})]
      BY DEF Debug!Recovers
    <3>2. core \in [halted : BOOLEAN, armed : BOOLEAN, guarded : BOOLEAN]
      BY DEF DebugInv, SessionTyped
    <3>3. /\ c \in [halted : BOOLEAN, armed : BOOLEAN, guarded : BOOLEAN] /\ c.armed = core.armed
          /\ (core.halted /\ ~gdb.linked => c.halted)
      BY <3>2 DEF Debug!LetGo
    <3>4. PICK b \in BOOLEAN : b <=> (c.halted \/ (works /\ lease.why = {"start"}))
      OBVIOUS
    <3>5. core' = [c EXCEPT !.halted = b] /\ (c.halted => b)
      BY <3>1, <3>3, <3>4
    <3> QED BY <3>3, <3>5
  <2>5. core.halted /\ ~gdb.linked => core'.halted
    <3>1. PICK c \in {core, Debug!LetGo(core)} : core' = [c EXCEPT !.halted = @ \/ (works /\ lease.why = {"start"})]
      BY DEF Debug!Recovers
    <3>2. core \in [halted : BOOLEAN, armed : BOOLEAN, guarded : BOOLEAN]
      BY DEF DebugInv, SessionTyped
    <3>3. /\ c \in [halted : BOOLEAN, armed : BOOLEAN, guarded : BOOLEAN] /\ c.armed = core.armed
          /\ (core.halted /\ ~gdb.linked => c.halted)
      BY <3>2 DEF Debug!LetGo
    <3>4. PICK b \in BOOLEAN : b <=> (c.halted \/ (works /\ lease.why = {"start"}))
      OBVIOUS
    <3>5. core' = [c EXCEPT !.halted = b] /\ (c.halted => b)
      BY <3>1, <3>3, <3>4
    <3> QED BY <3>3, <3>5
  <2>6. answer' \in AnswerType /\ answer'.tool = "none"
    BY DEF AnswerType, Tools, Debug!Recovers, Debug!CleanupReasons, Debug!NoLease, Debug!NoAnswer
  <2>7. UNCHANGED <<kind, call, reached, session, lease, doubt>>
    BY <1>2 DEF DebugInv, Debug!Recovers, Debug!CleanupReasons
  <2>8. Emptied
    BY StreamEmptied DEF DebugInv, Debug!Recovers, Debug!stream
  <2>9. SessionTyped'
    BY <2>2, <2>3, <2>4, <2>5, <2>6, <2>7, <2>8, EmptySeq, NoLeaseTyped DEF DebugInv, SessionTyped, Emptied
  <2>10. StepsOf'
    BY <2>6, <2>7, <2>8 DEF DebugInv, SessionTyped, StepsOf
  <2>11. Places'
    BY <2>1, <2>2, <2>6, <2>7, <2>8 DEF DebugInv, Places, LeaseReasoned
  <2>12. ProcessesNamed'
    BY <2>2, <2>3, <2>4, <2>7, <2>8 DEF DebugInv, ProcessesNamed
  <2>13. Untouched'
    BY <2>1, <2>2, <2>5, <2>6, <2>7, <2>8, IdleTyped DEF DebugInv, StepsOf, Untouched
  <2>14. OneAwaited'
    BY <2>2, <2>8 DEF DebugInv, OneAwaited, Emptied
  <2>15. NoLateContinue'
    BY <2>8 DEF DebugInv, NoLateContinue, StartHalts, Trusted, Emptied
  <2>16. ConnectAlone'
    BY <2>7, <2>8 DEF ConnectAlone, Places, StartHalts, Emptied
  <2>17. StopsFresh'
    BY <2>2 DEF DebugInv, SessionTyped, StopsFresh
  <2>18. HaltKnown'
    BY <2>1, <2>2, <2>6, <2>7, <2>8 DEF DebugInv, SessionTyped, HaltKnown
  <2>19. StartHalts'
    BY <2>2, <2>3 DEF DebugInv, StartHalts
  <2>20. StopProves'
    BY <2>1, <2>2, <2>7, <2>8, IdleTyped DEF DebugInv, StepsOf, StopProves
  <2>21. BreakpointsKnown'
    BY <2>1, <2>2, <2>3, <2>4, <2>7, <2>8, IdleTyped, NoSessionTyped DEF DebugInv, SessionTyped, StepsOf,
       BreakpointsKnown, Debug!Results, Disarmed, Emptied, Debug!StopWaits
  <2>22. LeftProved'
    BY <2>4, <2>5, <2>6, <2>7, <2>8 DEF DebugInv, SessionTyped, StepsOf, LeftProved, Places, ProcessesNamed,
       OneAwaited, Disarmed, Emptied, Debug!StopWaits
  <2>23. EndProved'
    BY <2>5, <2>6 DEF DebugInv, EndProved
  <2> QED BY <2>9, <2>10, <2>11, <2>12, <2>13, <2>14, <2>15, <2>16, <2>17, <2>18, <2>19, <2>20, <2>21, <2>22,
        <2>23 DEF DebugInv
<1> QED BY <1>1, <1>2

LEMMA StutterKeeps ==
    ASSUME DebugInv, UNCHANGED Debug!vars
    PROVE  DebugInv'
<1>1. server' = server
  BY DEF Debug!vars, Debug!target
<1>2. UNCHANGED <<kind, session, gdb, core, todo, pipe, last, call, lease, answer, doubt, reached>>
  BY DEF Debug!vars, Debug!target, Debug!stream, Debug!said
<1>3. SamePipe /\ SameTodo
  BY <1>1, <1>2, PipeStays, TodoStays
<1>4. SessionTyped'
  BY <1>1, <1>2, <1>3 DEF DebugInv, SessionTyped
<1>5. StepsOf'
  BY <1>1, <1>2, <1>3 DEF DebugInv, SessionTyped, StepsOf
<1>6. Places'
  BY <1>1, <1>2, <1>3 DEF DebugInv, Places, LeaseReasoned
<1>7. ProcessesNamed'
  BY <1>1, <1>2, <1>3 DEF DebugInv, SessionTyped, ProcessesNamed
<1>8. Untouched'
  BY <1>2, <1>3 DEF DebugInv, Untouched, SamePipe, SameTodo
<1>9. OneAwaited'
  BY <1>1, <1>2, <1>3 DEF DebugInv, OneAwaited, SamePipe, SameTodo, Debug!Commands
<1>10. NoLateContinue'
  BY <1>1, <1>2, <1>3 DEF DebugInv, NoLateContinue, Trusted, SamePipe, SameTodo
<1>11. ConnectAlone'
  BY <1>2, <1>3 DEF DebugInv, ConnectAlone, SamePipe, SameTodo
<1>12. StopsFresh'
  BY <1>2, <1>3 DEF DebugInv, StopsFresh, Trusted, Resuming, Lost, SamePipe, SameTodo
<1>13. HaltKnown'
  BY <1>2, <1>3 DEF DebugInv, HaltKnown, Trusted, Quiet, SamePipe, SameTodo
<1>14. StartHalts'
  BY <1>2, <1>3 DEF DebugInv, StartHalts, SamePipe, SameTodo
<1>15. StopProves'
  BY <1>1, <1>2, <1>3 DEF DebugInv, StopProves, SamePipe, SameTodo
<1>16. BreakpointsKnown'
  BY <1>1, <1>2, <1>3 DEF DebugInv, BreakpointsKnown, Disarmed, SamePipe, SameTodo
<1>17. LeftProved'
  BY <1>1, <1>2, <1>3 DEF DebugInv, LeftProved, Disarmed, SamePipe, SameTodo
<1>18. EndProved'
  BY <1>1, <1>2, <1>3 DEF DebugInv, SessionTyped, EndProved
<1> QED BY <1>4, <1>5, <1>6, <1>7, <1>8, <1>9, <1>10, <1>11, <1>12, <1>13, <1>14, <1>15, <1>16, <1>17, <1>18
      DEF DebugInv

-----------------------------------------------------------------------------
(* The invariant holds.                                                     *)

LEMMA DebugBegins == Debug!Init => DebugInv
<1> SUFFICES ASSUME Debug!Init PROVE DebugInv
  OBVIOUS
<1>1. /\ session = Debug!NoSession /\ server = "none" /\ ~gdb.up /\ ~gdb.linked /\ call = Debug!Idle /\ lease = Debug!NoLease
      /\ todo = <<>> /\ pipe = <<>> /\ last = FALSE /\ answer = Debug!NoAnswer /\ doubt = FALSE /\ reached = {}
      /\ core \in [halted : BOOLEAN, armed : BOOLEAN, guarded : BOOLEAN] /\ gdb \in [up : BOOLEAN, linked : BOOLEAN]
  BY DEF Debug!Init, Debug!NoLease
<1>2. Debug!NoAnswer \in AnswerType /\ Debug!NoAnswer.tool = "none" /\ ~Debug!NoAnswer.safe
  BY DEF Debug!NoAnswer, AnswerType, Tools
<1>3. ~Writing("continue") /\ ~Writing("connect") /\ ~Answering /\ ~Taken /\ ~Awaiting
  BY <1>1, EmptySeq DEF Writing, Answering, Taken, Awaiting
<1>4. SessionTyped
  BY <1>1, <1>2, EmptySeq, IdleTyped, NoSessionTyped, NoLeaseTyped DEF SessionTyped
<1>5. StepsOf /\ Places
  BY <1>1, IdleTyped, NoSessionTyped, NoLeaseTyped DEF StepsOf, Places, LeaseReasoned, Debug!Commands, Resting
<1>6. ProcessesNamed /\ Untouched
  BY <1>1, <1>2, IdleTyped, NoSessionTyped DEF ProcessesNamed, Untouched
<1>7. OneAwaited
  <2>1. DOMAIN todo = {} /\ DOMAIN pipe = {}
    BY <1>1
  <2>2. AwaitedLast(call.step) /\ OneAnswer /\ StopsLive
    BY <2>1 DEF AwaitedLast, OneAnswer, StopsLive
  <2> QED BY <1>1, <1>3, <2>2, IdleTyped DEF OneAwaited
<1>8. NoLateContinue /\ ConnectAlone /\ StopsFresh /\ HaltKnown /\ StartHalts
  BY <1>1, <1>3, IdleTyped, NoSessionTyped DEF NoLateContinue, ConnectAlone, StopsFresh, HaltKnown, StartHalts
<1>9. StopProves /\ BreakpointsKnown /\ LeftProved /\ EndProved
  BY <1>1, <1>2, <1>3, IdleTyped, NoSessionTyped DEF StopProves, BreakpointsKnown, LeftProved, EndProved
<1> QED BY <1>4, <1>5, <1>6, <1>7, <1>8, <1>9 DEF DebugInv

LEMMA StartingKeeps ==
    ASSUME DebugInv, Debug!Starting
    PROVE  DebugInv'
<1>1. CASE Debug!NotReady
  BY <1>1, StartFailsKeeps DEF Debug!NotReady, Debug!At
<1>2. CASE Debug!NotSetUp
  BY <1>2, StartFailsKeeps DEF Debug!NotSetUp
<1> QED BY <1>1, <1>2, StartSessionKeeps, SpawnKeeps, ServerReadyKeeps, SetUpKeeps, ConnectedNowKeeps, ResetDoneKeeps,
           StartedKeeps DEF Debug!Starting

LEMMA UsingKeeps ==
    ASSUME DebugInv, Debug!Using
    PROVE  DebugInv'
  BY DebugStatusKeeps, SetBreakpointKeeps, BreakpointSetKeeps, ClearBreakpointsKeeps, BreakpointsClearedKeeps, ContinueKeeps,
     ResumedKeeps, StoppedKeeps, HaltKeeps, InterruptedKeeps, HaltDoneKeeps DEF Debug!Using

LEMMA StoppingKeeps ==
    ASSUME DebugInv, Debug!Stopping
    PROVE  DebugInv'
  BY StopSessionKeeps, ConfirmedKeeps, RemoveBreakpointsKeeps, RemovedKeeps, PinKeeps, PinnedKeeps, EndKeeps DEF Debug!Stopping

LEMMA EnvironmentKeeps ==
    ASSUME DebugInv, Debug!Environment
    PROVE  DebugInv'
  BY CoreStopsKeeps, ServerHaltsKeeps, ReadsKeeps, GdbDiesKeeps, ServerDiesKeeps, LearnsExitKeeps, GivesUpKeeps,
     TakesKeeps DEF Debug!Environment

LEMMA DebugNext == DebugInv /\ [Debug!Next]_(Debug!vars) => DebugInv'
<1> SUFFICES ASSUME DebugInv, [Debug!Next]_(Debug!vars) PROVE DebugInv'
  OBVIOUS
<1>1. CASE UNCHANGED Debug!vars
  BY <1>1, StutterKeeps
<1>2. CASE Debug!Recovering
  BY <1>2, RecoversKeeps DEF Debug!Recovering
<1> QED BY <1>1, <1>2, EnvironmentKeeps, StartingKeeps, UsingKeeps, StoppingKeeps DEF Debug!Next

LEMMA DebugAlways == Debug!Spec => []DebugInv
<1>1. Debug!Init => DebugInv
  BY DebugBegins
<1>2. DebugInv /\ [Debug!Next]_(Debug!vars) => DebugInv'
  BY DebugNext
<1> QED BY <1>1, <1>2, PTL DEF Debug!Spec

\* What the code says of the halt holds: a stop that answers safe has the core
\* halted, with nobody on it and no breakpoint left where its server went first,
\* and a session that says halted has a halted core, unless an answer that was
\* never settled had left the target open.
THEOREM HaltsAreHonest == Debug!Spec => []HaltHonest
<1>1. DebugInv => HaltHonest
  <2> SUFFICES ASSUME DebugInv PROVE HaltHonest
    OBVIOUS
  <2>1. StopHonest
    BY IdleTyped DEF DebugInv, EndProved, StopHonest, StopClaimsBacked, Idle, Debug!Idle
  <2>2. HaltedMeansHalted
    BY IdleTyped DEF DebugInv, HaltKnown, Quiet, HaltedMeansHalted, Connected, Debug!Connected, Idle,
       Debug!Idle
  <2> QED BY <2>1, <2>2 DEF HaltHonest
<1> QED BY <1>1, DebugAlways, PTL

\* A start that names no effect has sent GDB nothing that reached the target, in
\* any of its attempts, and no process of a session is up between two calls that
\* no session and no lease name.
THEOREM FailuresAreTold == Debug!Spec => []FailuresTold
<1>1. DebugInv => FailuresTold
  <2> SUFFICES ASSUME DebugInv PROVE FailuresTold
    OBVIOUS
  <2>1. FailedStartHonest
    BY IdleTyped DEF DebugInv, Untouched, FailedStartHonest, Idle, Debug!Idle
  <2>2. ProcessesHeld
    BY DEF DebugInv, ProcessesNamed, ProcessesHeld, Idle, Debug!Idle
  <2> QED BY <2>1, <2>2 DEF FailuresTold
<1> QED BY <1>1, DebugAlways, PTL
=============================================================================
