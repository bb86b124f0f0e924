------------------------- MODULE CoordinationProofs -------------------------
(* What TLAPS proves of Coordination, for any projects, processes, state      *)
(* roots, resources and bounds: every hold of a bench is owed, no device has  *)
(* two processes' leases on it, and where no release fails half-way no        *)
(* resource has two leases at all.  The disk does not matter to any of it.    *)
EXTENDS Coordination, FiniteSetTheorems, WellFoundedInduction, TLAPS

\* No release of the run fails half-way and leaves a lease without its locks.
NoFaults == "fault" \notin Uses

-----------------------------------------------------------------------------
(* Leases of one owner.                                                     *)

LeaseLike(l) == l = [id |-> l.id, res |-> l.res, locks |-> l.locks, st |-> l.st, auditOk |-> l.auditOk,
                     reasons |-> l.reasons, qid |-> l.qid, scoped |-> l.scoped, ended |-> l.ended]

OwnerLike(m) == m = [open |-> m.open, blocked |-> m.blocked, audit |-> m.audit, adopted |-> m.adopted,
                     qid |-> m.qid, incRes |-> m.incRes, incLeases |-> m.incLeases, leases |-> m.leases,
                     run |-> m.run, hold |-> m.hold, holdLocks |-> m.holdLocks]

\* A finite register of leases, told apart by their ids.
Registered(S) ==
    /\ IsFiniteSet(S)
    /\ \A l \in S : LeaseLike(l) /\ l.res \subseteq Resources
    /\ \A l, k \in S : l.id = k.id => l = k

On(S, d) == {l \in S : d \in l.res}

\* k is l at another moment: a lease keeps its id and its resources, and its
\* locks unless a release failed half-way.
Later(l, k) == k.id = l.id /\ k.res = l.res /\ (NoFaults => k.locks = l.locks)

\* The leases of T are those of S at another moment.
Twins(S, T) ==
    /\ \A k \in T : \E l \in S : Later(l, k)
    /\ \A l \in S : \E k \in T : Later(l, k)

\* The holds an owner has on a device, by rights.
Owed(m, d) == Cardinality(On(m.leases, d)) + (IF d \in m.run THEN 1 ELSE 0) + (IF d \in m.hold THEN 1 ELSE 0)

\* What an owner leases, runs and holds does not change.
SameHold(m, n) ==
    /\ OwnerLike(n)
    /\ n.leases = m.leases /\ n.run = m.run /\ n.hold = m.hold /\ n.holdLocks = m.holdLocks

-----------------------------------------------------------------------------
(* The inductive invariant.                                                 *)

Typed ==
    /\ deploy = [proj |-> deploy.proj, root |-> deploy.root]
    /\ \A p \in Procs : Proj(p) \in Projects
    /\ mem = [p \in Procs |-> mem[p]]
    /\ locks = [p \in Procs |-> locks[p]]
    /\ bench \in [Procs -> [Physical -> Nat]]
    /\ \A p \in Procs : OwnerLike(mem[p]) /\ Registered(mem[p].leases)

Balanced == \A p \in Procs, d \in Physical : bench[p][d] = Owed(mem[p], d)

\* The bench counts a device for one process at a time.
OneHolder ==
    \A p, q \in Procs : p # q => \A d \in Physical : bench[p][d] = 0 \/ bench[q][d] = 0

\* What owner m may say of its locks L: every lease and hold has its own.
LocksCover(m, L) ==
    /\ \A l \in m.leases : l.locks = l.res /\ l.res \subseteq L /\ l.res \cap m.holdLocks = {}
    /\ \A l, k \in m.leases : l # k => l.res \cap k.res = {}
    /\ m.holdLocks \cap Resources \subseteq L

LocksApart ==
    NoFaults =>
        /\ \A p \in Procs : LocksCover(mem[p], locks[p])
        /\ \A p, q \in Procs : p # q /\ Root(p) = Root(q) => locks[p] \cap locks[q] \cap Resources = {}

IInv == Typed /\ Balanced /\ OneHolder /\ LocksApart

-----------------------------------------------------------------------------
(* Counting leases.                                                         *)

LEMMA Least ==
    ASSUME NEW S \in SUBSET Nat, S # {}
    PROVE  \E n \in S : \A k \in S : n <= k
<1>1. PICK n \in S : \A k \in S : ~(<<k, n>> \in OpToRel(<, Nat))
  BY WFMin, NatLessThanWellFounded
<1>2. \A k \in S : ~(k < n)
  BY <1>1 DEF OpToRel
<1> QED BY <1>2

\* A new lease has an id that no lease of an owner has.
LEMMA FreshLidIsNew ==
    ASSUME IdsLeft
    PROVE  FreshLid \in Ids \ UsedLids
<1>1. Ids \ UsedLids \in SUBSET Nat /\ Ids \ UsedLids # {}
  BY DEF IdsLeft, Ids
<1>2. \E n \in Ids \ UsedLids : \A k \in Ids \ UsedLids : n <= k
  BY <1>1, Least
<1> QED BY <1>2 DEF FreshLid

\* As many leases are on a resource as were.
LEMMA TwinsCount ==
    ASSUME NEW S, NEW T, Registered(S), Registered(T), Twins(S, T), NEW d
    PROVE  Cardinality(On(T, d)) = Cardinality(On(S, d))
<1> DEFINE f == [l \in On(S, d) |-> CHOOSE k \in T : Later(l, k)]
<1>1. ASSUME NEW l \in On(S, d)
      PROVE  f[l] \in On(T, d) /\ f[l].id = l.id
  <2>1. l \in S /\ \E k \in T : Later(l, k)
    BY <1>1 DEF On, Twins
  <2>2. f[l] \in T /\ Later(l, f[l])
    BY <1>1, <2>1
  <2> QED BY <1>1, <2>2 DEF On, Later
<1>2. f \in [On(S, d) -> On(T, d)]
  BY <1>1
<1> HIDE DEF f
<1>3. ASSUME NEW l \in On(S, d), NEW k \in On(S, d), f[l] = f[k]
      PROVE  l = k
  <2>1. l.id = k.id
    BY <1>1, <1>3
  <2> QED BY <2>1 DEF On, Registered
<1>4. ASSUME NEW k \in On(T, d)
      PROVE  \E l \in On(S, d) : f[l] = k
  <2>1. PICK l \in S : Later(l, k)
    BY <1>4 DEF On, Twins
  <2>2. l \in On(S, d)
    BY <1>4, <2>1 DEF On, Later
  <2>3. f[l] \in T /\ k \in T /\ f[l].id = k.id
    BY <1>1, <1>4, <2>1, <2>2 DEF On, Later
  <2> QED BY <2>2, <2>3 DEF Registered
<1>5. f \in Bijection(On(S, d), On(T, d))
  <2>1. f \in Injection(On(S, d), On(T, d))
    BY <1>2, <1>3 DEF Injection, IsInjective
  <2>2. f \in Surjection(On(S, d), On(T, d))
    BY <1>2, <1>4 DEF Surjection
  <2> QED BY <2>1, <2>2 DEF Bijection
<1>6. IsFiniteSet(On(S, d))
  <2>1. On(S, d) \in SUBSET S /\ IsFiniteSet(S)
    BY DEF On, Registered
  <2> QED BY <2>1, FS_Subset
<1>7. ExistsBijection(On(S, d), On(T, d))
  BY <1>5 DEF ExistsBijection
<1> QED BY <1>6, <1>7, FS_Bijection

\* One lease more on its resources, and one less.
LEMMA AddCount ==
    ASSUME NEW S, Registered(S), NEW l, l \notin S, NEW d
    PROVE  /\ IsFiniteSet(S \cup {l})
           /\ Cardinality(On(S \cup {l}, d)) = Cardinality(On(S, d)) + (IF d \in l.res THEN 1 ELSE 0)
           /\ Cardinality(On(S, d)) \in Nat
<1>1. On(S, d) \in SUBSET S /\ IsFiniteSet(S)
  BY DEF On, Registered
<1>2. IsFiniteSet(On(S, d)) /\ l \notin On(S, d)
  BY <1>1, FS_Subset DEF On
<1>3. Cardinality(On(S, d)) \in Nat
  BY <1>2, FS_CardinalityType
<1>4. CASE d \in l.res
  <2>1. On(S \cup {l}, d) = On(S, d) \cup {l}
    BY <1>4 DEF On
  <2> QED BY <1>1, <1>2, <1>3, <1>4, <2>1, FS_AddElement
<1>5. CASE d \notin l.res
  <2>1. On(S \cup {l}, d) = On(S, d)
    BY <1>5 DEF On
  <2> QED BY <1>1, <1>3, <1>5, <2>1, FS_AddElement
<1> QED BY <1>4, <1>5

LEMMA LessCount ==
    ASSUME NEW S, Registered(S), NEW l \in S, NEW d
    PROVE  /\ Registered(S \ {l})
           /\ Cardinality(On(S, d)) = Cardinality(On(S \ {l}, d)) + (IF d \in l.res THEN 1 ELSE 0)
           /\ Cardinality(On(S \ {l}, d)) \in Nat
<1>1. IsFiniteSet(S \ {l})
  BY FS_RemoveElement DEF Registered
<1>2. Registered(S \ {l})
  BY <1>1 DEF Registered
<1>3. PICK R : R = S \ {l}
  OBVIOUS
<1>4. S = R \cup {l} /\ l \notin R /\ Registered(R)
  BY <1>2, <1>3
<1>5. Cardinality(On(R \cup {l}, d)) = Cardinality(On(R, d)) + (IF d \in l.res THEN 1 ELSE 0) /\ Cardinality(On(R, d)) \in Nat
  BY <1>4, AddCount
<1> QED BY <1>2, <1>3, <1>4, <1>5

\* Some leases of a register change what is not their id and not their resources.
LEMMA Reshape ==
    ASSUME NEW S, Registered(S), NEW X \in SUBSET S, NEW g,
           \A l \in X : LeaseLike(g[l]) /\ Later(l, g[l]),
           NEW T, T = (S \ X) \cup {g[l] : l \in X}
    PROVE  Registered(T) /\ Twins(S, T)
<1>1. IsFiniteSet(T)
  <2>1. IsFiniteSet(X) /\ IsFiniteSet(S \ X)
    <3>1. X \in SUBSET S /\ S \ X \in SUBSET S /\ IsFiniteSet(S)
      BY DEF Registered
    <3> QED BY <3>1, FS_Subset
  <2>2. PICK h : h = [l \in X |-> g[l]]
    OBVIOUS
  <2>3. h \in Surjection(X, {g[l] : l \in X})
    BY <2>2 DEF Surjection
  <2>4. IsFiniteSet({g[l] : l \in X})
    BY <2>1, <2>3, FS_Surjection
  <2> QED BY <2>1, <2>4, FS_Union
<1>2. \A k \in T : \E l \in S : Later(l, k) /\ (k = IF l \in X THEN g[l] ELSE l)
  BY DEF Later
<1>3. \A l \in S : \E k \in T : Later(l, k)
  BY DEF Later
<1>4. Twins(S, T)
  BY <1>2, <1>3 DEF Twins
<1>5. \A k \in T : LeaseLike(k) /\ k.res \subseteq Resources
  BY DEF Registered, Later
<1>6. ASSUME NEW j \in T, NEW k \in T, j.id = k.id
      PROVE  j = k
  <2>1. PICK l \in S : Later(l, j) /\ (j = IF l \in X THEN g[l] ELSE l)
    BY <1>2
  <2>2. PICK m \in S : Later(m, k) /\ (k = IF m \in X THEN g[m] ELSE m)
    BY <1>2
  <2>3. l.id = m.id
    BY <1>6, <2>1, <2>2 DEF Later
  <2>4. l = m
    BY <2>3 DEF Registered
  <2> QED BY <2>1, <2>2, <2>4
<1>7. Registered(T)
  BY <1>1, <1>5, <1>6 DEF Registered
<1> QED BY <1>4, <1>7

-----------------------------------------------------------------------------
(* One process moves: its owner is m, its locks are L, its row of the bench  *)
(* is row, and the others stay as they are.                                  *)
Moved(p, m, L, row) ==
    /\ mem' = [mem EXCEPT ![p] = m] /\ locks' = [locks EXCEPT ![p] = L]
    /\ bench' = [bench EXCEPT ![p] = row] /\ deploy' = deploy

\* The locks p has come to are no other's.
TakenFree(p, L) ==
    \A q \in Procs \ {p} : Root(p) = Root(q) => L \cap locks[q] \cap Resources = {}

LEMMA MoveKeeps ==
    ASSUME IInv, NEW p \in Procs, NEW m, NEW L, NEW row \in [Physical -> Nat], Moved(p, m, L, row),
           OwnerLike(m), Registered(m.leases),
           \A d \in Physical : row[d] = Owed(m, d),
           \A q \in Procs \ {p}, d \in Physical : row[d] = 0 \/ bench[q][d] = 0,
           NoFaults => LocksCover(m, L) /\ TakenFree(p, L)
    PROVE  IInv'
<1>1. /\ \A q \in Procs : mem'[q] = IF q = p THEN m ELSE mem[q]
      /\ \A q \in Procs : locks'[q] = IF q = p THEN L ELSE locks[q]
      /\ \A q \in Procs : bench'[q] = IF q = p THEN row ELSE bench[q]
  BY DEF Moved, IInv, Typed
<1>2. \A q \in Procs : Proj(q)' = Proj(q) /\ Root(q)' = Root(q)
  BY DEF Moved, Proj, Root, RootOf
<1>3. Typed'
  BY <1>1, <1>2 DEF Moved, IInv, Typed
<1>4. Balanced'
  BY <1>1 DEF IInv, Balanced, Owed, On
<1>5. OneHolder'
  BY <1>1 DEF IInv, OneHolder
<1>6. LocksApart'
  <2> SUFFICES ASSUME NoFaults PROVE LocksApart'
    BY DEF LocksApart, NoFaults
  <2>1. \A q \in Procs : LocksCover(mem'[q], locks'[q])
    BY <1>1 DEF IInv, LocksApart
  <2>2. ASSUME NEW q \in Procs, NEW r \in Procs, q # r, Root(q) = Root(r)
        PROVE  locks'[q] \cap locks'[r] \cap Resources = {}
    BY <1>1, <2>2 DEF IInv, LocksApart, TakenFree
  <2> QED BY <1>2, <2>1, <2>2 DEF LocksApart, LocksCover
<1> QED BY <1>3, <1>4, <1>5, <1>6 DEF IInv

-----------------------------------------------------------------------------
(* The ways an owner moves.                                                 *)

\* What an owner leases is not touched by a move that keeps leases, run and hold
\* and no resource's lock; nor by one that gives its leases another state.
LEMMA TwinsMoveKeeps ==
    ASSUME IInv, NEW p \in Procs, NEW m, NEW L, Moved(p, m, L, bench[p]),
           OwnerLike(m), Registered(m.leases), Twins(mem[p].leases, m.leases),
           m.run = mem[p].run, m.hold = mem[p].hold, m.holdLocks = mem[p].holdLocks,
           NoFaults => L \cap Resources = locks[p] \cap Resources
    PROVE  IInv'
<1>1. bench[p] \in [Physical -> Nat] /\ Registered(mem[p].leases)
  BY DEF IInv, Typed
<1>2. ASSUME NEW d \in Physical
      PROVE  bench[p][d] = Owed(m, d)
  <2>1. Cardinality(On(m.leases, d)) = Cardinality(On(mem[p].leases, d))
    BY <1>1, TwinsCount
  <2> QED BY <2>1 DEF IInv, Balanced, Owed
<1>3. \A q \in Procs \ {p}, d \in Physical : bench[p][d] = 0 \/ bench[q][d] = 0
  BY DEF IInv, OneHolder
<1>4. ASSUME NoFaults
      PROVE  LocksCover(m, L) /\ TakenFree(p, L)
  <2>1. /\ LocksCover(mem[p], locks[p])
        /\ \A q \in Procs : p # q /\ Root(p) = Root(q) => locks[p] \cap locks[q] \cap Resources = {}
    BY <1>4 DEF IInv, LocksApart
  <2>2. \A k \in m.leases : k.locks = k.res /\ k.res \subseteq L /\ k.res \cap m.holdLocks = {}
    <3> SUFFICES ASSUME NEW k \in m.leases PROVE k.locks = k.res /\ k.res \subseteq L /\ k.res \cap m.holdLocks = {}
      OBVIOUS
    <3>1. PICK l \in mem[p].leases : k.res = l.res /\ k.locks = l.locks
      BY <1>4 DEF Twins, Later
    <3>2. l.res \subseteq Resources
      BY <1>1 DEF Registered
    <3> QED BY <1>4, <2>1, <3>1, <3>2 DEF LocksCover
  <2>3. ASSUME NEW j \in m.leases, NEW k \in m.leases, j # k
        PROVE  j.res \cap k.res = {}
    <3>1. PICK l \in mem[p].leases : j.id = l.id /\ j.res = l.res
      BY DEF Twins, Later
    <3>2. PICK o \in mem[p].leases : k.id = o.id /\ k.res = o.res
      BY DEF Twins, Later
    <3>3. l # o
      BY <2>3, <3>1, <3>2 DEF Registered
    <3> QED BY <2>1, <3>1, <3>2, <3>3 DEF LocksCover
  <2>4. m.holdLocks \cap Resources \subseteq L
    BY <1>4, <2>1 DEF LocksCover
  <2> QED BY <1>4, <2>1, <2>2, <2>3, <2>4 DEF LocksCover, TakenFree
<1> QED BY <1>1, <1>2, <1>3, <1>4, MoveKeeps

LEMMA TwinsOfItself ==
    ASSUME NEW S
    PROVE  Twins(S, S)
BY DEF Twins, Later

LEMMA SameHoldKeeps ==
    ASSUME IInv, NEW p \in Procs, NEW m, NEW L, Moved(p, m, L, bench[p]), SameHold(mem[p], m),
           L \cap Resources = locks[p] \cap Resources
    PROVE  IInv'
<1>1. OwnerLike(m) /\ Registered(m.leases) /\ Twins(mem[p].leases, m.leases)
  BY TwinsOfItself DEF SameHold, IInv, Typed
<1> QED BY <1>1, TwinsMoveKeeps DEF SameHold

LEMMA NothingOwed ==
    ASSUME NEW m, m.leases = {}, m.run = {}, m.hold = {}, NEW d
    PROVE  Owed(m, d) = 0
BY FS_EmptySet DEF Owed, On

\* A process that dies leaves nothing held.
LEMMA DiesKeeps ==
    ASSUME IInv, NEW p \in Procs, Dies(p), deploy' = deploy
    PROVE  IInv'
<1>1. PICK m : m = Fresh
  OBVIOUS
<1>2. Moved(p, m, {}, NoHolds)
  BY <1>1 DEF Dies, Moved
<1>3. OwnerLike(m)
  BY <1>1 DEF OwnerLike, Fresh
<1>4. m.leases = {} /\ m.run = {} /\ m.hold = {} /\ m.holdLocks = {}
  BY <1>1 DEF Fresh
<1>5. Registered(m.leases)
  BY <1>4, FS_EmptySet DEF Registered
<1>6. NoHolds \in [Physical -> Nat] /\ \A d \in Physical : NoHolds[d] = 0
  BY DEF NoHolds
<1>7. \A d \in Physical : NoHolds[d] = Owed(m, d)
  BY <1>4, <1>6, NothingOwed
<1>8. LocksCover(m, {}) /\ TakenFree(p, {})
  BY <1>4 DEF LocksCover, TakenFree
<1> QED BY <1>2, <1>3, <1>5, <1>6, <1>7, <1>8, MoveKeeps

\* One lease less: its holds go back, and its locks with those of X.
LEMMA LessMoveKeeps ==
    ASSUME IInv, NEW p \in Procs, NEW l \in mem[p].leases, NEW m, NEW X, X \cap Resources = {},
           mem' = [mem EXCEPT ![p] = m], locks' = [locks EXCEPT ![p] = @ \ (l.locks \cup X)],
           bench' = BenchLess(p, l.res), deploy' = deploy,
           OwnerLike(m), m.leases = mem[p].leases \ {l},
           m.run = mem[p].run, m.hold = mem[p].hold, m.holdLocks = mem[p].holdLocks
    PROVE  IInv'
<1>1. PICK row : row = [d \in Physical |-> IF d \in l.res /\ bench[p][d] > 0 THEN bench[p][d] - 1 ELSE bench[p][d]]
  OBVIOUS
<1>2. PICK L : L = locks[p] \ (l.locks \cup X)
  OBVIOUS
<1>3. bench[p] \in [Physical -> Nat] /\ Registered(mem[p].leases)
  BY DEF IInv, Typed
<1>4. Moved(p, m, L, row)
  BY <1>1, <1>2 DEF Moved, BenchLess, IInv, Typed
<1>5. row \in [Physical -> Nat]
  BY <1>1, <1>3
<1>6. Registered(m.leases)
  BY <1>3, LessCount
<1>7. ASSUME NEW d \in Physical
      PROVE  row[d] = Owed(m, d)
  <2>1. /\ Cardinality(On(mem[p].leases, d)) = Cardinality(On(m.leases, d)) + (IF d \in l.res THEN 1 ELSE 0)
        /\ Cardinality(On(m.leases, d)) \in Nat
    <3>1. PICK S : S = mem[p].leases
      OBVIOUS
    <3>2. l \in S /\ Registered(S) /\ m.leases = S \ {l}
      BY <1>3, <3>1
    <3>3. /\ Cardinality(On(S, d)) = Cardinality(On(S \ {l}, d)) + (IF d \in l.res THEN 1 ELSE 0)
          /\ Cardinality(On(S \ {l}, d)) \in Nat
      BY <3>2, LessCount
    <3> QED BY <3>1, <3>2, <3>3
  <2>2. bench[p][d] = Owed(mem[p], d) /\ bench[p][d] \in Nat
    BY <1>3 DEF IInv, Balanced
  <2>3. row[d] = IF d \in l.res /\ bench[p][d] > 0 THEN bench[p][d] - 1 ELSE bench[p][d]
    BY <1>1
  <2>4. CASE d \in l.res
    BY <2>1, <2>2, <2>3, <2>4 DEF Owed
  <2>5. CASE d \notin l.res
    BY <2>1, <2>2, <2>3, <2>5 DEF Owed
  <2> QED BY <2>4, <2>5
<1>8. \A q \in Procs \ {p}, d \in Physical : row[d] = 0 \/ bench[q][d] = 0
  BY <1>1, <1>3 DEF IInv, OneHolder
<1>9. ASSUME NoFaults
      PROVE  LocksCover(m, L) /\ TakenFree(p, L)
  <2>1. /\ LocksCover(mem[p], locks[p])
        /\ \A q \in Procs : p # q /\ Root(p) = Root(q) => locks[p] \cap locks[q] \cap Resources = {}
    BY <1>9 DEF IInv, LocksApart
  <2>2. \A k \in mem[p].leases : k.res \subseteq Resources
    BY <1>3 DEF Registered
  <2>3. \A k \in m.leases : k.locks = k.res /\ k.res \subseteq L /\ k.res \cap m.holdLocks = {}
    BY <1>2, <2>1, <2>2 DEF LocksCover
  <2>4. m.holdLocks \cap Resources \subseteq L
    BY <1>2, <2>1, <2>2 DEF LocksCover
  <2>5. \A j, k \in m.leases : j # k => j.res \cap k.res = {}
    BY <2>1 DEF LocksCover
  <2> QED BY <1>2, <2>1, <2>3, <2>4, <2>5 DEF LocksCover, TakenFree
<1> QED BY <1>4, <1>5, <1>6, <1>7, <1>8, <1>9, MoveKeeps

\* One lease more, on resources that nobody has and devices that no other counts.
LEMMA MoreMoveKeeps ==
    ASSUME IInv, NEW p \in Procs, NEW l, LeaseLike(l), l.res \subseteq Resources, l.locks = l.res,
           \A k \in mem[p].leases : k.id # l.id,
           BenchFree(p, l.res), \A d \in l.res : LockFree(p, d),
           NEW m, NEW X, X \cap Resources = {},
           mem' = [mem EXCEPT ![p] = m], locks' = [locks EXCEPT ![p] = @ \cup l.res \cup X],
           bench' = BenchPlus(p, l.res), deploy' = deploy,
           OwnerLike(m), m.leases = mem[p].leases \cup {l},
           m.run = mem[p].run, m.hold = mem[p].hold, m.holdLocks = mem[p].holdLocks
    PROVE  IInv'
<1>1. PICK row : row = [d \in Physical |-> IF d \in l.res THEN bench[p][d] + 1 ELSE bench[p][d]]
  OBVIOUS
<1>2. PICK L : L = locks[p] \cup l.res \cup X
  OBVIOUS
<1>3. bench[p] \in [Physical -> Nat] /\ Registered(mem[p].leases)
  BY DEF IInv, Typed
<1>4. Moved(p, m, L, row)
  BY <1>1, <1>2 DEF Moved, BenchPlus, IInv, Typed
<1>5. row \in [Physical -> Nat]
  BY <1>1, <1>3
<1>6. PICK S : S = mem[p].leases /\ Registered(S) /\ l \notin S /\ m.leases = S \cup {l}
  BY <1>3
<1>7. IsFiniteSet(m.leases)
  BY <1>6, AddCount
<1>8. Registered(m.leases)
  BY <1>6, <1>7 DEF Registered
<1>9. ASSUME NEW d \in Physical
      PROVE  row[d] = Owed(m, d)
  <2>1. /\ Cardinality(On(S \cup {l}, d)) = Cardinality(On(S, d)) + (IF d \in l.res THEN 1 ELSE 0)
        /\ Cardinality(On(S, d)) \in Nat
    BY <1>6, AddCount
  <2>2. bench[p][d] = Cardinality(On(S, d)) + (IF d \in m.run THEN 1 ELSE 0) + (IF d \in m.hold THEN 1 ELSE 0)
    BY <1>6 DEF IInv, Balanced, Owed
  <2>3. Owed(m, d) = Cardinality(On(S \cup {l}, d)) + (IF d \in m.run THEN 1 ELSE 0) + (IF d \in m.hold THEN 1 ELSE 0)
    BY <1>6 DEF Owed
  <2>4. row[d] = IF d \in l.res THEN bench[p][d] + 1 ELSE bench[p][d]
    BY <1>1
  <2> QED BY <2>1, <2>2, <2>3, <2>4
<1>10. \A q \in Procs \ {p}, d \in Physical : row[d] = 0 \/ bench[q][d] = 0
  BY <1>1, <1>3 DEF IInv, OneHolder, BenchFree
<1>11. ASSUME NoFaults
       PROVE  LocksCover(m, L) /\ TakenFree(p, L)
  <2>1. /\ LocksCover(mem[p], locks[p])
        /\ \A q \in Procs : p # q /\ Root(p) = Root(q) => locks[p] \cap locks[q] \cap Resources = {}
    BY <1>11 DEF IInv, LocksApart
  <2>2. \A d \in l.res : \A q \in Procs : Root(p) = Root(q) => d \notin locks[q]
    BY DEF LockFree
  <2>3. \A k \in mem[p].leases : k.res \cap l.res = {}
    BY <2>1, <2>2 DEF LocksCover
  <2>4. l.res \cap m.holdLocks = {}
    BY <2>1, <2>2 DEF LocksCover
  <2>5. \A k \in m.leases : k.locks = k.res /\ k.res \subseteq L /\ k.res \cap m.holdLocks = {}
    BY <1>2, <2>1, <2>4 DEF LocksCover
  <2>6. \A j, k \in m.leases : j # k => j.res \cap k.res = {}
    BY <2>1, <2>3 DEF LocksCover
  <2>7. m.holdLocks \cap Resources \subseteq L
    BY <1>2, <2>1 DEF LocksCover
  <2>8. TakenFree(p, L)
    BY <1>2, <2>1, <2>2 DEF TakenFree
  <2> QED BY <2>5, <2>6, <2>7, <2>8 DEF LocksCover
<1> QED BY <1>4, <1>5, <1>8, <1>9, <1>10, <1>11, MoveKeeps

-----------------------------------------------------------------------------
(* Declared runs and holds.                                                 *)

\* A move that changes no lease and no lock, but what is run or held.
LEMMA RowMoveKeeps ==
    ASSUME IInv, NEW p \in Procs, NEW m, NEW L, NEW row \in [Physical -> Nat], Moved(p, m, L, row),
           OwnerLike(m), m.leases = mem[p].leases,
           \A d \in Physical :
              row[d] + (IF d \in mem[p].run THEN 1 ELSE 0) + (IF d \in mem[p].hold THEN 1 ELSE 0)
                 = bench[p][d] + (IF d \in m.run THEN 1 ELSE 0) + (IF d \in m.hold THEN 1 ELSE 0),
           \A d \in Physical : row[d] <= bench[p][d] \/ \A q \in Procs \ {p} : bench[q][d] = 0,
           NoFaults => LocksCover(m, L) /\ TakenFree(p, L)
    PROVE  IInv'
<1>1. bench[p] \in [Physical -> Nat] /\ Registered(mem[p].leases)
  BY DEF IInv, Typed
<1>2. ASSUME NEW d \in Physical
      PROVE  row[d] = Owed(m, d)
  <2>1. On(mem[p].leases, d) \in SUBSET mem[p].leases /\ IsFiniteSet(mem[p].leases)
    BY <1>1 DEF On, Registered
  <2>2. Cardinality(On(mem[p].leases, d)) \in Nat
    BY <2>1, FS_Subset, FS_CardinalityType
  <2>3. bench[p][d] = Owed(mem[p], d) /\ bench[p][d] \in Nat /\ row[d] \in Nat
    BY <1>1 DEF IInv, Balanced
  <2> QED BY <2>2, <2>3 DEF Owed
<1>3. \A q \in Procs \ {p}, d \in Physical : row[d] = 0 \/ bench[q][d] = 0
  <2> SUFFICES ASSUME NEW q \in Procs \ {p}, NEW d \in Physical PROVE row[d] = 0 \/ bench[q][d] = 0
    OBVIOUS
  <2>1. bench[p][d] = 0 \/ bench[q][d] = 0
    BY DEF IInv, OneHolder
  <2>2. bench[p][d] \in Nat /\ row[d] \in Nat
    BY <1>1
  <2> QED BY <2>1, <2>2
<1> QED BY <1>1, <1>2, <1>3, MoveKeeps

-----------------------------------------------------------------------------
(* Adoption and refusals: nothing leased, run or held is touched.           *)

LEMMA UnblockedHolds ==
    ASSUME NEW m, OwnerLike(m)
    PROVE  /\ SameHold(m, Unblocked(m))
           /\ SameHold(m, [Unblocked(m) EXCEPT !.incLeases = {}])
<1>1. PICK n : n = Unblocked(m)
  OBVIOUS
<1>2. n = [open |-> m.open, blocked |-> FALSE, audit |-> FALSE, adopted |-> FALSE, qid |-> 0, incRes |-> {},
           incLeases |-> m.incLeases, leases |-> m.leases, run |-> m.run, hold |-> m.hold, holdLocks |-> m.holdLocks]
  BY <1>1 DEF OwnerLike, Unblocked
<1>3. SameHold(m, n)
  BY <1>2 DEF SameHold, OwnerLike
<1>4. PICK k : k = [n EXCEPT !.incLeases = {}]
  OBVIOUS
<1>5. SameHold(n, k)
  BY <1>2, <1>4 DEF SameHold, OwnerLike
<1> QED BY <1>1, <1>3, <1>4, <1>5 DEF SameHold

LEMMA SettledHolds ==
    ASSUME IInv, NEW p \in Procs
    PROVE  SameHold(mem[p], Settled(p))
<1>1. OwnerLike(mem[p])
  BY DEF IInv, Typed
<1>2. PICK m : m = mem[p]
  OBVIOUS
<1>3. SameHold(m, m)
  BY <1>1, <1>2 DEF SameHold
<1>4. SameHold(m, [Unblocked(m) EXCEPT !.incLeases = {}])
  BY <1>1, <1>2, UnblockedHolds
<1> QED BY <1>2, <1>3, <1>4 DEF Settled

LEMMA AdoptHolds ==
    ASSUME NEW m, OwnerLike(m), NEW r, NEW resources, NEW q
    PROVE  SameHold(m, Adopt(m, r, resources, q))
<1>1. PICK q2, R, a : Adopt(m, r, resources, q) =
        [m EXCEPT !.qid = q2, !.incRes = R, !.blocked = TRUE, !.adopted = TRUE, !.audit = a]
  BY DEF Adopt
<1> QED BY <1>1 DEF SameHold, OwnerLike

LEMMA AdoptAllHolds ==
    ASSUME NEW m, OwnerLike(m), NEW disk, NEW D, NEW q
    PROVE  SameHold(m, AdoptAll(m, disk, D, q))
<1>1. CASE D = {}
  BY <1>1 DEF SameHold, OwnerLike, AdoptAll
<1>2. CASE D # {}
  <2>1. PICK q2, R, a : AdoptAll(m, disk, D, q) =
          [m EXCEPT !.qid = q2, !.incRes = R, !.blocked = TRUE, !.adopted = TRUE, !.audit = a]
    BY <1>2 DEF AdoptAll
  <2> QED BY <2>1 DEF SameHold, OwnerLike
<1> QED BY <1>1, <1>2

LEMMA AdoptedHolds ==
    ASSUME NEW p, NEW m, OwnerLike(m), NEW disk, NEW D, NEW stop
    PROVE  SameHold(m, Adopted(p, disk, m, D, stop))
BY AdoptAllHolds DEF Adopted

LEMMA EnteredHolds ==
    ASSUME IInv, NEW p \in Procs, NEW D, NEW dead
    PROVE  SameHold(mem[p], Entered(p, D, dead).m)
<1>1. PICK m : m = Settled(p)
  OBVIOUS
<1>2. SameHold(mem[p], m) /\ OwnerLike(m)
  BY <1>1, SettledHolds DEF SameHold
<1>3. \E r, resources : Entered(p, D, dead).m \in {m, Adopt(m, r, resources, FreshQid)}
  BY <1>1 DEF Entered
<1>4. PICK r, resources : Entered(p, D, dead).m \in {m, Adopt(m, r, resources, FreshQid)}
  BY <1>3
<1>5. SameHold(m, Adopt(m, r, resources, FreshQid))
  BY <1>2, AdoptHolds
<1> QED BY <1>2, <1>4, <1>5 DEF SameHold

\* Taking the project lock takes no resource's.
LEMMA ProjectLockApart ==
    ASSUME IInv, NEW p \in Procs
    PROVE  {Proj(p)} \cap Resources = {}
BY CoordinationAssumption DEF IInv, Typed

\* How a handler ends that writes records: as it should, or torn.
Ends(p, m, L, b) ==
    /\ deploy' = deploy
    /\ \/ Dies(p)
       \/ mem' = [mem EXCEPT ![p] = m] /\ locks' = [locks EXCEPT ![p] = L] /\ bench' = b

LEMMA TwinsEndKeeps ==
    ASSUME IInv, NEW p \in Procs, NEW m, NEW L, Ends(p, m, L, bench),
           OwnerLike(m), Registered(m.leases), Twins(mem[p].leases, m.leases),
           m.run = mem[p].run, m.hold = mem[p].hold, m.holdLocks = mem[p].holdLocks,
           NoFaults => L \cap Resources = locks[p] \cap Resources
    PROVE  IInv'
<1>1. bench = [bench EXCEPT ![p] = bench[p]]
  BY DEF IInv, Typed
<1>2. (Dies(p) /\ deploy' = deploy) \/ Moved(p, m, L, bench[p])
  BY <1>1 DEF Ends, Moved
<1> QED BY <1>2, DiesKeeps, TwinsMoveKeeps

LEMMA SameHoldEndKeeps ==
    ASSUME IInv, NEW p \in Procs, NEW m, NEW L, Ends(p, m, L, bench), SameHold(mem[p], m),
           L \cap Resources = locks[p] \cap Resources
    PROVE  IInv'
<1>1. OwnerLike(m) /\ Registered(m.leases) /\ Twins(mem[p].leases, m.leases)
  BY TwinsOfItself DEF SameHold, IInv, Typed
<1> QED BY <1>1, TwinsEndKeeps DEF SameHold

LEMMA AcquireProjectHaltedKeeps ==
    ASSUME IInv, NEW p \in Procs, NEW D, AcquireProjectHalted(p, D)
    PROVE  IInv'
<1>1. PICK m : m = Entered(p, D, FALSE).m
  OBVIOUS
<1>2. PICK X : X \in {{}, {Proj(p)}} /\ Ends(p, m, locks[p] \cup X, bench)
  BY <1>1 DEF AcquireProjectHalted, Finish, Completed, TornIn, Ends
<1>3. PICK L : L = locks[p] \cup X
  OBVIOUS
<1>4. SameHold(mem[p], m)
  BY <1>1, EnteredHolds
<1>5. L \cap Resources = locks[p] \cap Resources
  BY <1>2, <1>3, ProjectLockApart
<1> QED BY <1>2, <1>3, <1>4, <1>5, SameHoldEndKeeps

\* What an acquire knows when it has walked its resources.
LEMMA WalkedHolds ==
    ASSUME IInv, NEW p \in Procs, NEW D, NEW dead, NEW disk, NEW stop
    PROVE  SameHold(mem[p], Adopted(p, disk, Entered(p, D, dead).m, D, stop))
<1>1. PICK m : m = Entered(p, D, dead).m
  OBVIOUS
<1>2. SameHold(mem[p], m) /\ OwnerLike(m)
  BY <1>1, EnteredHolds DEF SameHold
<1>3. SameHold(m, Adopted(p, disk, m, D, stop))
  BY <1>2, AdoptedHolds
<1> QED BY <1>1, <1>2, <1>3 DEF SameHold

LEMMA AcquireRefusedKeeps ==
    ASSUME IInv, NEW p \in Procs, NEW D, NEW dead, NEW stop, AcquireRefused(p, D, dead, stop)
    PROVE  IInv'
<1>1. PICK disk : disk = Written(Disk(p), Entered(p, D, dead).W, Len(Entered(p, D, dead).W))
  OBVIOUS
<1>2. PICK m : m = Adopted(p, disk, Entered(p, D, dead).m, D, stop)
  OBVIOUS
<1>3. Ends(p, m, locks[p], bench)
  BY <1>1, <1>2 DEF AcquireRefused, Finish, Completed, TornIn, Ends
<1>4. SameHold(mem[p], m)
  BY <1>2, WalkedHolds
<1> QED BY <1>3, <1>4, SameHoldEndKeeps

LEMMA AcquireResourceHaltedKeeps ==
    ASSUME IInv, NEW p \in Procs, NEW D, NEW dead, NEW stop, AcquireResourceHalted(p, D, dead, stop)
    PROVE  IInv'
<1>1. PICK disk : disk = Written(Disk(p), Entered(p, D, dead).W, Len(Entered(p, D, dead).W))
  OBVIOUS
<1>2. PICK m : m = Adopted(p, disk, Entered(p, D, dead).m, D, stop + 1)
  OBVIOUS
<1>3. Ends(p, m, locks[p], bench)
  BY <1>1, <1>2 DEF AcquireResourceHalted, Finish, Completed, TornIn, Ends
<1>4. SameHold(mem[p], m)
  BY <1>2, WalkedHolds
<1> QED BY <1>3, <1>4, SameHoldEndKeeps

LEMMA IdIsUsed ==
    ASSUME NEW p \in Procs, NEW k \in mem[p].leases
    PROVE  k.id \in UsedLids
<1>1. k.id \in {l.id : l \in mem[p].leases \cup mem[p].incLeases}
  OBVIOUS
<1>2. {l.id : l \in mem[p].leases \cup mem[p].incLeases}
        \in {{l.id : l \in mem[q].leases \cup mem[q].incLeases} : q \in Procs}
  OBVIOUS
<1>3. k.id \in UNION {{l.id : l \in mem[q].leases \cup mem[q].incLeases} : q \in Procs}
  BY <1>1, <1>2
<1> QED BY <1>3 DEF UsedLids

\* A grant takes resources whose locks are free and devices that are.
LEMMA AcquireGrantedKeeps ==
    ASSUME IInv, NEW p \in Procs, NEW D \in SUBSET Resources, NEW forRecovery, NEW dead, NEW scoped,
           AcquireGranted(p, D, forRecovery, dead, scoped)
    PROVE  IInv'
<1>1. PICK disk : disk = Written(Disk(p), Entered(p, D, dead).W, Len(Entered(p, D, dead).W))
  OBVIOUS
<1>2. PICK n : n = Adopted(p, disk, Entered(p, D, dead).m, D, 1 + Cardinality(Resources))
  OBVIOUS
<1>3. PICK l : l = [id |-> FreshLid, res |-> D, locks |-> D, st |-> "active", auditOk |-> TRUE,
                    reasons |-> {}, qid |-> 0, scoped |-> scoped, ended |-> FALSE]
  OBVIOUS
<1>4. PICK m : m = [n EXCEPT !.leases = @ \cup {l}]
  OBVIOUS
<1>5. PICK X : X = {Proj(p)}
  OBVIOUS
<1>6. Ends(p, m, locks[p] \cup D \cup X, BenchPlus(p, D))
  BY <1>1, <1>2, <1>3, <1>4, <1>5 DEF AcquireGranted, Finish, Completed, TornIn, Ends
<1>7. IdsLeft /\ BenchFree(p, D) /\ Passes(p, disk, Entered(p, D, dead).m, D, 1 + Cardinality(Resources))
  BY <1>1 DEF AcquireGranted
<1>8. \A d \in D : LockFree(p, d)
  <2>1. Cardinality(Resources) \in Nat /\ Resources = 1..Cardinality(Resources)
    BY CoordinationAssumption, FS_CardinalityType
  <2>2. \A d \in D : d < 1 + Cardinality(Resources)
    BY <2>1
  <2> QED BY <1>7, <2>2 DEF Passes
<1>9. LeaseLike(l) /\ l.res = D /\ l.locks = D
  BY <1>3 DEF LeaseLike
<1>10. \A k \in mem[p].leases : k.id # l.id
  <2> SUFFICES ASSUME NEW k \in mem[p].leases PROVE k.id # l.id
    OBVIOUS
  <2>1. l.id \notin UsedLids
    BY <1>3, <1>7, FreshLidIsNew
  <2> QED BY <2>1, IdIsUsed
<1>11. SameHold(mem[p], n)
  BY <1>2, WalkedHolds
<1>12. /\ OwnerLike(m) /\ m.leases = mem[p].leases \cup {l}
       /\ m.run = mem[p].run /\ m.hold = mem[p].hold /\ m.holdLocks = mem[p].holdLocks
  BY <1>4, <1>11 DEF SameHold, OwnerLike
<1>13. X \cap Resources = {}
  BY <1>5, ProjectLockApart
<1>14. CASE Dies(p) /\ deploy' = deploy
  BY <1>14, DiesKeeps
<1>15. CASE /\ mem' = [mem EXCEPT ![p] = m] /\ locks' = [locks EXCEPT ![p] = locks[p] \cup D \cup X]
            /\ bench' = BenchPlus(p, D) /\ deploy' = deploy
  <2>1. locks' = [locks EXCEPT ![p] = @ \cup l.res \cup X] /\ bench' = BenchPlus(p, l.res)
    BY <1>9, <1>15
  <2>2. BenchFree(p, l.res) /\ l.res \subseteq Resources /\ l.locks = l.res
    BY <1>7, <1>9
  <2>3. \A d \in l.res : LockFree(p, d)
    BY <1>8, <1>9
  <2> QED BY <1>9, <1>10, <1>12, <1>13, <1>15, <2>1, <2>2, <2>3, MoreMoveKeeps
<1> QED BY <1>6, <1>14, <1>15 DEF Ends

LEMMA AcquireKeeps ==
    ASSUME IInv, NEW p \in Procs, Acquire(p)
    PROVE  IInv'
BY AcquireProjectHaltedKeeps, AcquireRefusedKeeps, AcquireResourceHaltedKeeps, AcquireGrantedKeeps DEF Acquire

-----------------------------------------------------------------------------
(* Leases in another state.                                                 *)

\* A quarantine changes nothing of its leases but their state.
LEMMA JoinHolds ==
    ASSUME NEW m, OwnerLike(m), Registered(m.leases), NEW S \in SUBSET m.leases, NEW reason, NEW broken,
           NEW n, n = Join(m, S, reason, broken)
    PROVE  /\ OwnerLike(n) /\ Registered(n.leases) /\ Twins(m.leases, n.leases)
           /\ n.run = m.run /\ n.hold = m.hold /\ n.holdLocks = m.holdLocks
<1>1. PICK q, b : q = IncidentId(m) /\ b = (m.audit \/ broken)
  OBVIOUS
<1>2. PICK g : g = [l \in S |-> Quarantined(l, q, reason, broken)]
  OBVIOUS
<1>3. ASSUME NEW l \in S
      PROVE  LeaseLike(g[l]) /\ Later(l, g[l])
  <2>1. LeaseLike(l)
    BY DEF Registered
  <2>2. PICK a, R : g[l] = [l EXCEPT !.st = "cleanup_required", !.qid = q, !.auditOk = a, !.reasons = R]
    BY <1>2 DEF Quarantined
  <2> QED BY <2>1, <2>2 DEF LeaseLike, Later
<1>4. PICK T : T = (m.leases \ S) \cup {g[l] : l \in S}
  OBVIOUS
<1>5. Registered(T) /\ Twins(m.leases, T)
  BY <1>3, <1>4, Reshape
<1>6. {Quarantined(l, q, reason, broken) : l \in S} = {g[l] : l \in S}
  BY <1>2
<1>7. n = [m EXCEPT !.qid = q, !.incRes = @ \cup ResOf(S), !.blocked = TRUE, !.audit = b, !.leases = T]
  BY <1>1, <1>4, <1>6 DEF Join
<1>8. OwnerLike(n) /\ n.leases = T /\ n.run = m.run /\ n.hold = m.hold /\ n.holdLocks = m.holdLocks
  BY <1>7 DEF OwnerLike
<1> QED BY <1>5, <1>8

LEMMA QuarantineLeaseKeeps ==
    ASSUME IInv, NEW p \in Procs, NEW l, NEW reason, NEW broken, QuarantineLease(p, l, reason, broken)
    PROVE  IInv'
<1>1. PICK n : n = Join(mem[p], {l}, reason, broken)
  OBVIOUS
<1>2. Ends(p, n, locks[p], bench)
  BY <1>1 DEF QuarantineLease, Quarantine, Finish, Completed, TornIn, Ends
<1>3. {l} \in SUBSET mem[p].leases
  BY DEF QuarantineLease, Valid
<1>4. OwnerLike(mem[p]) /\ Registered(mem[p].leases)
  BY DEF IInv, Typed
<1> QED BY <1>1, <1>2, <1>3, <1>4, JoinHolds, TwinsEndKeeps

LEMMA PoisonKeeps ==
    ASSUME IInv, NEW p \in Procs, NEW audit, NEW D, NEW reason, Poison(p, audit, D, reason)
    PROVE  IInv'
<1>1. OwnerLike(mem[p]) /\ Registered(mem[p].leases)
  BY DEF IInv, Typed
<1>2. CASE mem[p].leases # {}
  <2>1. PICK n : n = Join(mem[p], mem[p].leases, reason, audit)
    OBVIOUS
  <2>2. Ends(p, n, locks[p], bench)
    BY <1>2, <2>1 DEF Poison, QuarantineAll, Finish, Completed, TornIn, Ends
  <2>3. mem[p].leases \in SUBSET mem[p].leases
    OBVIOUS
  <2> QED BY <1>1, <2>1, <2>2, <2>3, JoinHolds, TwinsEndKeeps
<1>3. CASE mem[p].leases = {}
  <2>1. PICK q, b : q = (IF mem[p].qid # 0 THEN mem[p].qid ELSE FreshQid) /\ b = (mem[p].audit \/ audit)
    OBVIOUS
  <2>2. PICK n : n = [mem[p] EXCEPT !.qid = q, !.blocked = TRUE, !.audit = b, !.incRes = @ \cup D]
    OBVIOUS
  <2>3. PICK X : X \in {{}, {Proj(p)}} /\ Ends(p, n, locks[p] \cup X, bench)
    <3>1. Ends(p, n, locks[p], bench) \/ Ends(p, n, locks[p] \cup {Proj(p)}, bench)
      BY <1>3, <2>1, <2>2 DEF Poison, Finish, Completed, TornIn, Ends
    <3>2. locks[p] \cup {} = locks[p]
      OBVIOUS
    <3> QED BY <3>1, <3>2
  <2>4. SameHold(mem[p], n)
    BY <1>1, <2>2 DEF SameHold, OwnerLike
  <2>5. PICK L : L = locks[p] \cup X
    OBVIOUS
  <2>6. L \cap Resources = locks[p] \cap Resources
    BY <2>3, <2>5, ProjectLockApart
  <2> QED BY <2>3, <2>4, <2>5, <2>6, SameHoldEndKeeps
<1> QED BY <1>2, <1>3

\* A report ends a call-scoped lease's call, and changes nothing else of it.
LEMMA ReportKeeps ==
    ASSUME IInv, NEW p \in Procs, NEW l, NEW notStarted, Report(p, l, notStarted)
    PROVE  IInv'
<1>1. OwnerLike(mem[p]) /\ Registered(mem[p].leases) /\ l \in mem[p].leases
  BY DEF IInv, Typed, Report, Valid
<1>2. PICK k : k = [l EXCEPT !.ended = l.scoped]
  OBVIOUS
<1>3. PICK g : g = [j \in {l} |-> k]
  OBVIOUS
<1>4. PICK T : T = (mem[p].leases \ {l}) \cup {k}
  OBVIOUS
<1>5. LeaseLike(k) /\ Later(l, k)
  BY <1>1, <1>2 DEF Registered, LeaseLike, Later
<1>6. T = (mem[p].leases \ {l}) \cup {g[j] : j \in {l}} /\ {l} \in SUBSET mem[p].leases
  BY <1>1, <1>3, <1>4
<1>7. Registered(T) /\ Twins(mem[p].leases, T)
  BY <1>1, <1>3, <1>5, <1>6, Reshape
<1>8. PICK n : n = [mem[p] EXCEPT !.leases = T]
  OBVIOUS
<1>9. Ends(p, n, locks[p], bench)
  BY <1>2, <1>4, <1>8 DEF Report, Ends, IInv, Typed
<1>10. OwnerLike(n) /\ n.leases = T /\ n.run = mem[p].run /\ n.hold = mem[p].hold /\ n.holdLocks = mem[p].holdLocks
  BY <1>1, <1>8 DEF OwnerLike
<1> QED BY <1>7, <1>9, <1>10, TwinsEndKeeps

LEMMA TwinsOfTwins ==
    ASSUME NEW S, NEW T, NEW U, Twins(S, T), Twins(T, U)
    PROVE  Twins(S, U)
<1>1. ASSUME NEW u \in U
      PROVE  \E l \in S : Later(l, u)
  <2>1. PICK t \in T : Later(t, u)
    BY DEF Twins
  <2>2. PICK l \in S : Later(l, t)
    BY DEF Twins
  <2> QED BY <2>1, <2>2 DEF Later
<1>2. ASSUME NEW l \in S
      PROVE  \E u \in U : Later(l, u)
  <2>1. PICK t \in T : Later(l, t)
    BY DEF Twins
  <2>2. PICK u \in U : Later(t, u)
    BY DEF Twins
  <2> QED BY <2>1, <2>2 DEF Later
<1> QED BY <1>1, <1>2 DEF Twins

\* A release that fails half-way leaves its lease in the incident, with its holds.
LEMMA ReleaseFaultKeeps ==
    ASSUME IInv, NEW p \in Procs, NEW l, NEW n, NEW lost, NEW writable, ReleaseFault(p, l, n, lost, writable)
    PROVE  IInv'
<1>1. OwnerLike(mem[p]) /\ Registered(mem[p].leases) /\ l \in mem[p].leases /\ ~NoFaults
  BY DEF IInv, Typed, ReleaseFault, Valid, NoFaults
<1>2. PICK k : k = [l EXCEPT !.locks = @ \ lost]
  OBVIOUS
<1>3. PICK g : g = [j \in {l} |-> k]
  OBVIOUS
<1>4. PICK T : T = (mem[p].leases \ {l}) \cup {k}
  OBVIOUS
<1>5. LeaseLike(k) /\ Later(l, k)
  BY <1>1, <1>2 DEF Registered, LeaseLike, Later
<1>6. T = (mem[p].leases \ {l}) \cup {g[j] : j \in {l}} /\ {l} \in SUBSET mem[p].leases
  BY <1>1, <1>3, <1>4
<1>7. Registered(T) /\ Twins(mem[p].leases, T)
  BY <1>1, <1>3, <1>5, <1>6, Reshape
<1>8. PICK m : m = [mem[p] EXCEPT !.leases = T]
  OBVIOUS
<1>9. OwnerLike(m) /\ m.leases = T /\ m.run = mem[p].run /\ m.hold = mem[p].hold /\ m.holdLocks = mem[p].holdLocks
  BY <1>1, <1>8 DEF OwnerLike
<1>10. PICK o : o = Join(m, {k}, "lease_release_unconfirmed", FALSE)
  OBVIOUS
<1>11. PICK L : L = locks[p] \ lost
  OBVIOUS
<1>12. Ends(p, o, L, bench)
  BY <1>2, <1>4, <1>8, <1>10, <1>11 DEF ReleaseFault, Quarantine, Finish, Completed, TornIn, Ends
<1>13. PICK S, reason, broken : S \in SUBSET m.leases /\ Registered(m.leases) /\ o = Join(m, S, reason, broken)
  BY <1>4, <1>7, <1>9, <1>10
<1>14. /\ OwnerLike(o) /\ Registered(o.leases) /\ Twins(m.leases, o.leases)
       /\ o.run = m.run /\ o.hold = m.hold /\ o.holdLocks = m.holdLocks
  BY <1>9, <1>13, JoinHolds
<1>15. Twins(mem[p].leases, o.leases)
  BY <1>7, <1>9, <1>14, TwinsOfTwins
<1> QED BY <1>1, <1>9, <1>12, <1>14, <1>15, TwinsEndKeeps

\* Leases that are settled are what they were, and active.
LEMMA HealedHolds ==
    ASSUME NEW R, Registered(R), NEW S \in SUBSET R, NEW T, T = (R \ S) \cup {Healed(l) : l \in S}
    PROVE  Registered(T) /\ Twins(R, T)
<1>1. PICK g : g = [l \in S |-> Healed(l)]
  OBVIOUS
<1>2. \A l \in S : LeaseLike(g[l]) /\ Later(l, g[l])
  <2> SUFFICES ASSUME NEW l \in S PROVE LeaseLike(g[l]) /\ Later(l, g[l])
    OBVIOUS
  <2>1. LeaseLike(l)
    BY DEF Registered
  <2>2. g[l] = [l EXCEPT !.st = "active", !.reasons = {}, !.qid = 0]
    BY <1>1 DEF Healed
  <2> QED BY <2>1, <2>2 DEF LeaseLike, Later
<1>3. T = (R \ S) \cup {g[l] : l \in S}
  BY <1>1
<1> HIDE DEF Healed
<1> QED BY <1>2, <1>3, Reshape, ZenonT(40)

LEMMA SettleHolds ==
    ASSUME NEW m, OwnerLike(m), Registered(m.leases), NEW S \in SUBSET m.leases, NEW n, n = Settle(m, S)
    PROVE  /\ OwnerLike(n) /\ Registered(n.leases) /\ Twins(m.leases, n.leases)
           /\ n.run = m.run /\ n.hold = m.hold /\ n.holdLocks = m.holdLocks
<1>1. PICK T : T = (m.leases \ S) \cup {Healed(l) : l \in S}
  OBVIOUS
<1>2. Registered(T) /\ Twins(m.leases, T)
  BY <1>1, HealedHolds
<1>3. PICK k : k = [m EXCEPT !.leases = T]
  OBVIOUS
<1>4. OwnerLike(k) /\ k.leases = T /\ k.run = m.run /\ k.hold = m.hold /\ k.holdLocks = m.holdLocks
  BY <1>3 DEF OwnerLike
<1>5. n = k \/ n = Unblocked(k)
  BY <1>1, <1>3 DEF Settle
<1>6. SameHold(k, n)
  BY <1>4, <1>5, UnblockedHolds DEF SameHold
<1> QED BY <1>2, <1>4, <1>6 DEF SameHold

LEMMA ResolveLeaseKeeps ==
    ASSUME IInv, NEW p \in Procs, NEW l, NEW reason, ResolveLease(p, l, reason)
    PROVE  IInv'
<1>1. OwnerLike(mem[p]) /\ Registered(mem[p].leases) /\ {l} \in SUBSET mem[p].leases
  BY DEF IInv, Typed, ResolveLease, Valid
<1>2. PICK n : n = Settle(mem[p], {l})
  OBVIOUS
<1>3. Ends(p, n, locks[p], bench)
  BY <1>2 DEF ResolveLease, Resolved, Finish, Completed, TornIn, Ends
<1> QED BY <1>1, <1>2, <1>3, SettleHolds, TwinsEndKeeps

LEMMA ResolveIncidentKeeps ==
    ASSUME IInv, NEW p \in Procs, NEW reason, ResolveIncident(p, reason)
    PROVE  IInv'
<1>1. OwnerLike(mem[p]) /\ Registered(mem[p].leases) /\ mem[p].leases \in SUBSET mem[p].leases
  BY DEF IInv, Typed
<1>2. PICK n : n = Settle(mem[p], mem[p].leases)
  OBVIOUS
<1>3. Ends(p, n, locks[p], bench)
  BY <1>2 DEF ResolveIncident, Finish, Completed, TornIn, Ends
<1> QED BY <1>1, <1>2, <1>3, SettleHolds, TwinsEndKeeps

\* A stand-down settles every lease, or ends at a lock it is refused.
LEMMA StandDownKeeps ==
    ASSUME IInv, NEW p \in Procs, StandDown(p)
    PROVE  IInv'
<1>1. OwnerLike(mem[p]) /\ Registered(mem[p].leases)
  BY DEF IInv, Typed
<1>2. PICK T : T = {Healed(l) : l \in mem[p].leases}
  OBVIOUS
<1>3. Registered(T) /\ Twins(mem[p].leases, T)
  <2>1. PICK R : R = mem[p].leases
    OBVIOUS
  <2>2. T = (R \ R) \cup {Healed(l) : l \in R} /\ R \in SUBSET R /\ Registered(R)
    BY <1>1, <1>2, <2>1
  <2> QED BY <2>1, <2>2, HealedHolds
<1>4. PICK n : n = [Unblocked(mem[p]) EXCEPT !.leases = T]
  OBVIOUS
<1>5. OwnerLike(n) /\ n.leases = T /\ n.run = mem[p].run /\ n.hold = mem[p].hold /\ n.holdLocks = mem[p].holdLocks
  <2>1. PICK u : u = Unblocked(mem[p])
    OBVIOUS
  <2>2. SameHold(mem[p], u)
    BY <1>1, <2>1, UnblockedHolds
  <2> QED BY <1>4, <2>1, <2>2 DEF SameHold, OwnerLike
<1>6. PICK X : /\ X \in {{}, {Proj(p)}}
               /\ Ends(p, n, locks[p] \ X, bench) \/ Ends(p, mem[p], locks[p], bench)
  <2>1. \/ Ends(p, n, locks[p] \ (IF mem[p].leases = {} THEN {Proj(p)} ELSE {}), bench)
        \/ Ends(p, mem[p], locks[p], bench)
    BY <1>2, <1>4 DEF StandDown, Finish, Completed, TornIn, Ends
  <2> QED BY <2>1
<1>7. PICK L : L = locks[p] \ X
  OBVIOUS
<1>8. L \cap Resources = locks[p] \cap Resources
  BY <1>6, <1>7, ProjectLockApart
<1>9. CASE Ends(p, n, locks[p] \ X, bench)
  BY <1>3, <1>5, <1>7, <1>8, <1>9, TwinsEndKeeps
<1>10. CASE Ends(p, mem[p], locks[p], bench)
  <2>1. SameHold(mem[p], mem[p])
    BY <1>1 DEF SameHold
  <2> QED BY <1>10, <2>1, SameHoldEndKeeps
<1> QED BY <1>6, <1>9, <1>10

-----------------------------------------------------------------------------
(* Releases.                                                                *)

LEMMA LessEndKeeps ==
    ASSUME IInv, NEW p \in Procs, NEW l \in mem[p].leases, NEW m, NEW X, X \in {{}, {Proj(p)}},
           Ends(p, m, locks[p] \ (l.locks \cup X), BenchLess(p, l.res)),
           OwnerLike(m), m.leases = mem[p].leases \ {l},
           m.run = mem[p].run, m.hold = mem[p].hold, m.holdLocks = mem[p].holdLocks
    PROVE  IInv'
<1>1. X \cap Resources = {}
  BY ProjectLockApart
<1>2. CASE Dies(p) /\ deploy' = deploy
  BY <1>2, DiesKeeps
<1>3. CASE /\ mem' = [mem EXCEPT ![p] = m] /\ locks' = [locks EXCEPT ![p] = locks[p] \ (l.locks \cup X)]
           /\ bench' = BenchLess(p, l.res) /\ deploy' = deploy
  <2>1. locks' = [locks EXCEPT ![p] = @ \ (l.locks \cup X)]
    BY <1>3
  <2> QED BY <1>1, <1>3, <2>1, LessMoveKeeps
<1> QED BY <1>2, <1>3 DEF Ends

LEMMA ReleaseLeaseKeeps ==
    ASSUME IInv, NEW p \in Procs, NEW l, ReleaseLease(p, l)
    PROVE  IInv'
<1>1. OwnerLike(mem[p]) /\ l \in mem[p].leases
  BY DEF IInv, Typed, ReleaseLease, Valid
<1>2. PICK k : k = [mem[p] EXCEPT !.leases = @ \ {l}, !.incRes = @ \ l.res]
  OBVIOUS
<1>3. PICK j : j = [k EXCEPT !.blocked = TRUE]
  OBVIOUS
<1>4. PICK n : n = Released(p, l).m
  OBVIOUS
<1>5. n \in {j, Unblocked(k)}
  BY <1>2, <1>3, <1>4 DEF Released
<1>6. OwnerLike(k) /\ k.leases = mem[p].leases \ {l} /\ k.run = mem[p].run /\ k.hold = mem[p].hold /\ k.holdLocks = mem[p].holdLocks
  BY <1>1, <1>2 DEF OwnerLike
<1>7. SameHold(k, j)
  BY <1>3, <1>6 DEF SameHold, OwnerLike
<1>8. SameHold(k, n)
  BY <1>5, <1>6, <1>7, UnblockedHolds
<1>9. PICK X : X \in {{}, {Proj(p)}} /\ Released(p, l).L = locks[p] \ (l.locks \cup X)
  BY DEF Released
<1>10. Ends(p, n, Released(p, l).L, BenchLess(p, l.res))
  BY <1>4 DEF ReleaseLease, Finish, Completed, TornIn, Ends
<1>11. Ends(p, n, locks[p] \ (l.locks \cup X), BenchLess(p, l.res))
  BY <1>9, <1>10
<1> QED BY <1>1, <1>6, <1>8, <1>9, <1>11, LessEndKeeps DEF SameHold

LEMMA HandOverKeeps ==
    ASSUME IInv, NEW p \in Procs, NEW l, HandOver(p, l)
    PROVE  IInv'
<1>1. OwnerLike(mem[p]) /\ l \in mem[p].leases
  BY DEF IInv, Typed, HandOver, Valid
<1>2. PICK n : n = [mem[p] EXCEPT !.leases = @ \ {l}, !.incLeases = @ \cup {[l EXCEPT !.locks = {}]}]
  OBVIOUS
<1>3. OwnerLike(n) /\ n.leases = mem[p].leases \ {l} /\ n.run = mem[p].run /\ n.hold = mem[p].hold /\ n.holdLocks = mem[p].holdLocks
  BY <1>1, <1>2 DEF OwnerLike
<1>4. PICK X : X = IF n.leases = {} THEN {Proj(p)} ELSE {}
  OBVIOUS
<1>5. Ends(p, n, locks[p] \ (l.locks \cup X), BenchLess(p, l.res))
  BY <1>2, <1>4 DEF HandOver, Finish, Completed, TornIn, Ends
<1>6. X \in {{}, {Proj(p)}}
  BY <1>4
<1> QED BY <1>1, <1>3, <1>5, <1>6, LessEndKeeps

-----------------------------------------------------------------------------
(* Signatures, retirement, status and the end of an owner.                  *)

LEMMA OwnerItself ==
    ASSUME IInv, NEW p \in Procs
    PROVE  OwnerLike(mem[p]) /\ SameHold(mem[p], mem[p]) /\ SameHold(mem[p], Cleared(mem[p]))
<1>1. OwnerLike(mem[p])
  BY DEF IInv, Typed
<1>2. PICK m : m = mem[p]
  OBVIOUS
<1>3. SameHold(m, [Unblocked(m) EXCEPT !.incLeases = {}])
  BY <1>1, <1>2, UnblockedHolds
<1> QED BY <1>1, <1>2, <1>3 DEF SameHold, Cleared

LEMMA RecoverKeeps ==
    ASSUME IInv, NEW p \in Procs, NEW q, Recover(p, q)
    PROVE  IInv'
<1>1. PICK n : n = Cleared(mem[p])
  OBVIOUS
<1>2. Ends(p, n, locks[p], bench)
  BY <1>1 DEF Recover, Finish, Completed, TornIn, Ends
<1>3. SameHold(mem[p], n)
  BY <1>1, OwnerItself
<1> QED BY <1>2, <1>3, SameHoldEndKeeps

LEMMA ResolveAdoptedKeeps ==
    ASSUME IInv, NEW p \in Procs, NEW reason, ResolveAdopted(p, reason)
    PROVE  IInv'
<1>1. PICK L : L = locks[p] \ {Proj(p)}
  OBVIOUS
<1>2. PICK n : n \in {mem[p], Cleared(mem[p])} /\ Ends(p, n, L, bench)
  <2>1. Ends(p, Cleared(mem[p]), L, bench) \/ Ends(p, mem[p], L, bench)
    BY <1>1 DEF ResolveAdopted, Finish, Completed, TornIn, Ends
  <2> QED BY <2>1
<1>3. SameHold(mem[p], n)
  BY <1>2, OwnerItself
<1>4. L \cap Resources = locks[p] \cap Resources
  BY <1>1, ProjectLockApart
<1> QED BY <1>2, <1>3, <1>4, SameHoldEndKeeps

LEMMA RetireKeeps ==
    ASSUME IInv, NEW p \in Procs, Retire(p)
    PROVE  IInv'
<1>1. Ends(p, mem[p], locks[p], bench)
  BY DEF Retire, Finish, Completed, TornIn, Ends
<1> QED BY <1>1, OwnerItself, SameHoldEndKeeps

LEMMA StatusKeeps ==
    ASSUME IInv, NEW p \in Procs, Status(p)
    PROVE  IInv'
<1>1. PICK m : m = Settled(p)
  OBVIOUS
<1>2. PICK n : n = Adopt(m, Disk(p)[Proj(p)], Disk(p)[Proj(p)].res, FreshQid)
  OBVIOUS
<1>3. Ends(p, m, locks[p], bench) \/ Ends(p, n, locks[p], bench)
  BY <1>1, <1>2 DEF Status, Finish, Completed, TornIn, Ends
<1>4. SameHold(mem[p], m)
  BY <1>1, SettledHolds
<1>5. SameHold(m, n)
  BY <1>2, <1>4, AdoptHolds DEF SameHold
<1>6. SameHold(mem[p], n)
  BY <1>4, <1>5 DEF SameHold
<1> QED BY <1>3, <1>4, <1>6, SameHoldEndKeeps

LEMMA CloseKeeps ==
    ASSUME IInv, NEW p \in Procs, Close(p)
    PROVE  IInv'
<1>1. Dies(p) /\ deploy' = deploy
  BY DEF Close
<1> QED BY <1>1, DiesKeeps

-----------------------------------------------------------------------------
(* Runs and holds.                                                          *)

LEMMA RunIsCounted ==
    ASSUME IInv, NEW p \in Procs, NEW d \in Physical
    PROVE  /\ bench[p][d] \in Nat
           /\ d \in mem[p].run \/ d \in mem[p].hold => bench[p][d] > 0
<1>1. On(mem[p].leases, d) \in SUBSET mem[p].leases /\ IsFiniteSet(mem[p].leases)
  BY DEF On, IInv, Typed, Registered
<1>2. Cardinality(On(mem[p].leases, d)) \in Nat
  BY <1>1, FS_Subset, FS_CardinalityType
<1>3. bench[p][d] = Owed(mem[p], d)
  BY DEF IInv, Balanced
<1> QED BY <1>2, <1>3 DEF Owed

\* What p adds to its row, and what it gives back.
LEMMA RowPlus ==
    ASSUME IInv, NEW p \in Procs, NEW D
    PROVE  \E row \in [Physical -> Nat] :
              /\ BenchPlus(p, D) = [bench EXCEPT ![p] = row]
              /\ \A d \in Physical : row[d] = bench[p][d] + (IF d \in D THEN 1 ELSE 0)
<1>1. PICK row : row = [d \in Physical |-> IF d \in D THEN bench[p][d] + 1 ELSE bench[p][d]]
  OBVIOUS
<1>2. bench[p] \in [Physical -> Nat]
  BY DEF IInv, Typed
<1>3. row \in [Physical -> Nat] /\ \A d \in Physical : row[d] = bench[p][d] + (IF d \in D THEN 1 ELSE 0)
  BY <1>1, <1>2
<1>4. BenchPlus(p, D) = [bench EXCEPT ![p] = row]
  BY <1>1 DEF BenchPlus, IInv, Typed
<1> QED BY <1>3, <1>4

LEMMA RowLess ==
    ASSUME IInv, NEW p \in Procs, NEW D, \A d \in D \cap Physical : bench[p][d] > 0
    PROVE  \E row \in [Physical -> Nat] :
              /\ BenchLess(p, D) = [bench EXCEPT ![p] = row]
              /\ \A d \in Physical : row[d] + (IF d \in D THEN 1 ELSE 0) = bench[p][d]
<1>1. PICK row : row = [d \in Physical |-> IF d \in D /\ bench[p][d] > 0 THEN bench[p][d] - 1 ELSE bench[p][d]]
  OBVIOUS
<1>2. bench[p] \in [Physical -> Nat]
  BY DEF IInv, Typed
<1>3. row \in [Physical -> Nat] /\ \A d \in Physical : row[d] + (IF d \in D THEN 1 ELSE 0) = bench[p][d]
  BY <1>1, <1>2
<1>4. BenchLess(p, D) = [bench EXCEPT ![p] = row]
  BY <1>1 DEF BenchLess, IInv, Typed
<1> QED BY <1>3, <1>4

\* The locks are as they were.
LEMMA LocksStay ==
    ASSUME IInv, NEW p \in Procs, NoFaults
    PROVE  LocksCover(mem[p], locks[p]) /\ TakenFree(p, locks[p])
BY DEF IInv, LocksApart, TakenFree

LEMMA BeginRunKeeps ==
    ASSUME IInv, NEW p \in Procs, NEW D, BeginRun(p, D)
    PROVE  IInv'
<1>1. PICK n : n = [mem[p] EXCEPT !.run = D]
  OBVIOUS
<1>2. OwnerLike(n) /\ n.leases = mem[p].leases /\ n.run = D /\ n.hold = mem[p].hold /\ n.holdLocks = mem[p].holdLocks
  <2>1. OwnerLike(mem[p])
    BY OwnerItself
  <2> QED BY <1>1, <2>1 DEF OwnerLike
<1>3. PICK row \in [Physical -> Nat] :
         /\ BenchPlus(p, D) = [bench EXCEPT ![p] = row]
         /\ \A d \in Physical : row[d] = bench[p][d] + (IF d \in D THEN 1 ELSE 0)
  BY RowPlus
<1>4. Moved(p, n, locks[p], row)
  BY <1>1, <1>3 DEF BeginRun, Completed, Moved
<1>5. mem[p].run = {} /\ BenchFree(p, D)
  BY DEF BeginRun
<1>6. ASSUME NEW d \in Physical
      PROVE  /\ row[d] + (IF d \in mem[p].run THEN 1 ELSE 0) + (IF d \in mem[p].hold THEN 1 ELSE 0)
                   = bench[p][d] + (IF d \in n.run THEN 1 ELSE 0) + (IF d \in n.hold THEN 1 ELSE 0)
             /\ row[d] <= bench[p][d] \/ \A q \in Procs \ {p} : bench[q][d] = 0
  <2>1. bench[p][d] \in Nat
    BY RunIsCounted
  <2> QED BY <1>2, <1>3, <1>5, <2>1 DEF BenchFree
<1>7. NoFaults => LocksCover(n, locks[p]) /\ TakenFree(p, locks[p])
  BY <1>2, LocksStay DEF LocksCover
<1> QED BY <1>2, <1>4, <1>6, <1>7, RowMoveKeeps

LEMMA EndRunKeeps ==
    ASSUME IInv, NEW p \in Procs, EndRun(p)
    PROVE  IInv'
<1>1. PICK n : n = [mem[p] EXCEPT !.run = {}]
  OBVIOUS
<1>2. OwnerLike(n) /\ n.leases = mem[p].leases /\ n.run = {} /\ n.hold = mem[p].hold /\ n.holdLocks = mem[p].holdLocks
  <2>1. OwnerLike(mem[p])
    BY OwnerItself
  <2> QED BY <1>1, <2>1 DEF OwnerLike
<1>3. PICK row \in [Physical -> Nat] :
         /\ BenchLess(p, mem[p].run) = [bench EXCEPT ![p] = row]
         /\ \A d \in Physical : row[d] + (IF d \in mem[p].run THEN 1 ELSE 0) = bench[p][d]
  <2>1. PICK D : D = mem[p].run
    OBVIOUS
  <2>2. \A d \in D \cap Physical : bench[p][d] > 0
    BY <2>1, RunIsCounted
  <2>3. \E row \in [Physical -> Nat] :
           /\ BenchLess(p, D) = [bench EXCEPT ![p] = row]
           /\ \A d \in Physical : row[d] + (IF d \in D THEN 1 ELSE 0) = bench[p][d]
    BY <2>2, RowLess
  <2> QED BY <2>1, <2>3
<1>4. Moved(p, n, locks[p], row)
  BY <1>1, <1>3 DEF EndRun, Completed, Moved
<1>5. ASSUME NEW d \in Physical
      PROVE  /\ row[d] + (IF d \in mem[p].run THEN 1 ELSE 0) + (IF d \in mem[p].hold THEN 1 ELSE 0)
                   = bench[p][d] + (IF d \in n.run THEN 1 ELSE 0) + (IF d \in n.hold THEN 1 ELSE 0)
             /\ row[d] <= bench[p][d]
  <2>1. bench[p][d] \in Nat /\ row[d] \in Nat
    BY RunIsCounted
  <2> QED BY <1>2, <1>3, <2>1
<1>6. NoFaults => LocksCover(n, locks[p]) /\ TakenFree(p, locks[p])
  BY <1>2, LocksStay DEF LocksCover
<1> QED BY <1>2, <1>4, <1>5, <1>6, RowMoveKeeps

LEMMA HoldKeeps ==
    ASSUME IInv, NEW p \in Procs, Hold(p)
    PROVE  IInv'
<1>1. PICK D, take : D = mem[p].incRes /\ take = D \ ResOf(mem[p].leases)
  OBVIOUS
<1>2. PICK n : n = [mem[p] EXCEPT !.hold = D, !.holdLocks = take]
  OBVIOUS
<1>3. OwnerLike(n) /\ n.leases = mem[p].leases /\ n.run = mem[p].run /\ n.hold = D /\ n.holdLocks = take
  <2>1. OwnerLike(mem[p])
    BY OwnerItself
  <2> QED BY <1>2, <2>1 DEF OwnerLike
<1>4. PICK row \in [Physical -> Nat] :
         /\ BenchPlus(p, D) = [bench EXCEPT ![p] = row]
         /\ \A d \in Physical : row[d] = bench[p][d] + (IF d \in D THEN 1 ELSE 0)
  BY RowPlus
<1>5. PICK L : L = locks[p] \cup take
  OBVIOUS
<1>6. Moved(p, n, L, row)
  BY <1>1, <1>2, <1>4, <1>5 DEF Hold, Completed, Moved
<1>7. mem[p].hold = {} /\ BenchFree(p, D) /\ \A d \in take : LockFree(p, d)
  BY <1>1 DEF Hold
<1>8. ASSUME NEW d \in Physical
      PROVE  /\ row[d] + (IF d \in mem[p].run THEN 1 ELSE 0) + (IF d \in mem[p].hold THEN 1 ELSE 0)
                   = bench[p][d] + (IF d \in n.run THEN 1 ELSE 0) + (IF d \in n.hold THEN 1 ELSE 0)
             /\ row[d] <= bench[p][d] \/ \A q \in Procs \ {p} : bench[q][d] = 0
  <2>1. bench[p][d] \in Nat
    BY RunIsCounted
  <2> QED BY <1>3, <1>4, <1>7, <2>1 DEF BenchFree
<1>9. ASSUME NoFaults
      PROVE  LocksCover(n, L) /\ TakenFree(p, L)
  <2>1. LocksCover(mem[p], locks[p]) /\ TakenFree(p, locks[p])
    BY <1>9, LocksStay
  <2>2. \A l \in mem[p].leases : l.res \cap take = {}
    BY <1>1 DEF ResOf
  <2>3. LocksCover(n, L)
    BY <1>3, <1>5, <2>1, <2>2 DEF LocksCover
  <2>4. TakenFree(p, L)
    BY <1>5, <1>7, <2>1 DEF TakenFree, LockFree
  <2> QED BY <2>3, <2>4
<1> QED BY <1>3, <1>6, <1>8, <1>9, RowMoveKeeps

LEMMA ReleaseHoldKeeps ==
    ASSUME IInv, NEW p \in Procs, ReleaseHold(p)
    PROVE  IInv'
<1>1. PICK n : n = [mem[p] EXCEPT !.hold = {}, !.holdLocks = {}]
  OBVIOUS
<1>2. OwnerLike(n) /\ n.leases = mem[p].leases /\ n.run = mem[p].run /\ n.hold = {} /\ n.holdLocks = {}
  <2>1. OwnerLike(mem[p])
    BY OwnerItself
  <2> QED BY <1>1, <2>1 DEF OwnerLike
<1>3. PICK row \in [Physical -> Nat] :
         /\ BenchLess(p, mem[p].hold) = [bench EXCEPT ![p] = row]
         /\ \A d \in Physical : row[d] + (IF d \in mem[p].hold THEN 1 ELSE 0) = bench[p][d]
  <2>1. PICK D : D = mem[p].hold
    OBVIOUS
  <2>2. \A d \in D \cap Physical : bench[p][d] > 0
    BY <2>1, RunIsCounted
  <2>3. \E row \in [Physical -> Nat] :
           /\ BenchLess(p, D) = [bench EXCEPT ![p] = row]
           /\ \A d \in Physical : row[d] + (IF d \in D THEN 1 ELSE 0) = bench[p][d]
    BY <2>2, RowLess
  <2> QED BY <2>1, <2>3
<1>4. PICK L : L = locks[p] \ mem[p].holdLocks
  OBVIOUS
<1>5. Moved(p, n, L, row)
  BY <1>1, <1>3, <1>4 DEF ReleaseHold, Completed, Moved
<1>6. ASSUME NEW d \in Physical
      PROVE  /\ row[d] + (IF d \in mem[p].run THEN 1 ELSE 0) + (IF d \in mem[p].hold THEN 1 ELSE 0)
                   = bench[p][d] + (IF d \in n.run THEN 1 ELSE 0) + (IF d \in n.hold THEN 1 ELSE 0)
             /\ row[d] <= bench[p][d]
  <2>1. bench[p][d] \in Nat /\ row[d] \in Nat
    BY RunIsCounted
  <2> QED BY <1>2, <1>3, <2>1
<1>7. ASSUME NoFaults
      PROVE  LocksCover(n, L) /\ TakenFree(p, L)
  <2>1. LocksCover(mem[p], locks[p]) /\ TakenFree(p, locks[p])
    BY <1>7, LocksStay
  <2>2. LocksCover(n, L)
    BY <1>2, <1>4, <2>1 DEF LocksCover
  <2>3. TakenFree(p, L)
    BY <1>4, <2>1 DEF TakenFree
  <2> QED BY <2>2, <2>3
<1> QED BY <1>2, <1>5, <1>6, <1>7, RowMoveKeeps

-----------------------------------------------------------------------------
(* The theorems.                                                            *)

LEMMA InitHolds == Init => IInv
<1> SUFFICES ASSUME Init PROVE IInv
  OBVIOUS
<1>1. \A p \in Procs : mem[p] = Fresh /\ locks[p] = {} /\ bench[p] = NoHolds
  BY DEF Init
<1>2. PICK m : m = Fresh
  OBVIOUS
<1>3. OwnerLike(m) /\ m.leases = {} /\ m.run = {} /\ m.hold = {} /\ m.holdLocks = {}
  BY <1>2 DEF Fresh, OwnerLike
<1>4. Registered(m.leases)
  BY <1>3, FS_EmptySet DEF Registered
<1>5. NoHolds \in [Physical -> Nat] /\ \A d \in Physical : NoHolds[d] = 0
  BY DEF NoHolds
<1>6. deploy = [proj |-> deploy.proj, root |-> deploy.root] /\ \A p \in Procs : Proj(p) \in Projects
  BY CoordinationAssumption DEF Init, Proj
<1>7. bench \in [Procs -> [Physical -> Nat]]
  BY <1>5 DEF Init
<1>8. Typed
  BY <1>1, <1>2, <1>3, <1>4, <1>6, <1>7 DEF Init, Typed
<1>9. Balanced
  BY <1>1, <1>2, <1>3, <1>5, NothingOwed DEF Balanced
<1>10. OneHolder
  BY <1>1, <1>5 DEF OneHolder
<1>11. LocksApart
  BY <1>1, <1>2, <1>3 DEF LocksApart, LocksCover
<1> QED BY <1>8, <1>9, <1>10, <1>11 DEF IInv

LEMMA SameStateKeeps ==
    ASSUME IInv, UNCHANGED <<deploy, mem, locks, bench>>
    PROVE  IInv'
BY DEF IInv, Typed, Proj, Balanced, Owed, On, OneHolder, LocksApart, LocksCover, Root, RootOf

LEMMA LeaseStepKeeps ==
    ASSUME IInv, NEW p \in Procs, NEW l \in mem[p].leases, LeaseStep(p, l)
    PROVE  IInv'
<1>1. ASSUME Contact(p, l) PROVE IInv'
  BY <1>1, SameStateKeeps DEF Contact, procVars
<1> QED BY <1>1, QuarantineLeaseKeeps, ReportKeeps, ReleaseLeaseKeeps, ReleaseFaultKeeps, HandOverKeeps, ResolveLeaseKeeps
        DEF LeaseStep

LEMMA OwnerStepKeeps ==
    ASSUME IInv, NEW p \in Procs, OwnerStep(p)
    PROVE  IInv'
BY AcquireKeeps, LeaseStepKeeps, StandDownKeeps, ResolveIncidentKeeps, ResolveAdoptedKeeps, PoisonKeeps,
   BeginRunKeeps, EndRunKeeps, HoldKeeps, ReleaseHoldKeeps, CloseKeeps
   DEF OwnerStep

LEMMA AnyStepKeeps ==
    ASSUME IInv, NEW p \in Procs, AnyStep(p)
    PROVE  IInv'
<1>1. ASSUME Crash(p) PROVE IInv'
  BY <1>1, DiesKeeps DEF Crash
<1>2. ASSUME Restart(p) PROVE IInv'
  BY <1>2, SameStateKeeps DEF Restart
<1> QED BY <1>1, <1>2, RecoverKeeps, RetireKeeps, StatusKeeps DEF AnyStep

LEMMA NextKeeps == IInv /\ [Next]_vars => IInv'
<1> SUFFICES ASSUME IInv, [Next]_vars PROVE IInv'
  OBVIOUS
<1>1. CASE UNCHANGED vars
  BY <1>1, SameStateKeeps DEF vars
<1>2. CASE Next
  BY <1>2, OwnerStepKeeps, AnyStepKeeps, CoordinationAssumption DEF Next
<1> QED BY <1>1, <1>2

\* Every hold is owed, the bench is one process's at a time, and the locks cover
\* the leases.
THEOREM AlwaysIInv == Spec => []IInv
<1>1. Init => IInv
  BY InitHolds
<1>2. IInv /\ [Next]_vars => IInv'
  BY NextKeeps
<1> QED BY <1>1, <1>2, PTL DEF Spec

\* No path leaks a device or lets one go twice, whatever dies, fails or is torn.
THEOREM BenchIsBalanced == Spec => []BenchBalance
<1>1. IInv => BenchBalance
  <2> SUFFICES ASSUME IInv PROVE BenchBalance
    OBVIOUS
  <2>1. DOMAIN bench = Procs /\ \A p \in Procs : DOMAIN bench[p] = Physical
    BY DEF IInv, Typed
  <2> QED BY <2>1 DEF IInv, Balanced, Owed, On, BenchBalance
<1> QED BY <1>1, AlwaysIInv, PTL

\* No two processes have a lease on one physical device, on whichever state_roots
\* and whatever dies, fails or is torn.
DeviceDrivenOnce ==
    \A p, q \in Procs : p # q =>
        \A l \in mem[p].leases, k \in mem[q].leases : l.res \cap k.res \cap Physical = {}

\* A lease on a device is counted in the bench.
LEMMA LeaseIsCounted ==
    ASSUME IInv, NEW p \in Procs, NEW l \in mem[p].leases, NEW d \in l.res \cap Physical
    PROVE  bench[p][d] # 0
<1>1. PICK S : S = mem[p].leases /\ Registered(S)
  BY DEF IInv, Typed
<1>2. /\ Cardinality(On(S, d)) = Cardinality(On(S \ {l}, d)) + (IF d \in l.res THEN 1 ELSE 0)
      /\ Cardinality(On(S \ {l}, d)) \in Nat
  BY <1>1, LessCount
<1>3. bench[p][d] = Owed(mem[p], d)
  BY DEF IInv, Balanced
<1> QED BY <1>1, <1>2, <1>3 DEF Owed

LEMMA DrivenOnce == IInv => DeviceDrivenOnce
<1> SUFFICES ASSUME IInv, NEW p \in Procs, NEW q \in Procs, p # q, NEW l \in mem[p].leases, NEW k \in mem[q].leases,
                    NEW d \in Physical, d \in l.res, d \in k.res
             PROVE  FALSE
  BY DEF DeviceDrivenOnce
<1>1. bench[p][d] # 0 /\ bench[q][d] # 0
  BY LeaseIsCounted
<1> QED BY <1>1 DEF IInv, OneHolder

THEOREM DeviceIsDrivenOnce == Spec => []DeviceDrivenOnce
BY DrivenOnce, AlwaysIInv, PTL

LEMMA MemDomain == IInv => DOMAIN mem = Procs
<1>1. IInv => mem = [p \in Procs |-> mem[p]]
  BY DEF IInv, Typed
<1> QED BY <1>1

\* Where no release fails half-way no resource has two leases on a state_root, nor
\* a device two on the machine; and every hold of the bench is owed.
THEOREM LeasesAreAccounted == NoFaults => (Spec => []LeasesAccounted)
<1> SUFFICES ASSUME NoFaults PROVE Spec => []LeasesAccounted
  OBVIOUS
<1>1. IInv => SingleDriver
  <2> SUFFICES ASSUME IInv, NEW p \in Procs, NEW q \in Procs, NEW l \in mem[p].leases, NEW k \in mem[q].leases,
                      p # q \/ l # k
               PROVE  IF Root(p) = Root(q) THEN l.res \cap k.res = {} ELSE l.res \cap k.res \cap Physical = {}
    BY MemDomain DEF SingleDriver
  <2>1. LocksCover(mem[p], locks[p]) /\ LocksCover(mem[q], locks[q]) /\ l.res \subseteq Resources
    BY DEF IInv, LocksApart, Typed, Registered
  <2>2. CASE p = q
    BY <2>1, <2>2 DEF LocksCover
  <2>3. CASE p # q /\ Root(p) = Root(q)
    <3>1. locks[p] \cap locks[q] \cap Resources = {}
      BY <2>3 DEF IInv, LocksApart
    <3> QED BY <2>1, <2>3, <3>1 DEF LocksCover
  <2>4. CASE p # q /\ Root(p) # Root(q)
    BY <2>4, DrivenOnce DEF DeviceDrivenOnce
  <2> QED BY <2>2, <2>3, <2>4
<1>2. Spec => []SingleDriver
  BY <1>1, AlwaysIInv, PTL
<1>3. SingleDriver /\ BenchBalance => LeasesAccounted
  BY DEF LeasesAccounted
<1> QED BY <1>2, <1>3, BenchIsBalanced, PTL
=============================================================================
