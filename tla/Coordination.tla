---------------------------- MODULE Coordination ----------------------------
(***************************************************************************)
(* The hardware coordinator of coordination.py: leases over resources,     *)
(* the durable project and resource records under `state_root`, and what   *)
(* becomes of an incident: quarantined, adopted by the next owner, stood   *)
(* down, resolved or signed for.                                           *)
(*                                                                         *)
(* A process runs one coordinator for one project.  Projects with the same *)
(* root share the resource locks and records of one state_root; every      *)
(* process shares the machine-wide bench, taken here as DeviceLock         *)
(* promises it.  A handler runs under the coordinator's guard and tries    *)
(* each lock once, so it is one step.  Its record writes reach the disk    *)
(* batch by batch, and a process may die between any two of them: `Finish` *)
(* gives every handler its torn endings.                                   *)
(*                                                                         *)
(* Resources are numbers, in the sorted order the code walks them in.      *)
(***************************************************************************)
EXTENDS Naturals, FiniteSets, Sequences, TLC

CONSTANTS
    Procs,          \* coordinators
    Owners,         \* those that make hardware calls; the others are an
                    \* operator's command line: lease-status and recover
    Projects,       \* project keys
    NoProject,      \* a record nobody wrote
    Roots,          \* state_root directories
    Deployments,    \* who serves what: process -> project, project -> state_root
    Resources,      \* lock keys, as numbers
    Physical,       \* those the bench locks; discovery:all is not one
    Retryables,     \* RETRYABLE_CLEANUP_REASONS
    Policy,         \* reasons `recoverable_reasons` allows
    Reasons,        \* bound: reasons a quarantine is raised with
    MaxId,          \* bound: lease ids and quarantine ids in use at a time
    MaxLeases,      \* bound: leases of one process
    MaxRes,         \* bound: resources of one lease
    Torn,           \* the processes that may die between two writes of one handler
    Poisons,        \* the `poison` calls of the run: pairs <<audit, resources>>
    Uses            \* the optional calls of the run, of OptionalCalls

OptionalCalls == {"run", "hold", "retire", "fault", "report"}

ASSUME CoordinationAssumption ==
    /\ Uses \subseteq OptionalCalls
    /\ Owners \subseteq Procs
    /\ Deployments \subseteq [proj : [Procs -> Projects], root : [Projects -> Roots]]
    /\ NoProject \notin Projects
    /\ IsFiniteSet(Resources) /\ Resources = 1..Cardinality(Resources)
    /\ Resources \cap Projects = {}
    /\ Physical \subseteq Resources
    /\ MaxId \in Nat

VARIABLES
    deploy,    \* the deployment, which no step changes
    up,        \* process -> does it run
    mem,       \* process -> the coordinator object
    locks,     \* process -> resources and projects whose lock file it holds
    bench,     \* process -> resource -> holds counted in its BenchMutex
    rec,       \* root -> resource or project -> record on disk
    report,    \* project -> what its last report says of a lease
    touched,   \* history: ids of leases whose call reached the hardware
    halted     \* history: project -> an audit halt it raised is unsigned

procVars == <<up, mem, locks, bench>>
vars == <<deploy, up, mem, locks, bench, rec, report, touched, halted>>

Items == Resources \cup Projects
Ids == 1..MaxId

Standing == {"cleanup_required", "quarantined", "recovery_pending"}
OwnerExit == "owner_process_exited_without_release"
OwnerClosed == "owner_closed_with_active_lease"
AllReasons == Reasons \cup {OwnerExit, OwnerClosed, "lease_release_unconfirmed"}

\* A record nobody has written yet.
NoRecord == [st |-> "none", proj |-> NoProject, res |-> {}, qid |-> 0,
             reasons |-> {}, audit |-> FALSE, lids |-> {}, rqid |-> 0]

\* A coordinator right after `HardwareCoordinator(config)`.
Fresh == [open |-> TRUE, blocked |-> FALSE, audit |-> FALSE, adopted |-> FALSE,
          qid |-> 0, incRes |-> {}, incLeases |-> {}, leases |-> {}, run |-> {},
          hold |-> {}, holdLocks |-> {}]

NoReport == [lid |-> 0, claim |-> "none"]

Lease == [id : Ids, res : SUBSET Resources, locks : SUBSET Resources,
          st : {"active", "cleanup_required"}, auditOk : BOOLEAN,
          reasons : SUBSET AllReasons, qid : 0..MaxId, scoped : BOOLEAN, ended : BOOLEAN]

TypeOK ==
    /\ deploy \in Deployments
    /\ up \in [Procs -> BOOLEAN]
    /\ \A p \in Procs :
        /\ DOMAIN mem[p] = DOMAIN Fresh
        /\ mem[p].qid \in 0..MaxId /\ mem[p].incRes \subseteq Resources
        /\ mem[p].leases \subseteq Lease /\ mem[p].incLeases \subseteq Lease
        /\ mem[p].run \subseteq Physical /\ mem[p].hold \subseteq Resources
    /\ locks \in [Procs -> SUBSET Items]
    /\ bench \in [Procs -> [Physical -> Nat]]
    /\ rec \in [Roots -> [Items ->
            [st : Standing \cup {"none", "active", "released"}, proj : Projects \cup {NoProject},
             res : SUBSET Resources, qid : 0..MaxId, reasons : SUBSET AllReasons,
             audit : BOOLEAN, lids : SUBSET Ids, rqid : 0..MaxId]]]
    /\ report \in [Projects -> [lid : 0..MaxId, claim : {"none", "no_contact"}]]
    /\ touched \subseteq Ids
    /\ halted \in [Projects -> BOOLEAN]

NoHolds == [d \in Physical |-> 0]

Init ==
    /\ deploy \in Deployments
    /\ up = [p \in Procs |-> TRUE]
    /\ mem = [p \in Procs |-> Fresh]
    /\ locks = [p \in Procs |-> {}]
    /\ bench = [p \in Procs |-> NoHolds]
    /\ rec = [t \in Roots |-> [i \in Items |-> NoRecord]]
    /\ report = [j \in Projects |-> NoReport]
    /\ touched = {}
    /\ halted = [j \in Projects |-> FALSE]

-----------------------------------------------------------------------------
(* Locks, bench and ids.                                                   *)

Proj(p) == deploy.proj[p]
RootOf(j) == deploy.root[j]
Root(p) == RootOf(Proj(p))
Disk(p) == rec[Root(p)]

\* `_acquire_lock` finds the lock file free: no process on this root holds it,
\* this one included (the process-local table refuses a second hold).
LockFree(p, i) == \A q \in Procs : Root(q) = Root(p) => i \notin locks[q]

\* Mutation: the bench is kept per state_root.
BenchFreeHere(p, D) ==
    \A d \in D \cap Physical, q \in Procs \ {p} : Root(q) = Root(p) => bench[q][d] = 0

\* The bench lets p take the devices of D: nobody else counts one of them.
BenchFree(p, D) == \A d \in D \cap Physical, q \in Procs \ {p} : bench[q][d] = 0

\* An acquire adds one hold to each device.
BenchPlus(p, D) == [bench EXCEPT ![p] = [d \in Physical |-> IF d \in D THEN @[d] + 1 ELSE @[d]]]

\* Mutation: a release drops every hold on the device.
BenchLessAll(p, D) == [bench EXCEPT ![p] = [d \in Physical |-> IF d \in D THEN 0 ELSE @[d]]]

\* A release gives back one hold.
BenchLess(p, D) == [bench EXCEPT ![p] =
    [d \in Physical |-> IF d \in D /\ @[d] > 0 THEN @[d] - 1 ELSE @[d]]]

Records == {rec[t][i] : t \in Roots, i \in Items}

\* `secrets.token_hex`: an id nothing in the system mentions any more.
UsedLids == (UNION {r.lids : r \in Records})
            \cup (UNION {{l.id : l \in mem[p].leases \cup mem[p].incLeases} : p \in Procs})
            \cup {report[j].lid : j \in Projects}
UsedQids == {r.qid : r \in Records} \cup {r.rqid : r \in Records}
            \cup {mem[p].qid : p \in Procs}
            \cup (UNION {{l.qid : l \in mem[p].leases \cup mem[p].incLeases} : p \in Procs})
FreshLid == CHOOSE n \in Ids \ UsedLids : \A k \in Ids \ UsedLids : n <= k
FreshQid == CHOOSE n \in Ids \ UsedQids : \A k \in Ids \ UsedQids : n <= k
IdsLeft == Ids \ UsedLids # {} /\ Ids \ UsedQids # {}

-----------------------------------------------------------------------------
(* Records: `_base_record`, `_persist_lease`, `_persist_project`.          *)

Record(p, st, res, qid, reasons, audit, lids, rqid) ==
    [st |-> st, proj |-> Proj(p), res |-> res, qid |-> qid, reasons |-> reasons,
     audit |-> audit \/ "audit_broken" \in reasons, lids |-> lids, rqid |-> rqid]

ReleasedRecord(p, res, rqid) == Record(p, "released", res, 0, {}, FALSE, {}, rqid)

\* A batch of writes: the same record for every resource of D.
Batch(D, r) == [d \in D |-> r]

ResOf(leases) == UNION {l.res : l \in leases}
Sick(leases) == {l \in leases : l.st # "active"}

\* Mutation: a lease's record does not name its incident.
LeaseBatchUnnamed(p, l, st, incident) ==
    Batch(l.res, Record(p, st, IF st = "active" \/ st = "released" THEN l.res ELSE l.res \cup incident,
                        0, l.reasons, ~l.auditOk, {l.id}, 0))

\* `_persist_lease`: the lease's own resources get a record; in a cleanup state
\* it names the incident's resources as well.
LeaseBatch(p, l, st, incident) ==
    Batch(l.res, Record(p, st, IF st = "active" \/ st = "released" THEN l.res ELSE l.res \cup incident,
                        l.qid, l.reasons, ~l.auditOk, {l.id}, 0))

LeaseBatches(p, leases, incident) ==
    [d \in ResOf(leases) |->
        LET l == CHOOSE l \in leases : d \in l.res
        IN  LeaseBatch(p, l, l.st, incident)[d]]

\* `_persist_project(st, res)` with the leases of m: incident leases go on being
\* named, and an adopted reason travels on unless a lease names its own.
ProjectBatch(p, m, st, res) ==
    LET named == m.leases \cup m.incLeases
        cleanup == st \in {"cleanup_required", "quarantined"}
        own == UNION {l.reasons : l \in named}
        adopted == IF cleanup /\ m.adopted /\ UNION {l.reasons : l \in m.leases} = {}
                   THEN {OwnerExit} ELSE {}
    IN  Proj(p) :> Record(p, st, res, IF cleanup THEN m.qid ELSE 0, own \cup adopted,
                          \E l \in named : ~l.auditOk, {l.id : l \in named}, 0)

\* `_persist_project(st)` without a resource list.
ProjectDefault(p, m, st) ==
    ProjectBatch(p, m, st, ResOf(m.leases) \cup (IF st = "active" THEN {} ELSE m.incRes))

-----------------------------------------------------------------------------
(* How a handler ends: its batches W are written in order; it then leaves  *)
(* memory m, locks L and bench b.  Or the process dies after `n` full      *)
(* batches and part of the next.                                           *)

\* The first n batches are on disk: a record is what the last of them made it.
Written(disk, W, n) ==
    [i \in DOMAIN disk |->
        LET by == {k \in 1..n : i \in DOMAIN W[k]}
        IN  IF by = {} THEN disk[i] ELSE W[CHOOSE k \in by : \A j \in by : j <= k][i]]

Dies(p) ==
    /\ up' = [up EXCEPT ![p] = FALSE]
    /\ mem' = [mem EXCEPT ![p] = Fresh]
    /\ locks' = [locks EXCEPT ![p] = {}]
    /\ bench' = [bench EXCEPT ![p] = NoHolds]

TornIn(p, W) ==
    /\ p \in Torn
    /\ \E n \in 0..(Len(W) - 1) :
        \E c \in {0} \cup (DOMAIN W[n + 1] \cap Resources) :
            rec' = [rec EXCEPT ![Root(p)] =
                [i \in {j \in DOMAIN W[n + 1] \cap Resources : j <= c} |-> W[n + 1][i]]
                    @@ Written(@, W, n)]
    /\ Dies(p)

Completed(p, W, m, L, b) ==
    /\ rec' = [rec EXCEPT ![Root(p)] = Written(@, W, Len(W))]
    /\ mem' = [mem EXCEPT ![p] = m]
    /\ locks' = [locks EXCEPT ![p] = L]
    /\ bench' = b
    /\ UNCHANGED up

Finish(p, W, m, L, b) == Completed(p, W, m, L, b) \/ TornIn(p, W)

Open(p) == up[p] /\ mem[p].open
HasProject(p) == Proj(p) \in locks[p]
Stands(m) == m.blocked /\ m.audit
Unblocked(m) == [m EXCEPT !.blocked = FALSE, !.audit = FALSE, !.adopted = FALSE,
                          !.qid = 0, !.incRes = {}]

\* `_valid_lease`: the lease is registered and its owner still holds the locks.
Valid(p, l) == Open(p) /\ l \in mem[p].leases /\ HasProject(p) /\ l.locks \subseteq locks[p]

-----------------------------------------------------------------------------
(* Quarantine.                                                             *)

\* The id of the incident a quarantine raises or joins.
IncidentId(m) == IF m.qid # 0 THEN m.qid ELSE FreshQid

Quarantined(l, q, reason, broken) ==
    [l EXCEPT !.st = "cleanup_required", !.qid = q, !.auditOk = @ /\ ~broken, !.reasons = @ \cup {reason}]

\* The owner once the leases of S have joined the incident.
Join(m, S, reason, broken) ==
    [m EXCEPT !.qid = IncidentId(m), !.incRes = @ \cup ResOf(S), !.blocked = TRUE, !.audit = @ \/ broken,
              !.leases = (@ \ S) \cup {Quarantined(l, IncidentId(m), reason, broken) : l \in S}]

\* `_quarantine_registered_lease`: the lease joins the incident; where the
\* incident grew, every other lease in it is written again.
Quarantine(p, m, l, reason, broken) ==
    LET l2 == Quarantined(l, IncidentId(m), reason, broken)
        m2 == Join(m, {l}, reason, broken)
        others == IF l.res \subseteq m.incRes THEN {} ELSE Sick(m2.leases) \ {l2}
    IN  [m |-> m2, W |-> <<LeaseBatch(p, l2, l2.st, m2.incRes),
                           LeaseBatches(p, others, m2.incRes),
                           ProjectDefault(p, m2, "cleanup_required")>>]

\* The k leases with the lowest ids, and the k-th of them.
Leading(leases, k) == {l \in leases : Cardinality({o \in leases : o.id <= l.id}) <= k}
Nth(leases, k) == CHOOSE l \in Leading(leases, k) : l \notin Leading(leases, k - 1)

\* The same for every lease of a set, one after the other.
QuarantineAll(p, m, leases, reason, broken) ==
    LET N == Cardinality(leases)
        before(k) == IF k = 1 THEN m ELSE Join(m, Leading(leases, k - 1), reason, broken)
        step(k) == Quarantine(p, before(k), Nth(leases, k), reason, broken)
    IN  [m |-> IF leases = {} THEN m ELSE Join(m, leases, reason, broken),
         W |-> [n \in 1..(3 * N) |-> step((n + 2) \div 3).W[1 + ((n - 1) % 3)]]]

\* A call may lose its audit together with any other reason.
AuditBreaks == {FALSE, "audit_broken" \in Reasons}

\* `quarantine_lease`, raised by a call whose result it could not confirm.
QuarantineLease(p, l, reason, broken) ==
    LET r == Quarantine(p, mem[p], l, reason, broken) IN
    /\ Valid(p, l) /\ IdsLeft
    /\ Finish(p, r.W, r.m, locks[p], bench)
    /\ halted' = [halted EXCEPT ![Proj(p)] = @ \/ (up'[p] /\ broken)]
    /\ UNCHANGED <<deploy, report, touched>>

-----------------------------------------------------------------------------
(* Adoption of what an earlier owner left behind.                          *)

\* Mutation: the record is not asked whether its incident stands.
AdoptUnasked(m, r, resources, q) ==
    [m EXCEPT !.qid = IF r.qid # 0 THEN r.qid ELSE q, !.incRes = @ \cup resources,
              !.blocked = TRUE, !.adopted = TRUE]

\* `_adopt_incident`: a record without an id gives the incident a new one.
Adopt(m, r, resources, q) ==
    [m EXCEPT !.qid = IF r.qid # 0 THEN r.qid ELSE q, !.incRes = @ \cup resources,
              !.blocked = TRUE, !.adopted = TRUE, !.audit = @ \/ r.audit]

\* Adoption of the records of D in sorted order.
AdoptAll(m, disk, D, q) ==
    LET named == {d \in D : disk[d].qid # 0 /\ \A e \in D : e > d => disk[e].qid = 0}
        last == {d \in D : \A e \in D : e <= d}
    IN  IF D = {} THEN m
        ELSE [m EXCEPT !.qid = IF \E d \in last : disk[d].qid # 0
                               THEN disk[CHOOSE d \in last : TRUE].qid ELSE q,
                       !.incRes = @ \cup UNION {disk[d].res : d \in D},
                       !.blocked = TRUE, !.adopted = TRUE,
                       !.audit = @ \/ \E d \in D : disk[d].audit]

\* A resource another project's unresolved record stands on.
Foreign(p, disk, d) == disk[d].st \notin {"none", "released"} /\ disk[d].proj # Proj(p)
Inherited(p, disk, d) == disk[d].st \notin {"none", "released"} /\ disk[d].proj = Proj(p)

\* `_mark_incident_resources` gets as far as the first resource that is locked
\* or under another project's incident; from there on nothing is marked.
Markable(p, disk, D) ==
    {d \in D : \A e \in D : e <= d => LockFree(p, e) /\ ~Foreign(p, disk, e)}

Mark(p, disk, m, D) ==
    Batch(Markable(p, disk, D), Record(p, "quarantined", D, m.qid, {OwnerExit}, FALSE, {}, 0))

\* The project record as the next owner rewrites it on adoption.
AdoptedRecord(p, r, m) ==
    Proj(p) :> [r EXCEPT !.st = "quarantined", !.qid = m.qid, !.reasons = @ \cup {OwnerExit}]

\* Mutation: the report's claim is taken for the lease whatever lease it names.
NoContactAnyLease(p) ==
    LET r == Disk(p)[Proj(p)] IN
    /\ r.st = "active" /\ r.proj = Proj(p) /\ r.reasons = {} /\ r.qid = 0 /\ ~r.audit
    /\ Cardinality(r.lids) = 1 /\ r.res # {}
    /\ report[Proj(p)].claim = "no_contact"

\* `_dead_owner_made_no_contact`: the one open lease of the dead owner is the
\* one its last report names, and that report says the call never began.
NoContact(p) ==
    LET r == Disk(p)[Proj(p)] IN
    /\ r.st = "active" /\ r.proj = Proj(p) /\ r.reasons = {} /\ r.qid = 0 /\ ~r.audit
    /\ Cardinality(r.lids) = 1 /\ r.res # {}
    /\ r.lids = {report[Proj(p)].lid}
    /\ report[Proj(p)].claim = "no_contact"

\* `_release_dead_owner`: every resource is free, and its marker is released or
\* the dead lease's own.
DeadOwnerReleasable(p) ==
    LET r == Disk(p)[Proj(p)] IN
    /\ NoContact(p)
    /\ \A d \in r.res :
        /\ LockFree(p, d)
        /\ \/ Disk(p)[d].st \in {"none", "released"}
           \/ Disk(p)[d].st = "active" /\ Disk(p)[d].proj = Proj(p) /\ Disk(p)[d].lids = r.lids

DeadOwnerBatches(p) ==
    LET res == Disk(p)[Proj(p)].res
    IN  <<Batch(res, ReleasedRecord(p, res, 0)), Proj(p) :> ReleasedRecord(p, res, 0)>>

-----------------------------------------------------------------------------
(* `acquire`.                                                              *)

\* `settle_external_recovery` has something to learn.
SignedElsewhere(p) ==
    LET m == mem[p] IN
    /\ m.blocked /\ m.leases = {} /\ ~HasProject(p) /\ m.qid # 0
    /\ Disk(p)[Proj(p)].st = "released" /\ Disk(p)[Proj(p)].rqid = m.qid

Settled(p) == IF SignedElsewhere(p) THEN [Unblocked(mem[p]) EXCEPT !.incLeases = {}] ELSE mem[p]

\* Mutation: a recovery-class flag is not asked for.
MayAcquireAlways(p, D, forRecovery) ==
    /\ Open(p) /\ D # {}
    /\ Settled(p).run # {} => D \cap Physical \subseteq Settled(p).run
    /\ HasProject(p) \/ LockFree(p, Proj(p))

\* The refusals before any lock: an undeclared device of a run, a standing halt,
\* a project lock somebody else holds.
MayAcquire(p, D, forRecovery) ==
    /\ Open(p) /\ D # {}
    /\ Settled(p).run # {} => D \cap Physical \subseteq Settled(p).run
    /\ Stands(Settled(p)) => forRecovery
    /\ HasProject(p) \/ LockFree(p, Proj(p))

\* Taking the project lock: `dead` says the dead owner's devices are released;
\* otherwise a record that is not released is adopted.
Entered(p, D, dead) ==
    LET m == Settled(p)
        r == Disk(p)[Proj(p)]
        adopts == ~HasProject(p) /\ ~dead /\ r.st \notin {"none", "released"}
    IN  [m |-> IF adopts THEN Adopt(m, r, IF r.res = {} THEN D ELSE r.res, FreshQid) ELSE m,
         W |-> IF dead THEN DeadOwnerBatches(p) ELSE <<>>,
         adopted |-> adopts]

\* The dead owner's devices are released if they can be; the ledger line of it
\* may fail to be written, and then the record is adopted.
DeadOwnerChoices(p) == IF ~HasProject(p) /\ DeadOwnerReleasable(p) THEN BOOLEAN ELSE {FALSE}

\* The adopted project record carries an audit halt: it is rewritten, its
\* resources are marked, and the call is refused.  Where a resource cannot be
\* marked the exception leaves the project lock behind.
AcquireProjectHalted(p, D) ==
    LET e == Entered(p, D, FALSE)
        r == Disk(p)[Proj(p)]
        res == IF r.res = {} THEN D ELSE r.res
    IN  /\ e.adopted /\ e.m.audit
        /\ Finish(p, <<AdoptedRecord(p, r, e.m), Mark(p, Disk(p), e.m, res)>>, e.m,
                  locks[p] \cup (IF Markable(p, Disk(p), res) = res THEN {} ELSE {Proj(p)}), bench)
        /\ UNCHANGED <<deploy, report, touched, halted>>

\* Mutation: the project a resource's record belongs to is not compared.
PassesForeign(p, disk, m, D, stop) ==
    \A d \in D : d < stop => LockFree(p, d) /\ (Inherited(p, disk, d) => ~m.audit /\ ~disk[d].audit)

\* The walk over the resources has passed those of D below `stop`: each was
\* free, and its unreleased record was this project's and carried no halt.
Passes(p, disk, m, D, stop) ==
    \A d \in D : d < stop =>
        /\ LockFree(p, d)
        /\ ~Foreign(p, disk, d)
        /\ Inherited(p, disk, d) => ~m.audit /\ ~disk[d].audit

Adopted(p, disk, m, D, stop) == AdoptAll(m, disk, {d \in D : d < stop /\ Inherited(p, disk, d)}, FreshQid)

\* What the `except` branch writes when this call had taken the project lock.
GiveUpBatch(p, m, D) ==
    IF HasProject(p) THEN <<>>
    ELSE <<ProjectBatch(p, m, IF m.blocked THEN "cleanup_required" ELSE "released",
                        IF m.blocked THEN m.incRes ELSE D)>>

\* Refused at a resource (locked for the moment or for longer, or under another
\* project's incident), or by the bench at the end of the walk.
AcquireRefused(p, D, dead, stop) ==
    LET e == Entered(p, D, dead)
        disk == Written(Disk(p), e.W, Len(e.W))
        m == Adopted(p, disk, e.m, D, stop)
    IN  /\ ~(e.adopted /\ e.m.audit)
        /\ Passes(p, disk, e.m, D, stop)
        /\ stop \in D \/ ~BenchFree(p, D)
        /\ Finish(p, e.W \o GiveUpBatch(p, m, D), m, locks[p], bench)
        /\ UNCHANGED <<deploy, report, touched, halted>>

\* A resource record carries an audit halt, or this owner's halt meets an
\* unreleased record of its own project.
AcquireResourceHalted(p, D, dead, stop) ==
    LET e == Entered(p, D, dead)
        disk == Written(Disk(p), e.W, Len(e.W))
        m == Adopted(p, disk, e.m, D, stop + 1)
        res == IF disk[stop].res = {} THEN {stop} ELSE disk[stop].res
    IN  /\ ~(e.adopted /\ e.m.audit)
        /\ Passes(p, disk, e.m, D, stop)
        /\ LockFree(p, stop) /\ Inherited(p, disk, stop) /\ m.audit
        /\ Finish(p, e.W \o <<ProjectBatch(p, m, "cleanup_required", res), Mark(p, disk, m, res)>>
                         \o GiveUpBatch(p, m, D), m, locks[p], bench)
        /\ UNCHANGED <<deploy, report, touched, halted>>

\* Every resource is taken, the bench holds the physical ones, and the lease is
\* registered and written down.
AcquireGranted(p, D, forRecovery, dead, scoped) ==
    LET e == Entered(p, D, dead)
        disk == Written(Disk(p), e.W, Len(e.W))
        all == 1 + Cardinality(Resources)
        l == [id |-> FreshLid, res |-> D, locks |-> D, st |-> "active", auditOk |-> TRUE,
              reasons |-> {}, qid |-> 0, scoped |-> scoped, ended |-> FALSE]
        adopted == Adopted(p, disk, e.m, D, all)
        m == [adopted EXCEPT !.leases = @ \cup {l}]
    IN  /\ MayAcquire(p, D, forRecovery) /\ IdsLeft
        /\ Cardinality(e.m.leases) < MaxLeases /\ Cardinality(D) <= MaxRes
        /\ ~(e.adopted /\ e.m.audit)
        /\ Passes(p, disk, e.m, D, all)
        /\ BenchFree(p, D)
        /\ Finish(p, e.W \o <<LeaseBatch(p, l, "active", {}), ProjectDefault(p, m, "active")>>, m,
                  locks[p] \cup D \cup {Proj(p)}, BenchPlus(p, D))
        /\ touched' = touched \ {l.id}
        /\ UNCHANGED <<deploy, report, halted>>

\* Only a halt that stands makes the recovery class of a call matter.
Acquire(p) == \E D \in SUBSET Resources, forRecovery \in {FALSE, Stands(Settled(p))} :
    /\ MayAcquire(p, D, forRecovery) /\ Cardinality(D) <= MaxRes /\ IdsLeft
    /\ \/ AcquireProjectHalted(p, D)
       \/ \E dead \in DeadOwnerChoices(p) :
            \/ \E stop \in D \cup {1 + Cardinality(Resources)} :
                    AcquireRefused(p, D, dead, stop)
            \/ \E stop \in D : AcquireResourceHalted(p, D, dead, stop)
            \/ \E scoped \in IF "report" \in Uses THEN BOOLEAN ELSE {FALSE} :
                    AcquireGranted(p, D, forRecovery, dead, scoped)

-----------------------------------------------------------------------------
(* A lease in use, and its release.                                        *)

\* The call reaches the hardware; a call-scoped lease's call ends with its report.
Contact(p, l) ==
    /\ "report" \in Uses
    /\ Valid(p, l) /\ ~l.ended
    /\ touched' = touched \cup {l.id}
    /\ UNCHANGED <<deploy, procVars, rec, report, halted>>

\* The report names the lease and says `not_started` with no contact marker, for
\* a tool whose lease does not outlive its call.
NoContactClaim(l) == l.st = "active" /\ l.scoped

\* The backend commits the report of a call.  A report may say `not_started`
\* only of a call that did not begin; a session's later call may say so of itself.
Report(p, l, notStarted) ==
    /\ "report" \in Uses
    /\ Valid(p, l) /\ ~l.ended
    /\ notStarted => l.id \notin touched \/ ~l.scoped
    /\ report' = [report EXCEPT ![Proj(p)] =
            [lid |-> l.id, claim |-> IF notStarted /\ NoContactClaim(l) THEN "no_contact" ELSE "none"]]
    /\ mem' = [mem EXCEPT ![p].leases = (@ \ {l}) \cup {[l EXCEPT !.ended = l.scoped]}]
    /\ UNCHANGED <<deploy, up, locks, bench, rec, touched, halted>>

\* `_release_retryable`.
Retryable(l) == l.st = "cleanup_required" /\ l.auditOk /\ l.reasons = {"lease_release_unconfirmed"}

\* Mutation: the project is released over its other leases.
ReleasedOverSibling(p, l) ==
    LET m == [mem[p] EXCEPT !.leases = @ \ {l}, !.incRes = @ \ l.res]
    IN  [W |-> <<Batch(l.res, ReleasedRecord(p, l.res, 0)), ProjectBatch(p, m, "released", l.res)>>,
         m |-> IF m.incRes # {} \/ Sick(m.leases) # {} THEN m ELSE Unblocked(m),
         L |-> locks[p] \ (l.locks \cup (IF m.leases = {} THEN {Proj(p)} ELSE {}))]

\* The clean half of `release_lease`.  What the lease leaves of the incident, and
\* the leases still in it, keep the project blocked.
Released(p, l) ==
    LET rest == mem[p].leases \ {l}
        residual == mem[p].incRes \ l.res
        m == [mem[p] EXCEPT !.leases = rest, !.incRes = residual]
        blocked == Sick(rest) # {} \/ residual # {}
        after == residual \cup ResOf(rest)
        first == Batch(l.res, ReleasedRecord(p, l.res, 0))
    IN  [W |-> IF blocked
               THEN <<first, ProjectBatch(p, m, "cleanup_required", after),
                      LeaseBatches(p, Sick(rest), after)>>
               ELSE <<first, ProjectBatch(p, m, IF rest # {} THEN "active" ELSE "released",
                                          IF rest # {} THEN ResOf(rest) ELSE l.res)>>,
         m |-> IF blocked THEN [m EXCEPT !.blocked = TRUE] ELSE Unblocked(m),
         L |-> locks[p] \ (l.locks \cup (IF rest = {} /\ residual = {} THEN {Proj(p)} ELSE {}))]

ReleaseLease(p, l) ==
    LET r == Released(p, l) IN
    /\ Valid(p, l) /\ (l.st = "active" \/ Retryable(l))
    /\ Finish(p, r.W, r.m, r.L, BenchLess(p, l.res))
    /\ UNCHANGED <<deploy, report, touched, halted>>

\* A record write or an unlock of the release raises after n batches: the lease
\* is quarantined for the retry, keeping the locks it has left.  The quarantine's
\* own writes may fail as well.  The call's report is written again.
ReleaseFault(p, l, n, lost, writable) ==
    LET r == Released(p, l)
        kept == [l EXCEPT !.locks = @ \ lost]
        m == [mem[p] EXCEPT !.leases = (@ \ {l}) \cup {kept}]
        q == Quarantine(p, m, kept, "lease_release_unconfirmed", FALSE)
    IN  /\ "fault" \in Uses
        /\ Valid(p, l) /\ (l.st = "active" \/ Retryable(l)) /\ IdsLeft
        /\ n \in 0..Len(r.W)
        /\ lost # {} => n = Len(r.W)
        /\ Finish(p, SubSeq(r.W, 1, n) \o (IF writable THEN q.W ELSE <<>>), q.m,
                  locks[p] \ lost, bench)
        /\ report' = [report EXCEPT ![Proj(p)] =
                IF up'[p] /\ @.lid = l.id THEN [@ EXCEPT !.claim = "none"] ELSE @]
        /\ UNCHANGED <<deploy, touched, halted>>

\* `hand_over_to_incident`: a closed session's lease joins the standing incident
\* and its locks go back.
HandOver(p, l) ==
    LET m == [mem[p] EXCEPT !.leases = @ \ {l}, !.incLeases = @ \cup {[l EXCEPT !.locks = {}]}]
    IN  /\ Valid(p, l) /\ Stands(mem[p]) /\ l.st = "cleanup_required"
        /\ Finish(p, <<LeaseBatch(p, l, l.st, m.incRes), ProjectDefault(p, m, "cleanup_required")>>,
                  m, locks[p] \ (l.locks \cup (IF m.leases = {} THEN {Proj(p)} ELSE {})),
                  BenchLess(p, l.res))
        /\ UNCHANGED <<deploy, report, touched, halted>>

-----------------------------------------------------------------------------
(* How an incident ends without an operator.                               *)

\* Mutation: a settled lease is taken for a released one.
HealedReleased(l) == [l EXCEPT !.st = "released", !.reasons = {}, !.qid = 0]

Healed(l) == [l EXCEPT !.st = "active", !.reasons = {}, !.qid = 0]

\* The leading resources of D, in sorted order, whose locks are free.
FreeRun(p, D) == {d \in D : \A e \in D : e <= d => LockFree(p, e)}

\* Mutation: an audit halt is stood down as well.
MayStandDownAny(p) == Open(p) /\ mem[p].blocked

MayStandDown(p) == Open(p) /\ mem[p].blocked /\ ~mem[p].audit

\* `stand_down`: the ledger has its line; each resource no lease holds is locked
\* and written `released`, then the leases and the project are.  Where a lock is
\* refused the incident stays, with what was written.  Neither the project lock
\* nor a record on disk is asked for.
StandDown(p) ==
    LET m == mem[p]
        todo == m.incRes \ ResOf(m.leases)
        ok == FreeRun(p, todo)
        healed == {Healed(l) : l \in m.leases}
        m2 == [Unblocked(m) EXCEPT !.leases = healed]
        gone == ReleasedRecord(p, m.incRes, 0)
        rest == IF m.leases = {} THEN <<Proj(p) :> gone>>
                ELSE <<LeaseBatches(p, healed, {}), ProjectDefault(p, m2, "active")>>
    IN  /\ MayStandDown(p)
        /\ IF ok = todo
           THEN Finish(p, <<Batch(todo, gone)>> \o rest, m2,
                       locks[p] \ (IF m.leases = {} THEN {Proj(p)} ELSE {}), bench)
           ELSE Finish(p, <<Batch(ok, gone)>>, m, locks[p], bench)
        /\ UNCHANGED <<deploy, report, touched, halted>>

\* Mutation: a lease whose audit broke is healed like any other.
RetryClearsAudit(m, l, reason) ==
    /\ l.st = "cleanup_required" /\ l.reasons \subseteq {reason} /\ reason \in Retryables

\* What `resolve_retryable_cleanup` demands of the lease.
RetryClears(m, l, reason) ==
    /\ l.st = "cleanup_required" /\ l.auditOk
    /\ l.reasons \subseteq {reason} /\ reason \in Retryables

\* The leases of S are settled: the owner is blocked by those still in cleanup
\* alone.
Settle(m, S) ==
    LET m1 == [m EXCEPT !.leases = (@ \ S) \cup {Healed(l) : l \in S}]
    IN  IF Sick(m1.leases) = {} THEN Unblocked(m1) ELSE m1

Resolved(p, m, l) ==
    LET m2 == Settle(m, {l})
    IN  [m |-> m2, W |-> <<LeaseBatch(p, Healed(l), "active", {}),
                           ProjectDefault(p, m2, IF m2.blocked THEN "cleanup_required" ELSE "active")>>]

\* A session's own later success settles its lease.
ResolveLease(p, l, reason) ==
    LET r == Resolved(p, mem[p], l) IN
    /\ Valid(p, l) /\ RetryClears(mem[p], l, reason)
    /\ Finish(p, r.W, r.m, locks[p], bench)
    /\ UNCHANGED <<deploy, report, touched, halted>>

\* `_incident_reasons` is this one reason: every lease is in cleanup for it, none
\* with a broken audit, and they hold the whole incident.
LeasedReason(p, reason) ==
    LET m == mem[p] IN
    /\ m.blocked /\ m.leases # {}
    /\ \A l \in m.leases : l.st # "active" /\ l.auditOk
    /\ HasProject(p) /\ m.incRes \subseteq ResOf(m.leases)
    /\ UNION {l.reasons : l \in m.leases} = {reason}

\* `resolve_retryable_incident` with leases settles them one by one.
ResolveIncident(p, reason) ==
    LET m == mem[p]
        N == Cardinality(m.leases)
        step(k) == Resolved(p, Settle(m, Leading(m.leases, k - 1)), Nth(m.leases, k))
    IN  /\ Open(p) /\ reason \in Policy /\ LeasedReason(p, reason)
        /\ Finish(p, [n \in 1..(2 * N) |-> step((n + 1) \div 2).W[1 + ((n - 1) % 2)]],
                  Settle(m, m.leases), locks[p], bench)
        /\ UNCHANGED <<deploy, report, touched, halted>>

-----------------------------------------------------------------------------
(* `recover`: the signature on a standing incident.                        *)

\* Mutation: a marker that already carries this very signature is refused.
MarkerSignableOnce(p, d, q, res) ==
    LET marker == Disk(p)[d] IN
    \/ marker.st = "active" /\ marker.proj = Proj(p)
    \/ /\ marker.st \in {"cleanup_required", "quarantined"}
       /\ marker.qid = q /\ marker.proj = Proj(p)
       /\ d \in marker.res /\ marker.res \subseteq res

\* A resource marker `recover` accepts under the incident q over res.
MarkerSignable(p, d, q, res) ==
    LET marker == Disk(p)[d] IN
    \/ marker.st = "released" /\ marker.rqid = q
    \/ marker.st = "active" /\ marker.proj = Proj(p)
    \/ /\ marker.st \in {"cleanup_required", "quarantined"}
       /\ marker.qid = q /\ marker.proj = Proj(p)
       /\ d \in marker.res /\ marker.res \subseteq res

\* The project's record names the incident q, and every marker agrees.
Signable(p, q) ==
    LET r == Disk(p)[Proj(p)] IN
    /\ q # 0 /\ r.st \in Standing /\ r.qid = q /\ r.proj = Proj(p)
    /\ \A d \in r.res : MarkerSignable(p, d, q, r.res)

\* Mutation: the released records do not carry the signature.
SignaturesUnsigned(p, q) ==
    LET r == Disk(p)[Proj(p)]
        gone == ReleasedRecord(p, r.res, 0)
    IN  <<Proj(p) :> [r EXCEPT !.st = "recovery_pending"], Batch(r.res, gone), Proj(p) :> gone>>

\* The project record goes to recovery_pending, every marker is released under q,
\* and last the project record is.  Run again after a crash it resumes.
Signatures(p, q) ==
    LET r == Disk(p)[Proj(p)]
        gone == ReleasedRecord(p, r.res, q)
    IN  <<Proj(p) :> [r EXCEPT !.st = "recovery_pending"], Batch(r.res, gone), Proj(p) :> gone>>

\* What `recover` asks of the locks, once p's own project lock is L less.
RecoverUnlocked(p) ==
    /\ \A q \in Procs \ {p} : Root(q) = Root(p) => Proj(p) \notin locks[q]
    /\ \A d \in Disk(p)[Proj(p)].res : LockFree(p, d)

Cleared(m) == [Unblocked(m) EXCEPT !.incLeases = {}]

\* The operator signs, at a shell or through `hardware_recover`, for an incident
\* that stands: in this owner's memory or on the project record.
Recover(p, q) ==
    /\ Stands(mem[p]) \/ Disk(p)[Proj(p)].audit
    /\ Open(p) /\ mem[p].leases = {} /\ ~HasProject(p)
    /\ RecoverUnlocked(p) /\ Signable(p, q)
    /\ Finish(p, Signatures(p, q), Cleared(mem[p]), locks[p], bench)
    /\ halted' = [halted EXCEPT ![Proj(p)] = FALSE]
    /\ UNCHANGED <<deploy, report, touched>>

\* `_adopted_incident_reasons` is this one reason: no lease of the record has a
\* broken audit, and the record covers the incident.
AdoptedReason(p, reason) ==
    LET m == mem[p]
        r == Disk(p)[Proj(p)]
    IN  /\ m.blocked /\ m.leases = {} /\ m.qid # 0
        /\ r.st \in Standing /\ r.qid = m.qid /\ r.proj = Proj(p)
        /\ ~r.audit /\ r.res # {} /\ m.incRes \subseteq r.res
        /\ r.reasons = {reason}

\* The machine's own recovery of an adopted incident goes through `recover`, after
\* giving the project lock back; `recover` may then refuse.
ResolveAdopted(p, reason) ==
    LET free == locks[p] \ {Proj(p)}
        q == mem[p].qid
    IN  /\ Open(p) /\ reason \in Policy /\ AdoptedReason(p, reason)
        /\ IF RecoverUnlocked(p) /\ Signable(p, q)
           THEN Finish(p, Signatures(p, q), Cleared(mem[p]), free, bench)
           ELSE Completed(p, <<>>, mem[p], free, bench)
        /\ UNCHANGED <<deploy, report, touched, halted>>

\* `retire_records`, in a process of its own: every unreleased record of this
\* project is set aside and written released; a neighbour's is left alone.
Retire(p) ==
    LET disk == Disk(p)
        mine == {i \in Resources \cup {Proj(p)} :
                    disk[i].st \notin {"none", "released"} /\ disk[i].proj = Proj(p)}
        q == IF disk[Proj(p)].st \in Standing THEN disk[Proj(p)].qid ELSE 0
        gone == ReleasedRecord(p, mine \ {Proj(p)}, q)
    IN  /\ "retire" \in Uses
        /\ Open(p) /\ mem[p] = Fresh /\ locks[p] = {} /\ mine # {}
        /\ \A i \in Resources \cup {Proj(p)} : LockFree(p, i)
        /\ Finish(p, <<Batch(mine \cap {Proj(p)}, gone), Batch(mine \ {Proj(p)}, gone)>>,
                  mem[p], {}, bench)
        /\ halted' = [halted EXCEPT ![Proj(p)] = FALSE]
        /\ UNCHANGED <<deploy, report, touched>>

-----------------------------------------------------------------------------
(* `poison`, `status` and `close`.                                         *)

\* Without a lease the incident stands on the owner and the project record.
Poison(p, audit, D, reason) ==
    LET m == mem[p]
        all == QuarantineAll(p, m, m.leases, reason, audit)
        m2 == [m EXCEPT !.qid = IF @ # 0 THEN @ ELSE FreshQid, !.blocked = TRUE,
                        !.audit = @ \/ audit, !.incRes = @ \cup D]
        takes == HasProject(p) \/ LockFree(p, Proj(p))
    IN  /\ Open(p) /\ IdsLeft
        /\ IF m.leases # {} THEN Finish(p, all.W, all.m, locks[p], bench)
           ELSE IF takes
           THEN Finish(p, <<ProjectBatch(p, m2, "cleanup_required", m2.incRes)>>, m2,
                       locks[p] \cup {Proj(p)}, bench)
           ELSE Completed(p, <<>>, m2, locks[p], bench)
        /\ halted' = [halted EXCEPT ![Proj(p)] = @ \/ (up'[p] /\ audit)]
        /\ UNCHANGED <<deploy, report, touched>>

\* `status` settles what it finds: a signature given elsewhere, and, where no
\* owner lives, a dead one's active record.
Status(p) ==
    LET m == Settled(p)
        r == Disk(p)[Proj(p)]
        m2 == Adopt(m, r, r.res, FreshQid)
        orphan == ~HasProject(p) /\ LockFree(p, Proj(p)) /\ r.st = "active"
    IN  /\ Open(p) /\ IdsLeft
        /\ \/ ~orphan /\ m # mem[p] /\ Completed(p, <<>>, m, locks[p], bench)
           \/ /\ orphan /\ DeadOwnerReleasable(p)
              /\ Finish(p, DeadOwnerBatches(p), m, locks[p], bench)
           \/ /\ orphan
              /\ Finish(p, <<AdoptedRecord(p, r, m2), Mark(p, Disk(p), m2, r.res)>>, m2, locks[p], bench)
        /\ UNCHANGED <<deploy, report, touched, halted>>

\* `close`: an open lease is quarantined, everything is let go; the process ends.
Close(p) ==
    LET m == mem[p]
        q == QuarantineAll(p, m, m.leases \ Sick(m.leases), OwnerClosed, FALSE)
        closed == [q.m EXCEPT !.leases = {[l EXCEPT !.st = "quarantined"] : l \in @}]
    IN  /\ Open(p) /\ IdsLeft
        /\ rec' = [rec EXCEPT ![Root(p)] =
                IF m.leases = {} THEN @
                ELSE Written(@, q.W \o <<LeaseBatches(p, closed.leases, closed.incRes),
                                         ProjectDefault(p, closed, "quarantined")>>, Len(q.W) + 2)]
        /\ Dies(p)
        /\ UNCHANGED <<deploy, report, touched, halted>>

-----------------------------------------------------------------------------
(* Declared runs and the hold of a machine recovery.                       *)

BeginRun(p, D) ==
    /\ "run" \in Uses
    /\ Open(p) /\ mem[p].run = {} /\ ~Stands(mem[p])
    /\ D # {} /\ BenchFree(p, D)
    /\ Completed(p, <<>>, [mem[p] EXCEPT !.run = D], locks[p], BenchPlus(p, D))
    /\ UNCHANGED <<deploy, report, touched, halted>>

EndRun(p) ==
    /\ Open(p) /\ mem[p].run # {}
    /\ Completed(p, <<>>, [mem[p] EXCEPT !.run = {}], locks[p], BenchLess(p, mem[p].run))
    /\ UNCHANGED <<deploy, report, touched, halted>>

\* `hold_for_recovery` of an incident the machine may recover: the locks of the
\* resources no own lease holds, and one bench hold on each.
Hold(p) ==
    LET D == mem[p].incRes
        take == D \ ResOf(mem[p].leases)
    IN  /\ "hold" \in Uses
        /\ Open(p) /\ mem[p].hold = {} /\ D # {}
        /\ \E reason \in Policy : LeasedReason(p, reason) \/ AdoptedReason(p, reason)
        /\ \A d \in take : LockFree(p, d) /\ ~Foreign(p, Disk(p), d)
        /\ BenchFree(p, D)
        /\ Completed(p, <<>>, [mem[p] EXCEPT !.hold = D, !.holdLocks = take],
                     locks[p] \cup take, BenchPlus(p, D))
        /\ UNCHANGED <<deploy, report, touched, halted>>

ReleaseHold(p) ==
    /\ Open(p) /\ mem[p].hold # {}
    /\ Completed(p, <<>>, [mem[p] EXCEPT !.hold = {}, !.holdLocks = {}],
                 locks[p] \ mem[p].holdLocks, BenchLess(p, mem[p].hold))
    /\ UNCHANGED <<deploy, report, touched, halted>>

-----------------------------------------------------------------------------
Crash(p) ==
    /\ up[p] /\ Dies(p)
    /\ UNCHANGED <<deploy, rec, report, touched, halted>>

Restart(p) ==
    /\ ~up[p]
    /\ up' = [up EXCEPT ![p] = TRUE]
    /\ UNCHANGED <<deploy, mem, locks, bench, rec, report, touched, halted>>

LeaseStep(p, l) ==
    \/ \E reason \in Reasons, broken \in AuditBreaks :
            QuarantineLease(p, l, reason, broken \/ reason = "audit_broken")
    \/ Contact(p, l)
    \/ \E notStarted \in BOOLEAN : Report(p, l, notStarted)
    \/ ReleaseLease(p, l)
    \/ \E n \in 0..3, lost \in SUBSET l.locks, writable \in BOOLEAN :
            ReleaseFault(p, l, n, lost, writable)
    \/ HandOver(p, l)
    \/ \E reason \in Retryables : ResolveLease(p, l, reason)

OwnerStep(p) ==
    \/ Acquire(p)
    \/ \E l \in mem[p].leases : LeaseStep(p, l)
    \/ StandDown(p)
    \/ \E reason \in Policy : ResolveIncident(p, reason) \/ ResolveAdopted(p, reason)
    \/ \E call \in Poisons, reason \in Reasons : Poison(p, call[1], call[2], reason)
    \/ \E D \in SUBSET Physical : BeginRun(p, D)
    \/ EndRun(p)
    \/ Hold(p)
    \/ ReleaseHold(p)
    \/ Close(p)

AnyStep(p) ==
    \/ \E q \in Ids : Recover(p, q)
    \/ Retire(p)
    \/ Status(p)
    \/ Crash(p)
    \/ Restart(p)

Next ==
    \/ \E p \in Owners : OwnerStep(p)
    \/ \E p \in Procs : AnyStep(p)

Spec == Init /\ [][Next]_vars

-----------------------------------------------------------------------------
(* Properties.                                                             *)

\* One lease per resource on a state_root, and one per physical device across
\* projects that share nothing but the machine.
SingleDriver ==
    \A p, q \in DOMAIN mem : \A l \in mem[p].leases, k \in mem[q].leases :
        p # q \/ l # k =>
            IF Root(p) = Root(q) THEN l.res \cap k.res = {} ELSE l.res \cap k.res \cap Physical = {}

\* Every hold in the bench is owed to one run, one lease or one recovery, and
\* the other way round: no path leaks a device or lets one go twice.
BenchBalance ==
    \A p \in DOMAIN bench : \A d \in DOMAIN bench[p] :
        bench[p][d] = Cardinality({l \in mem[p].leases : d \in l.res})
                      + (IF d \in mem[p].run THEN 1 ELSE 0) + (IF d \in mem[p].hold THEN 1 ELSE 0)

\* Nothing is driven by two, and no device is held for nobody.
LeasesAccounted == SingleDriver /\ BenchBalance

\* What a process's death would leave on disk while it owns an active lease:
\* the lease's own marker on each resource, and a project record that names it.
LeaseOnDisk ==
    \A p \in Procs : \A l \in mem[p].leases :
        l.st = "active" =>
            /\ \A d \in l.res : Disk(p)[d].st = "active" /\ Disk(p)[d].lids = {l.id}
            /\ Disk(p)[Proj(p)].st \notin {"none", "released"}
            /\ l.id \in Disk(p)[Proj(p)].lids

\* A dead owner's devices are given back without a look at the board only where
\* no call under its lease ever reached them.
DeadOwnerHarmless ==
    \A p \in Procs : LockFree(p, Proj(p)) /\ DeadOwnerReleasable(p)
        => Disk(p)[Proj(p)].lids \cap touched = {}

\* While an audit halt a lease raised is unsigned, no owner of the project,
\* whichever restarted, adopted or resolved, is granted an ordinary lease.
GatedStep ==
    \A p \in Procs : halted[Proj(p)] /\ mem'[p].leases # mem[p].leases =>
        ~\E D \in (SUBSET Resources) \ {{}}, dead, scoped \in BOOLEAN :
            AcquireGranted(p, D, FALSE, dead, scoped) /\ up'[p]
HaltGatesStimulus == [][GatedStep]_vars

\* An audit halt outlives its owner: while it is unsigned, a live owner stands
\* halted or the project record carries it to the next one.
HaltKept ==
    \A j \in Projects : halted[j] =>
        \/ rec[RootOf(j)][j].st \notin {"none", "released"} /\ rec[RootOf(j)][j].audit
        \/ \E p \in Procs : Proj(p) = j /\ up[p] /\ Stands(mem[p])

\* An incident's marker on a resource is only ever replaced by its own project.
ForeignStep ==
    \A t \in Roots, d \in Resources :
        rec[t][d].st \in Standing => rec'[t][d].proj = rec[t][d].proj
ForeignRecordUntouched == [][ForeignStep]_vars

\* A recovery the process died in can be run again to its end.
RecoverResumable ==
    \A p \in Procs :
        LET r == Disk(p)[Proj(p)] IN
        r.st = "recovery_pending" /\ LockFree(p, Proj(p)) => Signable(p, r.qid)

\* An audit halt on disk that nobody holds is one the operator can sign.
HaltSignable ==
    \A p \in Procs :
        LET r == Disk(p)[Proj(p)] IN
        r.st \in Standing /\ r.audit /\ LockFree(p, Proj(p)) => Signable(p, r.qid)

\* A blocked owner that has given its locks back still learns how its incident
\* ended: the project record names it, or carries its signature.
SignatureLearned ==
    \A p \in Procs :
        LET r == Disk(p)[Proj(p)] IN
        Stands(mem[p]) /\ mem[p].leases = {} /\ ~HasProject(p)
            => (r.st \in Standing /\ r.qid = mem[p].qid) \/ SignedElsewhere(p)
=============================================================================
