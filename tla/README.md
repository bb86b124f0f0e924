# Verification of agentic-hil

TLA+ models of agentic-hil, the service that lets agents, scripts and people
share hardware-in-the-loop benches: boards, debug probes, serial ports, CAN
adapters and power supplies. All paths are relative to the repository; the
Python sources are under `src/agentic_hil/` (written `src/src/...` in
`PROJECT.json`).

## 1. Inventory

| Component | Sources | State | Operations | What is hard | What makes it correct |
|---|---|---|---|---|---|
| Device mutex | `bench.py` | kernel file locks, counted holds of one process, a holder record per device | `acquire`, `acquire_named`, `release`, `release_all`, heartbeat | processes that race, wait, time out and die; several devices at once | one owner per device; an acquire is all or nothing; a death frees its devices and is reported |
| Hardware coordinator | `coordination.py` | leases, the incident in memory, project and resource records under `state_root`, locks, the bench | acquire, release, quarantine, hand-over, adoption, stand-down, resolution, recover, retire, poison, status, close, runs, recovery holds | crashes between record writes, owners adopting each other's incidents, several projects on one directory | one lease per device; an audit halt holds until it is signed for; a recovery can be finished after a crash; neighbours are left alone |
| Hardware tool service | `tools.py`, `mcp.py`, `stdio.py` | open sessions, the quarantined lease, life cycle | tool calls, each a sequence of coordinator calls; machine recovery at the end of a call | a failure at any stage of a call | every path ends in a release, a quarantine or a kept session |
| Run life cycle | `runlifecycle.py`, `reactorrun.py` | per handle a record, a stop request, a lock; the run's registration; the start command's watch | start, register, publish, finish, ask, list, stop, prune | readers, starts and prunes look at three files in separate steps while runs come, go and die | a run that ended says how; nobody calls a live or ended run gone; no prune takes a live run's files; a stop ends the run |
| Audit reports | `report.py` | report state, a copy per run, ledger, one-time warning | commit, recommit, stage, promote, revoke | several writers, writes that land and raise, a death between two files | the answer and the trusted records agree; an audited copy is never lost |
| CAN broker | `canbroker.py` | bus lock, descriptor and key files, broker process, seats, queues, budgets, the whole-bus log | find, start, attach, detach, send, read, incident | clients and brokers that race and die; adapter read outside the guard | one broker per bus, given back when unused; losses reported; an incident ends every run on the bus |
| CAN service | `can.py` | sessions over an adapter or a broker | start, send, read, stop | a dead bus | as the broker, for one run |
| Serial sessions | `comports.py`, `comstdio.py`, `readuntil.py` | session, drain thread, log writer, lease, audit log | start, write, read, stop | three threads on one port and one log; joins that time out; a log that breaks | the log tells the order on the line and is whole; a port given back is closed |
| Debug sessions | `backends/gdbdebug.py`, `gdbmi.py`, `debugger.py` | session, GDB and debug-server processes, kept stop, breakpoints, the lease | start with retries, breakpoints, continue, halt, status, stop, recovery | late answers and stops, processes that die between two commands, a clean-up that fails | what is said of the halt is so; a start that names no effect had none; no process is left that nothing names |
| Process registry | `process.py`, `bridge.py`, `stlink_server.py` | children and their groups | spawn, supervise, terminate, reap | children that ignore termination | nothing is reported reaped that still runs |
| Power supplies | `power_supply.py`, `rs3005p.py` | none between calls; the lease of a call, the set points and the output of the unit | status, set, output, cycle, each a conversation | a lost or late answer, a unit that does not follow, an operator at its panel | an answer is so or says what is in doubt; no output comes on above the limits |
| Configuration | `configreload.py`, `configstate.py`, `configwrite.py`, `config.py` | the file, its lock, what each server enforces | reload, agent write, `grant`, `revoke`, status | an editor that takes no lock; reloads that keep the grants of the start | an agent only narrows; a reload grants nothing; a grant lands beside no run; the status hides no difference |
| Test reactor | `test_reactor.py`, `runevidence.py`, `junit.py` | steps, verdict, evidence | run, abort, judge | an incident in the middle of a test | recovering never un-fails a test |
| Upgrade | `upgrade.py` | environments, marker files | stage, switch, verify, roll back | interruption at any stage | a working installation at every point |
| Adoption, bootstrap, devices, artifacts | `adopt.py`, `bootstrap.py`, `devices.py`, `device_access.py`, `artifacts.py`, `provisional.py` | provisional entries, staged firmware | inspect, adopt, stage | a read whose audit fails | nothing is configured from an unrecorded read |
| Probe back ends | `backends/*.py` | none between calls | one external program per call | output that must be judged | out of scope: parsing |
| Command line, texts, installers | `cli.py`, `humanize.py`, `knowledge.py`, `evals/`, `tools/` | none | | | out of scope: wording and I/O |

How they interact. A tool call enters `tools.py`, which takes a lease from the
coordinator for the resources it needs. The coordinator takes the project's
lock, one lock per resource under `state_root`, and the physical devices from
the machine-wide bench mutex; it writes the lease to a record per resource and
to the project's record. The back end does its work and commits a report. The
call then releases its lease, keeps it for a session, or quarantines it; at the
end of the call a machine recovery and a stand-down get their turn. A process
that dies leaves its records behind and its locks free, and the next owner
reads them.

## 2. Plan and modules

| Module | Models | State of the work |
|---|---|---|
| `DeviceLock` | the promise of the device mutex | done, refined by `BenchMutex` |
| `BenchMutex` | `bench.py` | done; everything but liveness proved (`BenchMutexProofs`) |
| `Coordination` | `coordination.py` | done; that each device has one driver and the bench is balanced is proved (`CoordinationProofs`) |
| `RunLifecycle` | `runlifecycle.py`, `reactorrun.py`, the step loop of `test_reactor.py` | done; everything but liveness proved (`RunLifecycleProofs`) |
| `CanBroker`, `CanFrames`, `CanFramesPromise` | `canbroker.py`: the rendezvous, and what a broker does for the seated | done; the safety of both proved (`CanBrokerProofs`) |
| `ReportCommit` | `write_report` of `report.py` | done; all safety properties proved (`ReportCommitProofs`) |
| `SerialSession`, `SerialPromise` | `comports.py`: session, threads, log, lease | without reads; safety proved (`SerialSessionProofs`) |
| `DebugSession`, `DebugSessionPromise` | `gdbdebug.py`, `gdbmi.py` and their lease in `tools.py` | without memory and symbol reads, mode load and companions; safety proved (in `BenchMutexProofs`) |
| `PowerSupply`, `PowerSupplyPromise` | `power_supply.py`, `rs3005p.py`, the end of a call in `tools.py` | without refusals before contact, protection and several channels; all properties proved (`PowerSupplyProofs`) |
| `ConfigChange` | `configwrite.py`, `configreload.py`, `configstate.py`, `grant` and `revoke` of `cli.py` | without regeneration and adoption; all properties proved (`ConfigChangeProofs`) |

The `MC` modules put instances side by side under one run: a variable (`part` or
`question`) says which instance a behaviour is of, the variables of the others
stay where they start, and a property of an instance is asked of its behaviours.
A `Promise` module holds the state that a component's properties speak of, and the
properties: the component's module extends it with the steps, and the `MC` module
with the run's own variables, so that the run checks what the theorems state.

| Run | Module | Instances |
|---|---|---|
| `Bench` | `MCBenchMutex` | `BenchMutex`; `DebugSession` |
| `Config` | `MCConfig` | `ConfigChange` with writers, and with editors; `BenchMutex` under fairness |
| `CoordRuns` | `MCCoordRuns` | four of `Coordination` |
| `RunLifecycle` | `MCRunLifecycle` | `RunLifecycle`, under fairness |
| `Server` | `MCServer` | `CanBroker`; `SerialSession`; `PowerSupply` |
| `Services` | `MCServices` | `ReportCommit`; `CanFrames`; `CanBroker` and `SerialSession` under fairness |
| `VPoisonLost`, `VHandOver`, `VForeign` | `MCCoordination` | `Coordination` |
| `VRunGone` | `MCRunLifecycle` | `RunLifecycle` |
| `VGrantsHidden` | `MCConfig` | `ConfigChange` with editors |
| `VAboveLimit` | `PowerSupply` | `PowerSupply` |

The runs whose name begins with `V` check one property each, which a document or
a comment of the repository states and the code does not keep.

A proof module extends its component's module, and holds the proofs of a second
component as an instance where the two belong together: `Frames` in
`CanBrokerProofs`, `Debug` in `BenchMutexProofs`, with whose locks a session is on a
probe.

Next: proofs about the records of `Coordination` (type correctness,
`LeaseOnDisk`, `HaltKept`); then the read side of `SerialSession`,
`ProcessRegistry`, the verdicts of `TestReactor`, `Upgrade`.

## 3. `BenchMutex`: the device mutex (`bench.py`)

`osLock` is what the kernel granted (`_LifetimeLock`), `holders` the counts of
`_held`, `holderFile` the `holder.json` beside the lock, `reclaimed` the
`reclaimed_from` of a held device. `acquire` is split where another process can
get in between: `AcquireStart` (validation and the guard), `TakeAgain` (a device
already held: the count goes up), `TakeLock` (the kernel grants it), `Register`
(`_held`, holder record, heartbeat), `TakeRefused` (busy, out of time or asked
to stop: what this call counted goes back). `Expire` and `AskStop` are the
clock and the stop event of a waiting call. `Release`, `ReleaseAll`, `Heartbeat`,
`Crash` and `Restart` are the rest. The holder record may fail to be written or
read at any time. The order of devices within a call is left open, which is more
than the code does.

`DeviceLock` is the abstract promise: a device has an owner or none; it is
taken when free and given back by its owner, several at once.

| Run | Checks | Bounds |
|---|---|---|
| `Bench` | `BenchTypeOK` (`TypeOK`); `MutualExclusion`: no two processes count one device; `HolderRecordExact`: the record names a live holder exactly, unless a write failed; `AllOrNothing`: an acquire that fails leaves the counts as they were; `ReclaimReported`: the first owner after a death knows of it; `ImplementsDeviceLock`: the mutex is `DeviceLock` | 2 owners, 2 devices, counts to 2 |
| `Config` | `CallEnds`: every acquire returns | 3 owners, 1 device |

Two devices are what a roll-back needs, counts to 2 what nesting needs, and a
third owner adds a second waiter. Fairness (`FairSpec`): a waiting thread polls
(`Take`) and its deadline is finite, `validated_wait` refuses any other
(`Expire`). No fairness is assumed of releases, of stop requests or of other
processes: a device may stay held for ever and the wait still ends.

`BenchMutexProofs` proves, for any set of owners and devices (and of `DebugSession`
what section 10 says):

* `TypeCorrect`: `Spec => []TypeOK`;
* `Exclusive`: `Spec => []MutualExclusion`;
* `AcquireAllOrNothing`: `Spec => AllOrNothing`;
* `RecordExact`: `Spec => []HolderRecordExact`;
* `ReclaimsReported`: `Spec => ReclaimReported`;
* `Implements`: `Spec => ImplementsDeviceLock`.

The inductive invariant adds to `TypeOK`: a device counted, or being registered,
is one whose kernel lock this owner has; a dead owner counts nothing; a device
counted by the running call was counted at least that often more than when the
call began (`base`). Exclusion follows since the kernel lock has one holder.
It is needed because `holders` alone does not say why two owners cannot both
count a device. For the records it adds `HolderRecordExact` itself and that nobody counts a device
a process died with. `ReclaimsReported` is the action property `ReclaimReported`.
Only liveness is left to the run.

## 4. `Coordination`: leases and incidents (`coordination.py`)

State: `mem[p]` is a `HardwareCoordinator` (incident: `blocked`, `audit_incident`,
`quarantine_id`, `incident_resources`, `incident_leases`, `adopted_reason`;
`leases`; the run's devices; the recovery hold), `locks` its project and resource
locks, `bench` the holds it has counted, `rec` the records on disk, `report` what
the project's last report says of a lease, `deploy` who serves which project on
which `state_root`. `touched` and `halted` are history: leases whose call reached
hardware, and projects with an unsigned audit halt.

A handler holds the coordinator's guard and tries each lock once, so it is one
step. Its record writes are not atomic: a handler is written as its list of
batches and `Finish` either completes it or, for processes in `Torn`, kills the
process after any prefix of the writes. `acquire` has four outcomes, each an
action: refused because the project record carries a halt, refused at a resource
or by the bench, refused because a resource record carries a halt, granted.
`release_lease` has its clean half and its `except` branch (`ReleaseFault`).
Everything else is one action per method: `QuarantineLease`, `HandOver`,
`StandDown`, `ResolveLease`, `ResolveIncident`, `ResolveAdopted`, `Recover`,
`Retire`, `Poison`, `Status`, `Close`, `BeginRun`, `EndRun`, `Hold`,
`ReleaseHold`; `Contact` and `Report` are what the back end does under a lease.
`Crash` and `Restart` are the operating system's.

Properties.

* `SingleDriver`: one lease per resource of a `state_root`, one per physical
  device across them.
* `BenchBalance`: each hold on the bench is owed to one run, lease or recovery.
* `LeaseOnDisk`: what a death would leave on disk names every active lease.
* `HaltKept`, `HaltGatesStimulus`: an audit halt survives its owner, and no
  ordinary lease is granted in its project until it is signed for.
* `HaltSignable`, `RecoverResumable`: an operator can sign every halt on disk
  that nobody holds, and finish a recovery that died.
* `SignatureLearned`: a halted owner that gave its locks back can tell that its
  incident was signed for.
* `DeadOwnerHarmless`: a dead owner's board is released unseen only where no
  call under its lease reached it.
* `ForeignRecordUntouched`: another project's incident marker is not overwritten.

The run `CoordRuns` asks four questions of it, each of an instance with the bounds that
let its hazard happen; `MCCoordRuns` names, for every property, the instances it is
asked of.

| Question | About | Bounds | Properties of the run |
|---|---|---|---|
| `incident` | every way through an incident, torn writes, failing releases | one owner and a command line, 1 resource, 1 lease | `AuditHaltKept`, `AuditSignatureWorks` (`HaltSignable` and `SignatureLearned`), `RecoveryResumable`, `AuditHaltGates` |
| `sessions` | two leases, audits breaking, hand-over and recovery-class calls | one owner, 2 resources, 2 leases of one resource each, no retryable reason | `AuditHaltKept`, `AuditHaltGates`, `DeathLeavesTruth` (`LeaseOnDisk`) |
| `shared` | who may drive what, across projects and directories | 2 owners, 1 shared device, ordinary reasons | `NeighbourUntouched` |
| `dead owner` | reports, deaths, incidents without a lease (`poison`) | one owner and a command line, 1 device | `DeathLeavesTruth` (`DeadOwnerHarmless`) |

`LeasesTypeOK` is the type invariant of all of them, and all are asked
`LeasesAccounted` (`SingleDriver` and `BenchBalance`), for which `shared` has the
owners and `sessions` the leases.

One resource is enough for the life of an incident; two leases are needed for an
incident that grows and shrinks; two owners for everything that reads another's
record. Ids are reused once nothing in the system names them: `MaxId` bounds how
many are in use at a time.

Where the code departs from its own documents, a run finds the counterexample:

* `VPoisonLost`: `poison` without a lease writes a record that does not say the
  audit broke. The owner ends, and the next one adopts an incident that stands
  for nothing; `adopt.py:1467` says this record is what survives the process.
* `VHandOver`: an audit-broken lease was handed over to the incident; settling
  another lease's retryable reason then finds no *registered* lease in cleanup
  and clears the halt unsigned.
* `VForeign`: a refused acquire adopts the requested resources, and the
  stand-down at the end of the same call writes `released` over the marker of
  the neighbour whose incident it was refused for.

The same module shows more of the kind under other constants: two owners of one
project (`Owners = {p1, p2}`, `HaltGatesStimulus`), where a refused adopter's
stand-down writes over the other owner's audit halt, or where the other's
acquire replaces the signature before the halted owner reads it
(`SignatureLearned`); `Poisons = {<<FALSE, {}>>}`, where a fresh owner's poison
replaces a standing halt; `Uses = {"fault"}` with two leases, where a release
that failed between two unlocks lets a second lease onto the device
(`SingleDriver`). Over two resources `HaltSignable` fails, since adopting a
second record replaces the incident's id; `TROUBLESHOOTING.md` documents the
refusal (`quarantine_changed`) and `--retire-records` as its way out, so the
halt properties are checked for the deployments where they are meant to hold.

`CoordinationProofs` proves, for any projects, processes, deployments, resources,
policies and bounds:

* `BenchIsBalanced`: `Spec => []BenchBalance`;
* `DeviceIsDrivenOnce`: no two processes have a lease on one physical device, on
  one `state_root` or on several, whatever dies, fails or is torn;
* `LeasesAreAccounted`: `NoFaults => (Spec => []LeasesAccounted)`.

The inductive invariant says that the bench counts of a device what the
process's leases, run and recovery hold owe (`Balanced`), that it counts a device
for one process at a time (`OneHolder`), and that a process's locks cover the
resources of its leases and of its recovery, each lease having its own, while no
two processes on one `state_root` have a lock in common (`LocksApart`). Two
leases of one process on one device count twice on the bench, so the first two
need nothing of the locks. The third does: `NoFaults` excludes a release that
fails between two of its unlocks, which leaves a lease on a resource whose lock is
free, and the same process may take it for a second lease; this is the
counterexample to `SingleDriver` named below. What is on disk plays no part in
these proofs. They do not reach the halt and recovery properties, which are all
about it.

Abstracted: configuration fingerprints and `accept_config_change`, the contents
of ledger lines (a line that cannot be written leaves the handler without effect,
which is the step not taken), file permissions, record formats, the refusals'
texts. Record writes fail only in `release_lease`. Not covered: `acquire`
failing to persist a registered lease (`coordination.py:1064-1079`).

## 5. `RunLifecycle`: runs that outlive their command (`runlifecycle.py`)

Three files name a run's handle, and every actor looks at them in separate
steps. `rec` is the state in the record (`write_run_record` replaces it by one
rename), `order` the records by date, `stop` the stop request, `aged` whether the
handle's files are past `orphan_sweep_window_s`, `lock` the worker's lifetime
lock: the file at the path, or one that a prune has unlinked under its holder.
`probing` says whose probe has a lock in hand: `worker_is_gone` takes it and gives
it back, and whoever asks in between is told that it is held.

| Actor | Actions | Code |
|---|---|---|
| worker | `RunPlan`, `Take`, `FirstRecord`, `RegisterDone`, `WaitPoll`, `Devices`, `Running`, `NextStep`, `StepEnds`, `Finish`, `Exit`, `Tick`, `Kill` | `run_plan`, `RunRegistration`, the wait in `bench.py`, the step loop and repeat block of `test_reactor.py` |
| start command | `StartRun`, `StartLook`, `StartAnswers`, `StartLoops`, `StartFails`, `StartGivesUp`, `StartEnds` | `start_detached_run` |
| prune | `PruneLook`, `PruneProbed`, `PruneUnlink`, `SweepList` | `prune_run_records`, `_sweep_orphaned_run_files`, from a registration or a start that gave up |
| reader | `Ask`, `Probe`, `Gone`, `Again`, `Lives` | `run_status`, one line of `known_runs`, `request_run_stop` |

A record write may fail: the first one refuses the run, a later one is lost, and
a run whose last one is lost ends as `unrecorded`. `quiet` is the interval in
which `stop_requested` does not look again. A step loop has no bound: a repeat
block runs as long as it likes.

Properties.

* `RecordHonest`, first half (`GoneHonest`): a status that says `worker_gone` is right about it, whatever the
  run did between the record's read and the lock's probe.
* `LiveRunKept`: no step of a prune takes the record, the stop request or the
  lock of a run that has not published its end.
* `StartTakesBack`, first half (`NoStepAfterPlant`): a start that gave up has taken its run back, if the stop
  it planted came before the worker's first look for one.
* `StartTakesBack`, second half (`StartHonest`): a start that says its worker failed leaves no run behind.
* `RecordHonest`, second half (`EndRecorded`): a run that ended in order says how, as long as it has a record.
* `StopEndsRun`: a stop request ends the run, wherever it is.

| Run | Question | Bounds |
|---|---|---|
| `RunLifecycle` | all of the above | 2 handles, one of them watched by a start command or asked about once, and possibly killed; the other finds its devices busy until its wait is over; 1 record kept |
| `VRunGone` | does a listing or a stop request ever call a run gone that ended in order? | the same |

The second handle is what makes the first a candidate for pruning, which takes its
registration and no step of its plan. With one record kept the registration makes
it one at once; `RUN_RECORDS_KEPT` is larger, so
the code comes to this only after as many runs. One question is enough, as an
answer depends on no other. Runs end and nothing follows: deadlock is not checked.

Fairness (`FairSpec`): a worker goes on with its steps, its prune and its looks for
a stop, and the interval between two looks passes. A step that hangs is thereby
excluded, as its own bounds in the plan exclude it; the wait for a busy device is
not assumed to end (`Devices` has no fairness), nor are starts, readers or the
end of a plan.

`VRunGone` finds that `known_runs` and `request_run_stop` judge the record they
read before the probe: a run that finishes in between is listed as `worker_gone`,
and a stop request for it is refused as `run_worker_gone`. `run_status` reads the
record again, for the reason its comment and a test give.

Two assumptions are constants, and `LiveRunKept` fails without
them. `LateWorkers = TRUE` lets a worker come alive after the widest start
window: a sweep then probes its lock, the worker takes it, and the sweep unlinks
it with the stop it was to obey. `ReadFaults = {TRUE, FALSE}` lets a prune's read
fail six times: `prune_run_records` counts the record as ended without asking the
lock, and a live run's files go.

`RunLifecycleProofs` proves, for any finite set of runs and any number of them
watched, asked about, killed and kept, type correctness, `RecordIsHonest`,
`StartTakesItBack` and `LiveRunIsKept`. It assumes that there are finitely many
runs, of which none is nobody (`Countable`), and of the two constants what the
run assumes (`Punctual`). The inductive invariant ties the lock and the record to
the place of the worker (`LockOf`, `RecordOf`), the prunes and the readers to what
they looked at (`JobOf`, `CallOf`), and a start to the stop it planted
(`PlantOf`, `StartOf`). It is needed because every one of these looks is a step of
its own, and the properties speak of what was true at an earlier one.

Abstracted: the contents of records and answers, the log, the step a record names
(`progress` is a write of the state it has), a record that cannot be read by a
start (`run_state_invalid`) or a reader, a launcher that exits before its worker,
the death of a start command. The devices are those of `BenchMutex` and
`Coordination`: here they are held or not.

## 6. `ReportCommit`: what a report leaves behind (`report.py`)

`write_report` writes up to four files under one report lock: a run's own copy,
staged as `pending`; the mirrors; `report-state.json`, which every read starts
from and which keeps the last failure and the one-time warning; and the copy once
more, promoted. One action per file operation (`Snapshot`, `Stage`, `Mirror`,
`RecordState`, `Restate`, `Promote`, `Reconcile`, `Revoke`), of which each may
fail, with its rename landed or not, and between any two of which the process may
die (`Dies`) and another call commit.

* `NoFalseGreen`: no trusted record of a run reads as audited for a call that
  returned `audit_ok: false`.
* `AuditedCopyKept`: a run that the report state calls audited has its audited copy
  (`ReadbackBacked`), and what a call was told is audited stays in it
  (`AcceptedKept`).
* `FailureHonest`: the last failure on record is not a call that succeeded.

Bounds in `Services`: two calls, of which one is a run's, and two failing
operations: a promotion that lands and raises, and the write after it. A third
call adds nothing that the second, which may come before, between and after, does
not show, and the proofs hold for any number.

`ReportCommitProofs` proves, for any calls, runs and number of failures, type
correctness, `AuditedCopyIsKept` and its halves, `FailureIsHonest`,
`WarnedAtMostOnce` (the warning on the defaulted policy is claimed once; this one
is proved only) and `NeverFalseGreen`. The inductive invariant says, of each place
a call may be at, what it has written: `Copy` of its own copy, `Returned` of its
answer, `Honest` of the report state on disk and of every memory that may replace
it, `Claimed` of the warning. It is needed because the properties speak of what
is on disk when a call has returned, and only where the call stands says why.

`NeverFalseGreen` assumes that a file just written can be read back
(`Unreadable = FALSE`, as in the run). Without it the code does leave a green copy:
a promotion lands and raises, the read that would tell fails, the result is marked
failed, and `_revoke_stale_canonical` fails too. `report.py:393-399` says that no
failure of a best-effort clean-up can; with `Unreadable = TRUE` and
`MaxFaults = 3`, TLC finds it.

## 7. `CanBroker` and `CanFrames`: one broker per bus (`canbroker.py`)

`CanBroker` is the rendezvous. Clients find a broker over the bus lock, its holder
record, the descriptor with its connection counter, and the key file, and no two
of these are read together. A broker process goes from `TakeBus` over `OpenBus`
and `Publish` to `Shutdown`, with a first-attach watchdog beside it; a client goes
from `ReadDescriptor` over `Spawn`, `ReadExit`, the probe of the lock,
`RemoveStale`, `ReadKey` and `Dial` to `Answered`, or to `GiveUp` and `Terminate`
at its deadline; a connection has a thread in the broker (`Accept`,
`HandleAttach`, `HandleDetach`). Every write and unlink of the four may fail
(`FileFails`), with what the code does about it: a broker that cannot publish goes to
its clean-up and ends with the code of an uncaught exception, one that cannot rewrite
its counter keeps the old one published beside the participant it seats
(`canbroker.py:903`), one that cannot unlink its descriptor or key gives the lock back
and ends in order (`canbroker.py:776`), and a client's removal leaves what it cannot
unlink. `MaxMishaps` bounds deaths, adapter failures, failing file operations and late
answers, `MaxCounter` is where the counter starts again.

* `RendezvousHonest`, first half (`FreeMeansDead`): a free bus lock beside a published descriptor means that the
  broker is gone, and was killed or could not unlink it (`left` says so), which is what removing a stale rendezvous
  rests on. The comment at `canbroker.py:1472` says that the two "can only be seen together when nothing ran the
  cleanup at all"; without `left`, TLC finds a broker that ran it and whose unlink failed. The removal is right there
  too.
* `RendezvousHonest`, second half (`SeatsHonest`): nobody is seated on a bus that its last participant closed, and a
  seat ends only with its own connection.
* `RendezvousSettles` (under fairness, in `ServicesSettle` of the run): a broker without a participant gets one or
  leaves, and every attach is answered.

Bounds: `Server` has two clients, two broker processes, one mishap and a counter
that starts again at once; two clients are what every race of the rendezvous
needs, and a second broker is one that the first one's end overtakes. `Services`
asks for liveness with one client and two mishaps. Fairness: a process that runs
goes on, each thread of a broker for itself, and a client's deadline comes
(strong, as it is offered only while the client waits). Nobody has to attach, to
detach or to die.

`CanBrokerProofs` proves, for any clients, brokers and numbers of mishaps, type
correctness and `RendezvousIsHonest`, both halves. The inductive invariant says
that a broker past the take of the bus is the one that holds its lock (`LockOf`),
that the descriptor's author serves, could not unlink it or was killed (`Published`), that a broker
that leaves has refused everybody since (`StopOf`), and that the two ends of a
connection agree (`SeatsOf`, `EndsOf`, `ClientOf`), since a client and the
broker's thread learn of its end in separate steps.

`CanFrames` is what happens on a bus: sends, reads, the fan-out of what a read
draws from the adapter, budgets, filters, bounded queues and both scopes of
incident. The broker's guard is taken and given back within one request and the
adapter is called without it, so a request is split there.

* `FramesAccounted`, first half (`LossReported`): who is not told of an abort has every frame of its view.
* `FramesAccounted`, second half (`SeqNamesFrame`): a number names one frame, and numbers grow along the wire.
* `IncidentReachesAll`: a gated bus has aborted every run on it.

Bounds: one writer, two readers of which one has a narrower view and a smaller
budget, one participant that needs the bus silent; buffers of two, two frames from
the wire and two numbers. That is one frame more than the narrow reader's budget
and one queue that can overflow.

`CanBrokerProofs` proves of `CanFrames` (as `Frames`), for any participants, filters
and identifiers and any positive budgets and buffers (`FrameBounds`), its type
invariant (`FramesTypeOK`), `FramesAreAccounted` and `IncidentsReachAll`. The inductive
invariant adds to the properties what a call holds at the place where it stands
(`Calls`) and who has which numbers (`Numbered`): every number in a log or a queue is
at most `seq`, and none is one that a send on its way to the adapter has taken, so that
what is appended is new to everybody. It is needed because a send takes its number
within the guard, leaves the guard for the adapter, and others number frames meanwhile.
A filter is a recursive function; what it keeps is stated once, as a choice among the
frames that were passed on which keeps their order (`Left`, `Thin`), and every other
lemma rests on that.

The modules also state what the documents promise and the code does not keep; no
run checks these, and TLC refutes them: `WireOrderKept` (two reads draw from the
adapter outside the guard and hand on in the other order, `canbroker.py:1176`, where
`docs/can-service-design.md:129` says the broker does not reorder frames),
`SeatedKeepsBus` (a client that gives up on the broker it started
terminates it under participants who have attached meanwhile, `canbroker.py:1529-1556`
against the docstring of `_spawn_broker`), `RendezvousKept` (`_remove_stale_broker`
after a probe that is out of date takes a serving broker's descriptor),
`StopMetByRefusal` and `SeatedIsServed` (an attach that meets a broker about to
stop), `BusScopeKept` (a participant already aborted with its own scope keeps it
when the bus fails, `docs/can-service-design.md:81-90`) and `GatedIsSilent` (a send
that passed the gate is still transmitted).

Abstracted: payloads, release and share checks (which refuse an attach at any
time), the adapter's own clock, the file layout of the endpoint. Reads of the rendezvous
do not fail by themselves: the code takes a file it cannot read as one that is not there.

## 8. `SerialSession`: one port, three threads (`comports.py`)

The drain reads the port and never waits for the log; the log writer
(`_reader_loop`) writes what was drained as one entry per batch; the caller starts
the session, writes, and stops it. Steps end where another thread can act:
`audit_lock`, a port operation, a file operation. `line` and `arrived` keep, for
each chunk of input, how many writes had been sent before it, and `before` keeps,
for each write, how much had been drained when it took the log: the order on the
line, against which the log is judged. Any operation may fail, up to `MaxFaults`;
`OthersHalt` and `Recovered` are incidents of other sessions and their end, which
the port's own lease has to get through (`none`, `active`, `cleanup`, `halted`,
`retry`, `handed`).

* `SessionHonest`, first half (`LogHonest`): a chunk drained before a write took the log stands before the write's
  entry, and one the write may have provoked stands behind it; a closed session
  whose audit held has everything on its log, once and in order, and the stop
  entry last.
* `SessionHonest`, second half (`PortHeld`): a port whose lease went back, or into an incident, is closed and no
  thread of its session is left.
* `SerialSettles` (under fairness, in `ServicesSettle` of the run): input received is logged unless the log broke,
  and every call ends.

Bounds: in `Server` two chunks of input, one write, a second session after the
first and two failing operations; in `Services`, for liveness, two chunks, one
write, one session and one failing operation. Two chunks are one on either side
of a write. The drain, the log writer and a call that has begun are scheduled
fairly. The time-out of the writer's wait (`ReaderTimesOut`) is not: an input that
waited for it would be logged late, and `SerialSettles` says that none has to.

`SerialSessionProofs` proves type correctness and `SessionIsHonest`, both halves,
for any number of chunks, writes, sessions and faults (`Bounds`: they are
numbers). The inductive invariant says who has the audit lock and with it the
batch in hand (`AuditOf`), which thread outlives which (`ThreadsOf`), what a stop
has done at each of its places (`StopOf`, `LeaseOf`), and that log, batch and
queue together are what arrived, in order, unless the log broke (`QueueOf`,
`WriteOf`, `LogOf`, `WholeOf`, `LastOf`). The log alone would not do: a chunk's
place on it is decided while the chunk is still in a queue.

`BrokenAuditStopsWrites`, in no run, fails: `log_received` gives `audit_lock` back
before it marks the session broken (`comports.py:927-936`), so a write that waited
for the lock sends bytes on a broken audit; `docs/safety-model.md:12` says that a
broken audit refuses the stimulus class.

## 9. `ConfigChange`: who may open what (`configwrite.py`, `configreload.py`)

One authoritative file; servers that enforce what they loaded; `project_config_set`
for a server's agent; `agentic-hil grant` and `revoke`; an editor that takes no
lock. A document is where each device is (which a reload takes), the grants of
devices and of the project (which it never takes), the rest, and whether it loads;
`writes` stands for the provenance by which every locked write differs. A write is
split at its lock (`SetLocks`, `GrantLocks`), its replacement of the file
(`Writes`) and the load behind it, which may put back what was there (`Settles`).
A grant is split at each of its reads of the file: `Plan`, `Hold`, `ReadsValue`,
`GrantLocks`. `bench` is the device mutex of section 3, held or not.

* `GrantsFromStartup`: no reload gives a server a grant its start did not.
* `AgentNarrows`: a write for an agent opens nothing; what it may write over is only
  an edit that took no lock and came after its read.
* `GrantExcludesRuns`: a grant that holds the devices it planned on lands beside no
  run of a server that enforces the description on disk.
* `StatusHonest`: a server that says nothing of its file having changed enforces it,
  wherever the file is not the very one it started from.

`VGrantsHidden` drops that last condition: a device entry that leaves the file for
one reload and comes back byte for byte has lost its grants in the server, and
`config_status` answers that the file is the one loaded, with no source of its own
for the grants, since `configstate.py:313` compares digests.

`GrantExcludesRuns` is stated with two conditions the code does not establish: the
command line holds the devices of its plan, while `_config_and_document_for_hold`
reads the file twice and a document that changes and changes back between the two
passes its comparison; and a server whose description is not the file's runs on
devices the grant does not hold. `cli.py:3240-3250` makes neither exception.

Bounds: one device that may be at two places, one server and the operator; either
two locked writes beside one edit, or three edits and no locked write. One server
is enough, as two agents exclude each other as an agent and the operator do.

`ConfigChangeProofs` proves, for any servers, devices, places and number of writes
and edits, `NoGrantByReload` (`GrantsFromStartup`), `AgentOnlyNarrows`
(`AgentNarrows`), `GrantBesideNoRun` (`GrantExcludesRuns`) and `StatusIsHonest`
(`StatusHonest`), assuming that the command line is no server and the first document
is one (`Apart`). The last one assumes besides that the first document grants no
device it does not name (`Rooted`), as grants stand in the entry of their device. The inductive
invariant says that whoever is between lock and release writes on what it read or
beside an edit (`Based`), that a server asks for nothing that opens (`Narrow`),
that a server holds only what its description names, which its reload waits for
(`Holds`), and that the operator's locked document is the planned one (`Planned`).

Abstracted: `project_config_create`, adoption of hardware, an incident's gate on a
reload, debugger binding, every refusal of the loader beyond "does not load".

## 10. `DebugSession`: a core, its server and a GDB (`gdbdebug.py`, `gdbmi.py`)

`session` is `GdbDebugSessions.session`, `call` the call being served with what it
has learned so far, `lease` the one `_coordinated_debug_call` keeps for the session
with its cleanup reasons. `todo` and `pipe` are what GDB has not read and what its
reader thread has not: a command its caller gave up on stays in `todo`, marked as
nobody's, and is carried out later. `last` is the stop `GdbMiClient` keeps for
whoever waits next. `core` is the target: halted, carrying breakpoints, guarded
against the server's leave. `doubt` and `reached` are history: an answer left the
target open and nothing settled it since, and what of the present start reached it.

A call is split at every command and every wait for a stop; between any two of its
steps GDB answers, the core stops, a wait runs out, or GDB or the server dies. The
start goes from `Spawn` over `ServerReady`, `SetUp`, `ConnectedNow` and `ResetDone`
to `Started`, or from anywhere to `StartFails`, which for an attach whose connect
was dropped tries again. A stop takes its proofs in the code's order: `Confirmed`
(the halt), `Removed` (the breakpoints), `Pinned` (the guard, or the end of the
server while GDB is still connected), then `End`. `Recovers` is the machine recovery
a standing incident gets ahead of the next call.

* `HaltHonest`: a stop that says the halt, the removal and the guard are confirmed
  leaves the core halted with no debugger on it (`StopHonest`), and a session that
  says halted has a halted core (`HaltedMeansHalted`), unless an earlier answer left
  the target open and said so.
* `FailuresTold`, first half (`FailedStartHonest`): a failed start that names no effect, and so invites another,
  sent GDB nothing that reached the target, in any of its attempts.
* `FailuresTold`, second half (`ProcessesHeld`): a GDB or a debug server that is up between two calls is named by
  the session and by its lease, whatever failed.

Bounds (of the run `Bench`): both kinds of server, five calls, three attempts to
connect as in the code, two faults. Five calls are start, a call that goes wrong, one that comes after it,
a stop and its repetition. A caller may stop calling at any time; a call that is
being served may not get stuck.

`BenchMutexProofs` proves `HaltsAreHonest` and `FailuresAreTold` of `DebugSession` (as
`Debug`), for any kinds of server and numbers of calls, attempts and faults. The
inductive invariant `DebugInv` says three things that the properties do not.

* What is on its way: one command at most is waited for, and it is the last one
  written (`OneAwaited`); one that nobody waits for any more is no `continue`, unless
  the target is open (`NoLateContinue`), and a connect has the line for itself
  (`ConnectAlone`).
* Which stop is the core's last: in a pipe without an open answer there is one at most,
  and where it is under way or kept, the core is halted (`StopsFresh`). Behind a
  `continue` that was taken only a stop that follows its result counts. `HaltKnown` and
  `StartHalts` say where there is none.
* What a stop has proved so far (`StopProves`), where breakpoints may be
  (`BreakpointsKnown`), and what a session that is left for its processes, or an answer
  that it is over, rests on (`LeftProved`, `EndProved`).

It is needed because the code speaks of the core from records it reads later than GDB
wrote them: `HaltedMeansHalted` fails in the next step wherever a stop of an earlier
halt can still be read. `FailuresTold` needs the phases (`Places`, `Untouched`,
`ProcessesNamed`) and `OneAwaited` alone.

The exception in `HaltHonest` hides what the code does with a target that is open.
`StopClaimsBacked`, in no run, is the property without it, and fails: after a start
that failed, `debug_stop_session` takes three confirmed proofs without asking the
target (`gdbdebug.py:664-665`) and answers that it "stopped with the target
confirmed halted"; and a `continue` behind an unconfirmed one takes that one's late
stop for its own. `FailedStartHonest` speaks of GDB only, since OpenOCD runs
`init; halt` or `init; reset halt` before GDB connects (`openocd.py:852`): a start
refused for a GDB without asynchronous MI has halted or reset the core, where
`gdbdebug.py:1330` and `CHANGELOG.md:492` say that nothing was touched. An incident
`debug_breakpoint_cleanup_unconfirmed` is settled by a recovery that reads the probe
and writes nothing, so a breakpoint may stay on the core for the next session; the
model allows it and no property forbids it.

Abstracted: the removal of breakpoints is one command, the wording and kind of a
stop (a fault among them keeps `continue` from resuming, which the model leaves
open), permissions, logs. Left out: memory and symbol reads, `mode: load`, the audit
latch, companions, the closing of the service.

## 11. `PowerSupply`: a conversation with a unit (`power_supply.py`, `rs3005p.py`)

`unit` is the supply: two set points and an output, which an operator may change at
its panel. `task` is the call under way, `hold` its lease and what became of it,
`line` the replies on their way. A call goes from `Called` (the lease, the port
opened with what had arrived on it thrown away) over the identity, the reading of the
channel and the checks on it (`Identified`, `ReadBefore`) to its writes, each followed
by a reading (`Write`, `Check`), and ends in `Commit`, or in `Raised` where an
exception went through. Every query is a step of its own (`Exchange`). A reply names
no command: what is read is the oldest one on the line, taken for the asked one
wherever its form allows it (`ReadsAs`). `MaxFaults` bounds commands that are not
answered in time, writes that fail or do something else, other errors, hands at the
panel during a call, and deaths.

* `PairKept`: between its two writes a set never leaves the supply above both what it
  held before and what was asked for.
* `SupplyHonest`: an answer that leaves nothing unconfirmed is so. What it last read is
  what the supply holds, a supply it did not read it did not change (`AnswerTrue`),
  and what it wrote is within the limits or said to be above (`WrittenWithinLimits`).
  Late replies are what could make it false.
* `SwitchedOnWithinLimits`: no `OUT1` of this server switches an output on above the
  owner's limits.

All three leave out a call during which somebody turned a knob: the set points are read
before the switch, and nothing reads them in between (`power_supply.py:988`). Bounds in
`Server`: set points 0 to 2 of which 0 and 1 are allowed, two late replies, two faults.
Three values are what the order of two writes and a limit need; two faults are a late
reply and something else that goes wrong.

`VAboveLimit`: a set point that reads back above the limit is an incident only until
its own call ends. `power_supply.py:915` and `docs/power-supplies.md:73` hold the bench
until the owner has brought the unit back; `_stand_down_after_call` ends every incident
that is not about the audit, gives the lease back, and the next call goes ahead. What is
then refused, by the stored set point it reads, is an output that would come on, a cycle,
and a set that leaves that quantity alone; switching off, reading, and setting that
quantity go ahead. Within a run the incident does last, until the run stops.

The head of `rs3005p.py` (lines 21-30) says that no STATUS table is filled and no output
switched; the code below has a table for V6.9 and sends `OUT0` and `OUT1`, and the model
follows the code. A late reply to `*IDN?` may be read by a later call's `*IDN?`, though
`docs/power-supplies.md:180` says that a late reply is never taken for a later
command's; within the bounds no set point or output state is.

`PowerSupplyProofs` proves type correctness, `SupplyIsHonest`, `PairIsKept` and
`SwitchesOnWithinLimits` for any set points, limits and number of faults
(`Bounds`) and at most five late replies (`FewLate`). The inductive
invariant follows the marker on the line: whatever is behind when the unit is
identified starts with an identity, which no query of the channel's status takes
for its answer, so that a status read to its end was read from an empty line
(`Aligned`, `Truth`), unless all six replies before it came late. The bound is
tight. With six, of calls that each lost one of an identity, a set voltage, a set
current, a measured voltage, a measured current and a status, a seventh call reads
a whole status that is not its own, and once a knob was turned in between
`AnswerTrue` fails. `Limits` and `Pairs` say of each place in a call which set
points are settled and which writes are still due.

Abstracted: values are small numbers and the two measured ones are not kept. Left out:
refusals that contact nothing, protection, which the RS-3005P is sent nothing of, an
identity with another serial, and more channels than the RS-3005P's one.

## 12. What is only model-checked

Liveness (`CallEnds`, `StopEndsRun`, `ServicesSettle`) is out
of the prover's reach, as is anything that speaks of `ENABLED`, and what a fold
or a filter over a sequence computes for every input. Model-checked so
far without a proof: the records of `Coordination` (its type invariant,
`AuditHaltKept`, `AuditSignatureWorks`, `RecoveryResumable`, `AuditHaltGates`,
`NeighbourUntouched`, `DeathLeavesTruth`). Every property of a passing run
has a mutant in `PROJECT.json`: a plausible bug in one definition with which the
run finds the property violated.

## 13. What is not modelled

* Hazards known and left out of the runs: the choice of the lock directory
  (`bench.py:455`) and a lease that fails to persist after it was registered
  (`coordination.py:1064`).
* Planned, in this order: reads, captures and buffers of serial sessions; the
  process registry; the verdicts of the test reactor; the staged upgrade;
  `can.py`'s side of a session.
* Left out for good: probe back ends, host inspection, configuration validation,
  the command line and texts. They are parsing, wording and I/O with no state of
  their own.
