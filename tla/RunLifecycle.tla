---------------------------- MODULE RunLifecycle ----------------------------
(***************************************************************************)
(* A test run that outlives the command that started it: runlifecycle.py,  *)
(* with the driver in reactorrun.py and the step loop of test_reactor.py.  *)
(*                                                                         *)
(* A run is a worker process under a handle.  Three files name it: the     *)
(* record, written by the worker alone; the stop request, written by       *)
(* anybody; and the lock, held by the worker for as long as it lives, so   *)
(* that "the lock can be taken" stands for "its process is gone".  A start *)
(* command watches the record it asked for; readers ask for the status,    *)
(* list the runs or request a stop; every registration, and every start    *)
(* that gave up, prunes the directory.  Each of them reads, probes and     *)
(* writes in separate steps, and only the record's rename is atomic.       *)
(***************************************************************************)
EXTENDS Naturals, Sequences, FiniteSets, SequencesExt

CONSTANTS
    Handles,
    Settings,       \* which runs a start command starts, the others being
                    \* synchronous, which are asked about, which may be killed, and
                    \* which find their devices busy until their wait is over
    Readers,        \* questions asked about runs, each by a process of its own
    Kept,           \* RUN_RECORDS_KEPT
    LateWorkers,    \* may a worker come alive after the widest start window
    ReadFaults      \* may a prune's read of a record fail: a subset of BOOLEAN

ASSUME RunAssumption ==
    /\ Settings \subseteq [detached : SUBSET Handles, asked : SUBSET Handles,
                             mortal : SUBSET Handles, busy : SUBSET Handles]
    /\ Kept \in Nat \ {0}
    /\ LateWorkers \in BOOLEAN
    /\ ReadFaults \subseteq BOOLEAN

VARIABLES
    setting,   \* the setting, which no step changes
    rec,       \* handle -> state in its record
    order,     \* handles with a record, most recently written first
    stop,      \* handle -> is there a stop request
    aged,      \* handle -> its files are older than any start's window
    worker,    \* handle -> where its process is
    lock,      \* handle -> the worker's lock: none, the file at the path, or unlinked
    outcome,   \* handle -> how its plan ended
    ran,       \* handle -> a step of the plan began
    quiet,     \* handle -> its last look for a stop is less than STOP_POLL_INTERVAL_S ago
    start,     \* handle -> the start command
    early,     \* history: handle -> its stop was planted before its worker's first look
    job,       \* pruner -> a prune under way
    call,      \* reader -> its question
    probing    \* pruner or reader -> the handle whose lock its probe has in hand

runVars == <<outcome, ran, quiet>>
vars == <<setting, rec, order, stop, aged, worker, lock, outcome, ran, quiet, start,
          early, job, call, probing>>

Pruners == {"worker", "start"} \X Handles
Nobody == "nobody"

\* A record that was removed reads as one never written; the difference is history.
Absent == {"none", "removed"}
TERMINAL_RUN_STATES == {"finished", "stopped"}
RecordStates == Absent \cup {"starting", "running"} \cup TERMINAL_RUN_STATES

Registered == {"pruning", "waiting", "holding", "boundary", "step", "closing", "published"}
Alive == {"spawned", "locked"} \cup Registered
\* It went without a terminal record: killed, or unable to write one.
Lost == {"killed", "unrecorded"}
Over == {"refused", "exited"} \cup Lost

NoJob == [phase |-> "off", todo |-> {}, at |-> Nobody]
NoCall == [op |-> "none", at |-> Nobody, seen |-> "none", stage |-> "idle", said |-> "none"]
NoStart == [pc |-> "idle", seen |-> "none", exited |-> FALSE, said |-> "none"]

TypeOK ==
    /\ setting \in Settings
    /\ rec \in [Handles -> RecordStates]
    /\ order \in Seq(Handles) /\ Len(order) <= Cardinality(Handles)
    /\ stop \in [Handles -> BOOLEAN] /\ aged \in [Handles -> BOOLEAN]
    /\ worker \in [Handles -> {"none"} \cup Alive \cup Over]
    /\ lock \in [Handles -> {"none", "path", "unlinked"}]
    /\ outcome \in [Handles -> {"none"} \cup TERMINAL_RUN_STATES]
    /\ ran \in [Handles -> BOOLEAN] /\ quiet \in [Handles -> BOOLEAN]
    /\ start \in [Handles ->
            [pc : {"idle", "watching", "judging", "failing", "giving_up", "done"},
             seen : RecordStates, exited : BOOLEAN,
             said : {"none", "failed", "unresponsive", "running"} \cup TERMINAL_RUN_STATES]]
    /\ early \in [Handles -> BOOLEAN]
    /\ job \in [Pruners -> [phase : {"off", "cap", "sweep"}, todo : SUBSET Handles,
                            at : Handles \cup {Nobody}]]
    /\ call \in [Readers ->
            [op : {"none", "status", "list", "stop"}, at : Handles \cup {Nobody},
             seen : RecordStates, stage : {"idle", "probe", "gone", "alive", "again"},
             said : {"none", "worker_gone", "asked"} \cup RecordStates]]
    /\ probing \in [Pruners \cup Readers -> Handles \cup {Nobody}]

Init ==
    /\ setting \in Settings
    /\ rec = [h \in Handles |-> "none"]
    /\ order = <<>>
    /\ stop = [h \in Handles |-> FALSE]
    /\ aged = [h \in Handles |-> FALSE]
    /\ worker = [h \in Handles |-> "none"]
    /\ lock = [h \in Handles |-> "none"]
    /\ outcome = [h \in Handles |-> "none"]
    /\ ran = [h \in Handles |-> FALSE]
    /\ quiet = [h \in Handles |-> FALSE]
    /\ start = [h \in Handles |-> NoStart]
    /\ early = [h \in Handles |-> FALSE]
    /\ job = [a \in Pruners |-> NoJob]
    /\ call = [r \in Readers |-> NoCall]
    /\ probing = [a \in Pruners \cup Readers |-> Nobody]

-----------------------------------------------------------------------------
(* Files.                                                                  *)

\* Mutation: a record is written beside the one it replaces.
PublishBeside(h, state) ==
    /\ rec' = [rec EXCEPT ![h] = state]
    /\ order' = <<h>> \o order

\* `write_run_record`: one rename, and the record is the newest.
Publish(h, state) ==
    /\ rec' = [rec EXCEPT ![h] = state]
    /\ order' = <<h>> \o RemoveFirst(order, h)

\* `_LifetimeLock.acquire` finds the file at the path unlocked.
LockFree(h) == lock[h] # "path" /\ \A a \in DOMAIN probing : probing[a] # h

\* The files of h go, the record among them or not: whoever holds its lock holds a
\* file no path names.
Unlink(h, removed) ==
    /\ rec' = [rec EXCEPT ![h] = removed]
    /\ order' = IF removed \in Absent THEN RemoveFirst(order, h) ELSE order
    /\ stop' = [stop EXCEPT ![h] = FALSE]
    /\ lock' = [lock EXCEPT ![h] = IF @ = "path" THEN "unlinked" ELSE @]
    /\ probing' = [a \in DOMAIN probing |-> IF probing[a] = h THEN Nobody ELSE probing[a]]

\* The files of a handle without a record pass the sweep's cutoff: its start, if it
\* had one, has answered, and unless LateWorkers its worker is up or gone.
Age(h) ==
    /\ ~aged[h] /\ rec[h] \in Absent /\ worker[h] # "none"
    /\ h \in setting.detached => start[h].pc = "done"
    /\ LateWorkers \/ worker[h] # "spawned"
    /\ aged' = [aged EXCEPT ![h] = TRUE]
    /\ UNCHANGED <<setting, rec, order, stop, worker, lock, runVars, start, early, job, call, probing>>

-----------------------------------------------------------------------------
(* `prune_run_records`, by a worker that has registered or a start that    *)
(* gave up.                                                                *)

\* Past the cap a record is a candidate: the listing, newest first.
CapCandidates(listing) == {listing[i] : i \in (Kept + 1)..Len(listing)}

JobStarts(a, listing) ==
    job' = [job EXCEPT ![a] = [NoJob EXCEPT !.phase = "cap", !.todo = CapCandidates(listing)]]

\* Mutation: the record alone says whether a run is over.
EndedForPruneByAge(h, unreadable) == TRUE

\* What a prune takes for ended without asking the lock.
EndedForPrune(h, unreadable) == unreadable \/ rec[h] \in Absent \cup TERMINAL_RUN_STATES

\* Mutation: a handle without a record is swept without asking its lock.
SweepAsksNothing(h) == aged[h]

\* What a sweep takes without asking the lock: nothing.
SweepAsksLock(h) == FALSE

\* One candidate is judged: removed next, held back, or its lock is in the
\* prune's hand, which makes it ended.
PruneLook(a, h, unreadable) ==
    LET ended == IF job[a].phase = "cap" THEN EndedForPrune(h, unreadable) ELSE SweepAsksLock(h)
        young == job[a].phase = "sweep" /\ ~aged[h]
        next(at) == job' = [job EXCEPT ![a].todo = @ \ {h}, ![a].at = at]
    IN  /\ job[a].phase # "off" /\ job[a].at = Nobody /\ h \in job[a].todo
        /\ \/ ~ended /\ (young \/ ~LockFree(h)) /\ next(Nobody) /\ UNCHANGED probing
           \/ ended /\ next(h) /\ UNCHANGED probing
           \/ /\ ~ended /\ ~young /\ LockFree(h)
              /\ next(h) /\ probing' = [probing EXCEPT ![a] = h]
        /\ UNCHANGED <<setting, rec, order, stop, aged, worker, lock, runVars, start, early, call>>

\* The probe gives its lock straight back.
PruneProbed(a) ==
    /\ probing[a] # Nobody
    /\ probing' = [probing EXCEPT ![a] = Nobody]
    /\ UNCHANGED <<setting, rec, order, stop, aged, worker, lock, runVars, start, early, job, call>>

PruneUnlink(a) ==
    LET h == job[a].at IN
    /\ h # Nobody /\ probing[a] = Nobody
    /\ IF job[a].phase = "cap" THEN Unlink(h, "removed") ELSE Unlink(h, rec[h])
    /\ job' = [job EXCEPT ![a].at = Nobody]
    /\ UNCHANGED <<setting, aged, worker, runVars, start, early, call>>

\* `_orphan_files_by_handle`: the handles that have files and no record.
Orphans == {h \in Handles : rec[h] \in Absent /\ worker[h] # "none"}

\* The sweep follows the cap; a start holds its own attempt back.
SweepList(a) ==
    /\ job[a].phase = "cap" /\ job[a].todo = {} /\ job[a].at = Nobody
    /\ job' = [job EXCEPT ![a].phase = "sweep",
                          ![a].todo = Orphans \ (IF a[1] = "start" THEN {a[2]} ELSE {})]
    /\ UNCHANGED <<setting, rec, order, stop, aged, worker, lock, runVars, start, early, call, probing>>

JobOver(a) == job[a].phase = "sweep" /\ job[a].todo = {} /\ job[a].at = Nobody

-----------------------------------------------------------------------------
(* The worker: `run_plan`, `RunRegistration`.                              *)

\* A synchronous run mints its own handle.
RunPlan(h) ==
    /\ h \notin setting.detached /\ worker[h] = "none"
    /\ worker' = [worker EXCEPT ![h] = "spawned"]
    /\ UNCHANGED <<setting, rec, order, stop, aged, lock, runVars, start, early, job, call, probing>>

\* `take`: the lock comes before the record.  A plan that does not load, or a lock
\* that somebody has, ends the worker here.
Take(h) ==
    /\ worker[h] = "spawned"
    /\ \/ /\ LockFree(h)
          /\ lock' = [lock EXCEPT ![h] = "path"]
          /\ worker' = [worker EXCEPT ![h] = "locked"]
       \/ worker' = [worker EXCEPT ![h] = "refused"] /\ UNCHANGED lock
    /\ UNCHANGED <<setting, rec, order, stop, aged, runVars, start, early, job, call, probing>>

\* The first record must be written; the run is refused if it cannot be.
FirstRecord(h) ==
    /\ worker[h] = "locked"
    /\ \/ /\ Publish(h, "starting")
          /\ worker' = [worker EXCEPT ![h] = "pruning"]
          /\ JobStarts(<<"worker", h>>, order')
          /\ UNCHANGED lock
       \/ /\ worker' = [worker EXCEPT ![h] = "refused"]
          /\ lock' = [lock EXCEPT ![h] = "none"]
          /\ UNCHANGED <<rec, order, job>>
    /\ UNCHANGED <<setting, stop, aged, runVars, start, early, call, probing>>

RegisterDone(h) ==
    /\ worker[h] = "pruning" /\ JobOver(<<"worker", h>>)
    /\ worker' = [worker EXCEPT ![h] = "waiting"]
    /\ job' = [job EXCEPT ![<<"worker", h>>] = NoJob]
    /\ UNCHANGED <<setting, rec, order, stop, aged, lock, runVars, start, early, call, probing>>

\* Mutation: a look that found nothing is cached like one that found a stop.
SeesStopOnce(h) == stop[h] /\ ~quiet[h] /\ ~ran[h]

\* `stop_requested`: the file is looked at unless that was done a moment ago.
SeesStop(h) == stop[h] /\ ~quiet[h]

Ends(h, how) ==
    /\ worker' = [worker EXCEPT ![h] = "closing"]
    /\ outcome' = [outcome EXCEPT ![h] = how]
    /\ quiet' = [quiet EXCEPT ![h] = FALSE]

\* `begin_run` waits for the plan's devices and looks for a stop while it does.
WaitPoll(h) ==
    /\ worker[h] = "waiting"
    /\ \/ SeesStop(h) /\ Ends(h, "stopped")
       \/ ~SeesStop(h) /\ quiet' = [quiet EXCEPT ![h] = TRUE] /\ UNCHANGED <<worker, outcome>>
    /\ UNCHANGED <<setting, rec, order, stop, aged, lock, ran, start, early, job, call, probing>>

\* The devices are held, or refused: busy past the deadline.
Devices(h) ==
    /\ worker[h] = "waiting"
    /\ \/ /\ h \notin setting.busy
          /\ worker' = [worker EXCEPT ![h] = "holding"]
          /\ UNCHANGED <<outcome, quiet>>
       \/ Ends(h, "finished")
    /\ UNCHANGED <<setting, rec, order, stop, aged, lock, ran, start, early, job, call, probing>>

\* The run says that it is running: now, later because the throttle holds it back,
\* or not at all because the write failed.
Progress(h) == Publish(h, "running") \/ UNCHANGED <<rec, order>>

\* `running`: the devices are held and the first step is next.
Running(h) ==
    /\ worker[h] = "holding"
    /\ worker' = [worker EXCEPT ![h] = "boundary"]
    /\ Progress(h)
    /\ UNCHANGED <<setting, stop, aged, lock, runVars, start, early, job, call, probing>>

\* `execute_steps`, between two steps: the stop is asked for, then the next step
\* is published and begins.  A plan its preflight refuses has none.
NextStep(h) ==
    /\ worker[h] = "boundary"
    /\ \/ SeesStop(h) /\ Ends(h, "stopped") /\ UNCHANGED ran
       \/ ~ran[h] /\ Ends(h, "finished") /\ UNCHANGED ran
       \/ /\ ~SeesStop(h)
          /\ worker' = [worker EXCEPT ![h] = "step"]
          /\ ran' = [ran EXCEPT ![h] = TRUE]
          /\ quiet' = [quiet EXCEPT ![h] = TRUE]
          /\ UNCHANGED outcome
    /\ IF ran'[h] THEN Progress(h) ELSE UNCHANGED <<rec, order>>
    /\ UNCHANGED <<setting, stop, aged, lock, start, early, job, call, probing>>

\* A step ends: another follows, it was the last, it failed, or it was a wait cut
\* short by a stop.  A repeat block makes the list as long as it likes.
StepEnds(h) ==
    /\ worker[h] = "step"
    /\ \/ worker' = [worker EXCEPT ![h] = "boundary"] /\ UNCHANGED <<outcome, quiet>>
       \/ Ends(h, "finished")
       \/ SeesStop(h) /\ Ends(h, "stopped")
    /\ Progress(h)
    /\ UNCHANGED <<setting, stop, aged, lock, ran, start, early, job, call, probing>>

\* `finish`: the terminal record, once the devices are closed; it may be lost.
Finish(h) ==
    /\ worker[h] = "closing"
    /\ \/ /\ Publish(h, outcome[h])
          /\ worker' = [worker EXCEPT ![h] = "published"]
       \/ /\ worker' = [worker EXCEPT ![h] = "unrecorded"]
          /\ UNCHANGED <<rec, order>>
    /\ lock' = [lock EXCEPT ![h] = IF worker'[h] = "unrecorded" THEN "none" ELSE @]
    /\ UNCHANGED <<setting, stop, aged, runVars, start, early, job, call, probing>>

\* Mutation: the exit writes its own record over the one the run has written.
RecordAtExitAgain(h) == "finished"

\* `__exit__` writes a record only for a run that has no terminal one.
RecordAtExit(h) == rec[h]

\* `__exit__`: the lock is given back and the process ends.
Exit(h) ==
    /\ worker[h] = "published"
    /\ worker' = [worker EXCEPT ![h] = "exited"]
    /\ lock' = [lock EXCEPT ![h] = "none"]
    /\ rec' = [rec EXCEPT ![h] = RecordAtExit(h)]
    /\ UNCHANGED <<setting, order, stop, aged, runVars, start, early, job, call, probing>>

\* The interval between two looks passes.
Tick(h) ==
    /\ quiet[h] /\ worker[h] \in Alive
    /\ quiet' = [quiet EXCEPT ![h] = FALSE]
    /\ UNCHANGED <<setting, rec, order, stop, aged, worker, lock, outcome, ran, start, early, job, call, probing>>

\* The process is killed; the operating system frees its lock.
Kill(h) ==
    /\ h \in setting.mortal /\ worker[h] \in Alive
    /\ worker' = [worker EXCEPT ![h] = "killed"]
    /\ lock' = [lock EXCEPT ![h] = "none"]
    /\ job' = [job EXCEPT ![<<"worker", h>>] = NoJob]
    /\ probing' = [probing EXCEPT ![<<"worker", h>>] = Nobody]
    /\ UNCHANGED <<setting, rec, order, stop, aged, runVars, start, early, call>>

-----------------------------------------------------------------------------
(* `start_detached_run`.                                                   *)

StartRun(h) ==
    /\ h \in setting.detached /\ start[h].pc = "idle"
    /\ start' = [start EXCEPT ![h].pc = "watching"]
    /\ worker' = [worker EXCEPT ![h] = "spawned"]
    /\ UNCHANGED <<setting, rec, order, stop, aged, lock, runVars, early, job, call, probing>>

StartLook(h) ==
    /\ start[h].pc = "watching"
    /\ start' = [start EXCEPT ![h].pc = "judging", ![h].seen = rec[h]]
    /\ UNCHANGED <<setting, rec, order, stop, aged, worker, lock, runVars, early, job, call, probing>>

StartAnswers(h) ==
    /\ start[h].pc = "judging" /\ start[h].seen \notin Absent \cup {"starting"}
    /\ start' = [start EXCEPT ![h].pc = "done", ![h].said = start[h].seen, ![h].seen = "none"]
    /\ UNCHANGED <<setting, rec, order, stop, aged, worker, lock, runVars, early, job, call, probing>>

\* Nothing to answer yet: the end of the worker is noted and the record looked at
\* again.
StartLoops(h) ==
    /\ start[h].pc = "judging" /\ start[h].seen \in Absent \cup {"starting"}
    /\ start' = [start EXCEPT ![h].pc = "watching", ![h].seen = "none", ![h].exited = @ \/ worker[h] \in Over]
    /\ UNCHANGED <<setting, rec, order, stop, aged, worker, lock, runVars, early, job, call, probing>>

\* Mutation: a worker that has ended is given no grace.
GraceOverAtOnce(h) == worker[h] \in Over

\* WORKER_EXIT_GRACE_S after the worker's end was noted, which takes a later look.
GraceOver(h) == start[h].exited

\* No record, and the worker's end was noted: it failed.
StartFails(h) ==
    /\ start[h].pc = "judging" /\ start[h].seen \in Absent /\ GraceOver(h)
    /\ start' = [start EXCEPT ![h] = [NoStart EXCEPT !.pc = "failing"]]
    /\ JobStarts(<<"start", h>>, order)
    /\ UNCHANGED <<setting, rec, order, stop, aged, worker, lock, runVars, early, call, probing>>

\* The window is over: a stop is planted, best effort, and the directory pruned.
StartGivesUp(h) ==
    /\ start[h].pc = "judging" /\ start[h].seen \in Absent \cup {"starting"}
    /\ start' = [start EXCEPT ![h] = [NoStart EXCEPT !.pc = "giving_up"]]
    /\ JobStarts(<<"start", h>>, order)
    /\ \/ /\ stop' = [stop EXCEPT ![h] = TRUE]
          /\ aged' = [aged EXCEPT ![h] = FALSE]
          /\ early' = [early EXCEPT ![h] = worker[h] \in {"spawned", "locked", "pruning"}]
       \/ UNCHANGED <<stop, aged, early>>
    /\ UNCHANGED <<setting, rec, order, worker, lock, runVars, call, probing>>

StartEnds(h) ==
    /\ start[h].pc \in {"failing", "giving_up"} /\ JobOver(<<"start", h>>)
    /\ start' = [start EXCEPT ![h].pc = "done",
            ![h].said = IF start[h].pc = "failing" THEN "failed" ELSE "unresponsive"]
    /\ job' = [job EXCEPT ![<<"start", h>>] = NoJob]
    /\ UNCHANGED <<setting, rec, order, stop, aged, worker, lock, runVars, early, call, probing>>

-----------------------------------------------------------------------------
(* Readers: `run_status`, one line of `known_runs`, `request_run_stop`.    *)

Answer(r, said) == call' = [call EXCEPT ![r].stage = "idle", ![r].said = said]

\* The record is read; one that is absent or terminal is the answer.
Ask(r, op, h) ==
    /\ call[r] = NoCall /\ h \in setting.asked /\ worker[h] # "none"
    /\ LET done == rec[h] \in Absent \cup TERMINAL_RUN_STATES IN
       call' = [call EXCEPT ![r] =
            [op |-> op, at |-> h, seen |-> rec[h], stage |-> IF done THEN "idle" ELSE "probe",
             said |-> IF done THEN rec[h] ELSE "none"]]
    /\ UNCHANGED <<setting, rec, order, stop, aged, worker, lock, runVars, start, early, job, probing>>

\* `worker_is_gone`: the lock can be taken, or somebody has it.
Probe(r) ==
    /\ call[r].stage = "probe"
    /\ IF LockFree(call[r].at)
       THEN /\ call' = [call EXCEPT ![r].stage = "gone"]
            /\ probing' = [probing EXCEPT ![r] = call[r].at]
       ELSE call' = [call EXCEPT ![r].stage = "alive"] /\ UNCHANGED probing
    /\ UNCHANGED <<setting, rec, order, stop, aged, worker, lock, runVars, start, early, job>>

\* Mutation: the status does not look at the record again.
LooksAgainNever(op) == FALSE

\* Of the three, the status alone re-reads the record on the far side of the lock.
LooksAgain(op) == op = "status"

\* The lock is given back: the run has no process.
Gone(r) ==
    /\ call[r].stage = "gone"
    /\ probing' = [probing EXCEPT ![r] = Nobody]
    /\ IF LooksAgain(call[r].op) THEN call' = [call EXCEPT ![r].stage = "again"]
                                 ELSE Answer(r, "worker_gone")
    /\ UNCHANGED <<setting, rec, order, stop, aged, worker, lock, runVars, start, early, job>>

\* The second look: a record that is gone by now leaves the first one standing.
Again(r) ==
    LET now == IF rec[call[r].at] \in Absent THEN call[r].seen ELSE rec[call[r].at] IN
    /\ call[r].stage = "again"
    /\ Answer(r, IF now \in TERMINAL_RUN_STATES THEN now ELSE "worker_gone")
    /\ UNCHANGED <<setting, rec, order, stop, aged, worker, lock, runVars, start, early, job, probing>>

\* Somebody holds the lock: the record as read is the answer, or the stop is asked.
Lives(r) ==
    LET h == call[r].at IN
    /\ call[r].stage = "alive"
    /\ IF call[r].op = "stop"
       THEN Answer(r, "asked") /\ stop' = [stop EXCEPT ![h] = TRUE]
       ELSE Answer(r, call[r].seen) /\ UNCHANGED stop
    /\ UNCHANGED <<setting, rec, order, aged, worker, lock, runVars, start, early, job, probing>>

-----------------------------------------------------------------------------
PruneStep(a) ==
    \/ \E h \in Handles, unreadable \in ReadFaults : PruneLook(a, h, unreadable)
    \/ PruneProbed(a)
    \/ PruneUnlink(a)
    \/ SweepList(a)

\* What a worker does of its own accord, the wait for devices apart.
WorkerStep(h) ==
    \/ Take(h)
    \/ FirstRecord(h)
    \/ RegisterDone(h)
    \/ Running(h)
    \/ NextStep(h)
    \/ StepEnds(h)
    \/ Finish(h)
    \/ Exit(h)

StartStep(h) ==
    \/ StartRun(h)
    \/ StartLook(h)
    \/ StartAnswers(h)
    \/ StartLoops(h)
    \/ StartFails(h)
    \/ StartGivesUp(h)
    \/ StartEnds(h)

ReaderStep(r) ==
    \/ \E op \in {"status", "list", "stop"}, h \in Handles : Ask(r, op, h)
    \/ Probe(r)
    \/ Gone(r)
    \/ Again(r)
    \/ Lives(r)

Next ==
    \/ \E h \in Handles : RunPlan(h)
    \/ \E h \in Handles : WorkerStep(h)
    \/ \E h \in Handles : WaitPoll(h)
    \/ \E h \in Handles : Devices(h)
    \/ \E h \in Handles : Tick(h)
    \/ \E h \in Handles : Kill(h)
    \/ \E h \in Handles : Age(h)
    \/ \E h \in Handles : StartStep(h)
    \/ \E a \in Pruners : PruneStep(a)
    \/ \E r \in Readers : ReaderStep(r)

Spec == Init /\ [][Next]_vars

\* A worker goes on: its steps end, its prune ends, its looks for a stop come round.
\* Nothing is assumed of the wait for a busy device, of starts, of readers, or of a
\* plan's length.
FairSpec ==
    /\ Spec
    /\ \A h \in Handles :
        /\ WF_vars(WorkerStep(h) \/ WaitPoll(h) \/ PruneStep(<<"worker", h>>))
        /\ WF_vars(Tick(h))

-----------------------------------------------------------------------------
(* Properties.                                                             *)

\* A status that calls a run's worker gone is right: it did go without a terminal
\* record, or its record was pruned while the question was being answered.
GoneHonest ==
    \A r \in Readers :
        call[r].op = "status" /\ call[r].said = "worker_gone"
            => worker[call[r].at] \in Lost \/ rec[call[r].at] = "removed"

\* Every answer that calls a worker gone is right, the listing's and the stop's
\* included.
ReadersHonest ==
    \A r \in Readers :
        call[r].said = "worker_gone"
            => worker[call[r].at] \in Lost \/ rec[call[r].at] = "removed"

\* No prune takes the record, the stop request or the lock of a run that has not
\* published its end.
LiveRunKept ==
    [][\A h \in Handles :
        worker[h] \in (Registered \cup {"locked"}) \ {"published"} =>
            /\ rec'[h] = "removed" => rec[h] = "removed"
            /\ stop[h] => stop'[h]
            /\ lock'[h] # "unlinked"]_vars

\* A start that gave up has taken its run back: a worker that had not looked for a
\* stop by then runs no step.
NoStepAfterPlant == \A h \in Handles : early[h] => ~ran[h]

\* A run that ended in order says so, and says how, for as long as it has a record.
EndRecorded ==
    \A h \in Handles :
        worker[h] \in {"published", "exited"} => rec[h] \in {outcome[h], "removed"}

\* What is read of a run's end is true, and what ended is read.
RecordHonest == GoneHonest /\ EndRecorded

\* A start that reports its worker failed, which invites another start, leaves no
\* run behind: nothing ran and nothing will.
StartHonest ==
    \A h \in Handles :
        start[h].said = "failed" /\ rec[h] # "removed" => worker[h] \in Over /\ ~ran[h]

\* A start that gave up, or says its worker failed, leaves no plan running behind
\* the caller it told so.
StartTakesBack == NoStepAfterPlant /\ StartHonest

\* A stop request ends the run, however long its plan, wherever it is.
StopEndsRun ==
    \A h \in Handles :
        (stop[h] /\ worker[h] \in Registered) ~> worker[h] \in Over
=============================================================================
