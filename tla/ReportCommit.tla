---------------------------- MODULE ReportCommit ----------------------------
(***************************************************************************)
(* `write_report` of report.py: how the report of a hardware call reaches  *)
(* the trusted records, and what is left of it when a write fails or the   *)
(* process dies.                                                           *)
(*                                                                         *)
(* A run's report has a copy of its own, staged as `pending` and promoted  *)
(* once everything else is written; every report is read back from         *)
(* `report-state.json`, which also keeps the last failure.  Several        *)
(* processes commit under one report lock.  Each write is a rename that    *)
(* may have landed although the call that made it raises.                  *)
(***************************************************************************)
EXTENDS Naturals

CONSTANTS
    Calls,        \* calls that write a report, one each
    Runs,         \* those whose report carries a run handle
    NoOne,        \* no call
    Unreadable,   \* may a file just written fail to be read back?
    MaxFaults     \* bound: failing file operations

ASSUME ReportCommitAssumption ==
    /\ Runs \subseteq Calls /\ NoOne \notin Calls
    /\ Unreadable \in BOOLEAN
    /\ MaxFaults \in Nat

VARIABLES
    lock,       \* who holds the report lock
    pc,         \* call -> the file operation it is at
    succeeded,  \* call -> the verdict its report carries
    audited,    \* call -> `audit_ok` of the result it will return
    staged,     \* call -> committed_canonical: its copy was staged
    held,       \* call -> the report state it loaded and edits
    canonical,  \* call -> its per-run copy
    disk,       \* report-state.json
    answer,     \* call -> the `audit_ok` it returned
    warnings,   \* how many calls claimed the one-time warning
    faults      \* how many file operations failed

vars == <<lock, pc, succeeded, audited, staged, held, canonical, disk, answer, warnings, faults>>
memory == <<succeeded, audited, staged, held>>

\* `audited` is the report as its call made it, `unaudited` the same one after
\* mark_audit_failure, `pending` what staged_report_snapshot makes of it.
Forms == {"audited", "unaudited", "pending"}
State == [of : Calls \cup {NoOne}, form : Forms, failure : Calls \cup {NoOne}, warned : BOOLEAN]
NoState == [of |-> NoOne, form |-> "audited", failure |-> NoOne, warned |-> FALSE]

Inside == {"snapshot", "stage", "mirror", "record", "restate", "promote", "reconcile"}

TypeOK ==
    /\ lock \in Calls \cup {NoOne}
    /\ pc \in [Calls -> {"idle", "start", "revoke", "done", "dead"} \cup Inside]
    /\ succeeded \in [Calls -> BOOLEAN]
    /\ audited \in [Calls -> BOOLEAN]
    /\ staged \in [Calls -> BOOLEAN]
    /\ held \in [Calls -> State]
    /\ canonical \in [Calls -> Forms \cup {"none"}]
    /\ disk \in State
    /\ answer \in [Calls -> {"none", "accepted", "rejected"}]
    /\ warnings \in Nat
    /\ faults \in 0..MaxFaults
    /\ \A k \in Calls : pc[k] \in Inside <=> lock = k

Init ==
    /\ lock = NoOne
    /\ pc = [k \in Calls |-> "idle"]
    /\ succeeded = [k \in Calls |-> FALSE]
    /\ audited = [k \in Calls |-> TRUE]
    /\ staged = [k \in Calls |-> FALSE]
    /\ held = [k \in Calls |-> NoState]
    /\ canonical = [k \in Calls |-> "none"]
    /\ disk = NoState
    /\ answer = [k \in Calls |-> "none"]
    /\ warnings = 0
    /\ faults = 0

-----------------------------------------------------------------------------
At(k, step) == pc[k] = step
GoTo(k, step) == pc' = [pc EXCEPT ![k] = step]
Fault == faults < MaxFaults /\ faults' = faults + 1
Sound == UNCHANGED faults

\* mark_audit_failure.
Unaudited(k) == audited' = [audited EXCEPT ![k] = FALSE]

\* is_failure_report of the result as it stands.
Failing(k) == ~succeeded[k] \/ ~audited[k]

\* Mutation: a staged copy stays staged.
MPromoting(k) == FALSE

\* Mutation: only a run that succeeded is promoted.
MPromotingGreen(k) == staged[k] /\ audited[k] /\ succeeded[k]

Promoting(k) == staged[k] /\ audited[k]

\* The state with this report in it; the failure record follows the run's own
\* verdict, never the placeholder.
Readback(k) == [held[k] EXCEPT !.of = k, !.form = IF audited[k] THEN "audited" ELSE "unaudited",
                               !.failure = IF Failing(k) THEN k ELSE @]

\* Mutation: the failure record is read off the staged readback.
MRecord(k) == IF Promoting(k) THEN [Readback(k) EXCEPT !.form = "pending", !.failure = k] ELSE Readback(k)

Record(k) == IF Promoting(k) THEN [Readback(k) EXCEPT !.form = "pending"] ELSE Readback(k)

\* A failed result whose copy was staged revokes it, after the lock is free.
Leave(k, ok) ==
    /\ lock' = NoOne
    /\ IF staged[k] /\ ~ok THEN GoTo(k, "revoke") /\ UNCHANGED answer
       ELSE GoTo(k, "done") /\ answer' = [answer EXCEPT ![k] = IF ok THEN "accepted" ELSE "rejected"]

-----------------------------------------------------------------------------
(* One action per file operation; the second disjunct is its failure.      *)

Call(k) ==
    /\ At(k, "idle") /\ GoTo(k, "start")
    /\ \E good \in BOOLEAN : succeeded' = [succeeded EXCEPT ![k] = good]
    /\ UNCHANGED <<lock, audited, staged, held, canonical, disk, answer, warnings, faults>>

\* The lock, and the state under it.
Begin(k) ==
    /\ At(k, "start")
    /\ \/ /\ lock = NoOne /\ lock' = k /\ Sound
          /\ held' = [held EXCEPT ![k] = disk]
          /\ GoTo(k, IF ~succeeded[k] THEN "snapshot" ELSE IF k \in Runs THEN "stage" ELSE "mirror")
          /\ UNCHANGED <<audited, answer>>
       \/ /\ Fault /\ Unaudited(k)
          /\ GoTo(k, "done") /\ answer' = [answer EXCEPT ![k] = "rejected"]
          /\ UNCHANGED <<lock, held>>
    /\ UNCHANGED <<succeeded, staged, canonical, disk, warnings>>

\* last-failure.json of the workspace.
Snapshot(k) ==
    /\ At(k, "snapshot")
    /\ \/ Sound /\ GoTo(k, IF k \in Runs THEN "stage" ELSE "mirror") /\ UNCHANGED audited
       \/ Fault /\ GoTo(k, "record") /\ Unaudited(k)
    /\ UNCHANGED <<lock, succeeded, staged, held, canonical, disk, answer, warnings>>

\* The placeholder; what is staged is promoted or revoked later.
Stage(k) ==
    /\ At(k, "stage")
    /\ \/ /\ Sound /\ GoTo(k, "mirror")
          /\ canonical' = [canonical EXCEPT ![k] = "pending"]
          /\ staged' = [staged EXCEPT ![k] = TRUE]
          /\ UNCHANGED audited
       \/ /\ Fault /\ GoTo(k, "record") /\ Unaudited(k)
          /\ \E landed \in BOOLEAN :
                canonical' = IF landed THEN [canonical EXCEPT ![k] = "pending"] ELSE canonical
          /\ UNCHANGED staged
    /\ UNCHANGED <<lock, succeeded, held, disk, answer, warnings>>

\* last-report.json of the workspace.
Mirror(k) ==
    /\ At(k, "mirror") /\ GoTo(k, "record")
    /\ \/ Sound /\ UNCHANGED audited
       \/ Fault /\ Unaudited(k)
    /\ UNCHANGED <<lock, succeeded, staged, held, canonical, disk, answer, warnings>>

\* The report state.  A write that raised is read back: it counts as made where
\* the file says so, and it is made again with the failure where it does not.
RecordState(k) ==
    LET new == Record(k)
        goesOn == IF Promoting(k) THEN GoTo(k, "promote") /\ UNCHANGED <<lock, answer>> ELSE Leave(k, audited[k])
    IN
    /\ At(k, "record")
    /\ \/ /\ Sound \/ Fault
          /\ disk' = new /\ goesOn
          /\ held' = [held EXCEPT ![k] = new]
          /\ UNCHANGED audited
       \/ /\ Fault
          /\ disk' = disk \/ (Unreadable /\ disk' = new)
          /\ Unaudited(k) /\ GoTo(k, "restate")
          /\ UNCHANGED <<lock, held, answer>>
    /\ UNCHANGED <<succeeded, staged, canonical, warnings>>

Restate(k) ==
    LET new == [held[k] EXCEPT !.of = k, !.form = "unaudited", !.failure = k] IN
    /\ At(k, "restate") /\ Leave(k, FALSE)
    /\ \/ Sound /\ disk' = new
       \/ Fault /\ disk' \in {disk, new}
    /\ UNCHANGED <<memory, canonical, warnings>>

\* Mutation: a promotion that raises is taken for one that did not happen.
MPromote(k) ==
    /\ At(k, "promote") /\ GoTo(k, "reconcile")
    /\ \/ Sound /\ canonical' = [canonical EXCEPT ![k] = "audited"] /\ UNCHANGED audited
       \/ /\ Fault /\ Unaudited(k)
          /\ \E landed \in BOOLEAN :
                canonical' = IF landed THEN [canonical EXCEPT ![k] = "audited"] ELSE canonical
    /\ UNCHANGED <<lock, succeeded, staged, held, disk, answer, warnings>>

\* The copy turns green, the last file to do so but one.
Promote(k) ==
    LET green == [canonical EXCEPT ![k] = "audited"] IN
    /\ At(k, "promote") /\ GoTo(k, "reconcile")
    /\ \/ (Sound \/ Fault) /\ canonical' = green /\ UNCHANGED audited
       \/ Fault /\ Unaudited(k) /\ (UNCHANGED canonical \/ (Unreadable /\ canonical' = green))
    /\ UNCHANGED <<lock, succeeded, staged, held, disk, answer, warnings>>

\* Then the readback, which may stay behind.
Reconcile(k) ==
    /\ At(k, "reconcile") /\ Leave(k, audited[k])
    /\ \/ Sound /\ disk' = Readback(k)
       \/ Fault /\ disk' \in {disk, Readback(k)}
    /\ UNCHANGED <<memory, canonical, warnings>>

\* _revoke_stale_canonical: rewritten, else removed, else left.
Revoke(k) ==
    /\ At(k, "revoke") /\ GoTo(k, "done")
    /\ \/ Sound /\ canonical' = [canonical EXCEPT ![k] = "unaudited"]
       \/ /\ Fault
          /\ canonical' \in {canonical, [canonical EXCEPT ![k] = "unaudited"], [canonical EXCEPT ![k] = "none"]}
    /\ answer' = [answer EXCEPT ![k] = "rejected"]
    /\ UNCHANGED <<lock, memory, disk, warnings>>

\* claim_auto_recover_default_warning, whole under the lock; a write that fails
\* claims nothing, whether it landed or not.
ClaimWarning ==
    /\ lock = NoOne /\ ~disk.warned
    /\ \/ Sound /\ disk' = [disk EXCEPT !.warned = TRUE] /\ warnings' = warnings + 1
       \/ Fault /\ disk' = [disk EXCEPT !.warned = TRUE] /\ UNCHANGED warnings
    /\ UNCHANGED <<lock, pc, memory, canonical, answer>>

\* The process dies; the kernel frees its lock.
Dies(k) ==
    /\ pc[k] \notin {"idle", "done", "dead"}
    /\ GoTo(k, "dead")
    /\ lock' = IF lock = k THEN NoOne ELSE lock
    /\ UNCHANGED <<memory, canonical, disk, answer, warnings, faults>>

Step(k) ==
    \/ Call(k) \/ Begin(k) \/ Snapshot(k) \/ Stage(k) \/ Mirror(k) \/ RecordState(k)
    \/ Restate(k) \/ Promote(k) \/ Reconcile(k) \/ Revoke(k) \/ Dies(k)

Next == ClaimWarning \/ \E k \in Calls : Step(k)

Spec == Init /\ [][Next]_vars

-----------------------------------------------------------------------------
(* Properties.                                                             *)

\* No trusted record of a run reads as audited for a call that returned
\* `audit_ok: false`, whichever writes failed and wherever (report.py:393-399).
NoFalseGreen ==
    \A k \in Runs : answer[k] = "rejected" =>
        canonical[k] # "audited" /\ ~(disk.of = k /\ disk.form = "audited")

\* A run that is read back as audited has its own copy on disk, whoever committed
\* after it and whoever died in between (report.py:502-505).
ReadbackBacked ==
    disk.of \in Runs /\ disk.form = "audited" => canonical[disk.of] = "audited"

\* What a call was told is audited stays in its own copy: later runs do not
\* overwrite it (report.py:252).
AcceptedKept == \A k \in Runs : answer[k] = "accepted" => canonical[k] = "audited"

\* Both directions: no success without its copy, no copy lost.
AuditedCopyKept == ReadbackBacked /\ AcceptedKept

\* The last failure on record is a call that failed, never a success whose copy
\* was only staged when the state was written (report.py:446-453).
FailureHonest ==
    disk.failure # NoOne /\ answer[disk.failure] = "accepted" => ~succeeded[disk.failure]

\* The warning about the defaulted recovery policy is claimed once, whatever
\* reports are committed around it (report.py:768).
WarnedOnce == warnings <= 1
=============================================================================
