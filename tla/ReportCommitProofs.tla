------------------------ MODULE ReportCommitProofs ------------------------
(* What TLAPS proves of ReportCommit, for any calls and any number of      *)
(* failing file operations.                                                *)
EXTENDS ReportCommit, TLAPS

(* What of the four files a call has written is read off where it stands:  *)
(* `Copy` is about its own copy, `Returned` about its answer, and the       *)
(* report state is honest on disk and in every memory that may replace it. *)

Copy(k) ==
    /\ staged[k] => k \in Runs
    /\ pc[k] \in {"idle", "start", "snapshot", "stage", "mirror", "record", "restate", "promote"}
          => canonical[k] \in {"none", "pending"}
    /\ pc[k] = "stage" => k \in Runs
    /\ pc[k] \in {"mirror", "record"} /\ k \in Runs /\ audited[k] => staged[k]
    /\ pc[k] \in {"idle", "start", "snapshot", "stage"} => ~staged[k]
    /\ pc[k] = "promote" => staged[k] /\ audited[k]
    /\ pc[k] = "restate" => ~audited[k]
    /\ pc[k] = "reconcile" /\ audited[k] => canonical[k] = "audited"
    /\ pc[k] \in {"reconcile", "revoke"} /\ ~audited[k] /\ ~Unreadable => canonical[k] # "audited"
    /\ pc[k] = "reconcile" => staged[k]
    /\ pc[k] = "revoke" => ~audited[k]

Returned(k) ==
    /\ answer[k] # "none" => pc[k] = "done"
    /\ answer[k] = "accepted" => audited[k] /\ (k \in Runs => canonical[k] = "audited")
    /\ answer[k] = "rejected" => ~audited[k] /\ (~Unreadable => canonical[k] # "audited")

Failed(k) == pc[k] # "idle" /\ Failing(k)

Honest(s) ==
    /\ s.of \in Runs /\ s.form = "audited" => audited[s.of] /\ canonical[s.of] = "audited"
    /\ s.failure # NoOne => Failed(s.failure)

Claimed ==
    /\ warnings \in {0, 1}
    /\ warnings = 1 => disk.warned /\ \A k \in Calls : pc[k] \in Inside => held[k].warned

Inv ==
    /\ TypeOK
    /\ \A k \in Calls : Copy(k) /\ Returned(k) /\ (held[k].failure # NoOne => Failed(held[k].failure))
    /\ Honest(disk)
    /\ Claimed

-----------------------------------------------------------------------------
(* Type correctness.                                                       *)

Steps == {"idle", "start", "revoke", "done", "dead"} \cup Inside

LEMMA StateType ==
    ASSUME TypeOK, NEW k \in Calls
    PROVE  Readback(k) \in State /\ Record(k) \in State
BY DEF TypeOK, Readback, Record, State, Forms

LEMMA FaultType == ASSUME TypeOK, Sound \/ Fault PROVE faults' \in 0..MaxFaults
BY ReportCommitAssumption DEF TypeOK, Sound, Fault

LEMMA Moved ==
    ASSUME TypeOK, NEW k \in Calls, NEW to \in Steps, GoTo(k, to)
    PROVE  /\ pc' \in [Calls -> Steps]
           /\ pc'[k] = to
           /\ \A j \in Calls \ {k} : pc'[j] = pc[j]
BY DEF TypeOK, GoTo, Steps, Inside

\* A step that leaves the lock alone stays on its side of it; one that takes or
\* frees it crosses.
LEMMA LockMoved ==
    ASSUME TypeOK, NEW k \in Calls, NEW to \in Steps, GoTo(k, to),
           \/ lock' = lock /\ (pc[k] \in Inside <=> to \in Inside)
           \/ lock = NoOne /\ lock' = k /\ to \in Inside
           \/ pc[k] \in Inside /\ lock' = NoOne /\ to \notin Inside
    PROVE  \A j \in Calls : pc'[j] \in Inside <=> lock' = j
BY Moved, ReportCommitAssumption DEF TypeOK

\* What Leave does to where the call stands and to its answer.
LEMMA Left ==
    ASSUME TypeOK, NEW k \in Calls, NEW ok \in BOOLEAN, Leave(k, ok), pc[k] \in Inside
    PROVE  /\ pc' \in [Calls -> Steps] /\ pc'[k] \in {"revoke", "done"}
           /\ \A j \in Calls \ {k} : pc'[j] = pc[j]
           /\ lock' = NoOne /\ \A j \in Calls : pc'[j] \in Inside <=> lock' = j
           /\ answer' \in [Calls -> {"none", "accepted", "rejected"}]
           /\ \A j \in Calls \ {k} : answer'[j] = answer[j]
           /\ \/ pc'[k] = "revoke" /\ staged[k] /\ ~ok /\ answer'[k] = answer[k]
              \/ pc'[k] = "done" /\ ~(staged[k] /\ ~ok) /\ answer'[k] = IF ok THEN "accepted" ELSE "rejected"
<1>1. "revoke" \in Steps \ Inside /\ "done" \in Steps \ Inside
  BY DEF Steps, Inside
<1>2. CASE staged[k] /\ ~ok
  <2>1. GoTo(k, "revoke") /\ lock' = NoOne /\ answer' = answer
    BY <1>2 DEF Leave
  <2> QED BY <1>1, <1>2, <2>1, Moved, LockMoved DEF TypeOK
<1>3. CASE ~(staged[k] /\ ~ok)
  <2>1. GoTo(k, "done") /\ lock' = NoOne /\ answer' = [answer EXCEPT ![k] = IF ok THEN "accepted" ELSE "rejected"]
    BY <1>3 DEF Leave
  <2>2. pc' \in [Calls -> Steps] /\ pc'[k] = "done" /\ \A j \in Calls \ {k} : pc'[j] = pc[j]
    BY <1>1, <2>1, Moved
  <2>3. \A j \in Calls : pc'[j] \in Inside <=> lock' = j
    BY <1>1, <2>1, LockMoved
  <2> QED BY <1>3, <2>1, <2>2, <2>3 DEF TypeOK
<1> QED BY <1>2, <1>3

\* The other calls keep everything of theirs; a step of `k` moves no other.
Apart(k) ==
    \A j \in Calls \ {k} :
        /\ pc'[j] = pc[j] /\ audited'[j] = audited[j] /\ succeeded'[j] = succeeded[j]
        /\ staged'[j] = staged[j] /\ held'[j] = held[j]
        /\ canonical'[j] = canonical[j] /\ answer'[j] = answer[j]

\* A step of a call that goes to `to` and is of the right types is all there is
\* to show of it.
LEMMA TypeOne ==
    ASSUME TypeOK, NEW k \in Calls, Step(k)
    PROVE  TypeOK' /\ Apart(k)
<1> USE ReportCommitAssumption
<1>0. Readback(k) \in State /\ Record(k) \in State
  BY StateType
<1>a. ASSUME Unaudited(k) PROVE audited' \in [Calls -> BOOLEAN] /\ \A j \in Calls \ {k} : audited'[j] = audited[j]
  BY <1>a DEF Unaudited, TypeOK
<1>1. CASE Call(k)
  <2>1. GoTo(k, "start") /\ lock' = lock /\ pc[k] = "idle"
    BY <1>1 DEF Call, At
  <2>2. pc' \in [Calls -> Steps] /\ \A j \in Calls \ {k} : pc'[j] = pc[j]
    BY <2>1, Moved DEF Steps
  <2>3. \A j \in Calls : pc'[j] \in Inside <=> lock' = j
    BY <2>1, LockMoved DEF Steps, Inside
  <2>4. succeeded' \in [Calls -> BOOLEAN] /\ \A j \in Calls \ {k} : succeeded'[j] = succeeded[j]
    BY <1>1 DEF Call, TypeOK
  <2> QED BY <1>1, <2>1, <2>2, <2>3, <2>4 DEF Call, TypeOK, Steps, Apart
<1>2. CASE Begin(k)
  <2>1. faults' \in 0..MaxFaults
    BY <1>2, FaultType DEF Begin
  <2>2. CASE lock = NoOne /\ lock' = k /\ held' = [held EXCEPT ![k] = disk] /\ UNCHANGED <<audited, answer>>
             /\ \E to \in {"snapshot", "stage", "mirror"} : GoTo(k, to)
    <3>1. PICK to \in {"snapshot", "stage", "mirror"} : GoTo(k, to)
      BY <2>2
    <3>2. pc' \in [Calls -> Steps] /\ \A j \in Calls \ {k} : pc'[j] = pc[j]
      BY <3>1, Moved DEF Steps, Inside
    <3>3. \A j \in Calls : pc'[j] \in Inside <=> lock' = j
      BY <2>2, <3>1, LockMoved DEF Steps, Inside
    <3>4. held' \in [Calls -> State] /\ \A j \in Calls \ {k} : held'[j] = held[j]
      BY <2>2 DEF TypeOK
    <3> QED BY <1>2, <2>1, <2>2, <3>2, <3>3, <3>4 DEF Begin, TypeOK, Steps, Apart
  <2>3. CASE Unaudited(k) /\ GoTo(k, "done") /\ answer' = [answer EXCEPT ![k] = "rejected"] /\ UNCHANGED <<lock, held>>
    <3>2. pc' \in [Calls -> Steps] /\ \A j \in Calls \ {k} : pc'[j] = pc[j]
      BY <2>3, Moved DEF Steps
    <3>3. \A j \in Calls : pc'[j] \in Inside <=> lock' = j
      BY <1>2, <2>3, LockMoved DEF Steps, Inside, Begin, At
    <3>4. answer' \in [Calls -> {"none", "accepted", "rejected"}] /\ \A j \in Calls \ {k} : answer'[j] = answer[j]
      BY <2>3 DEF TypeOK
    <3> QED BY <1>2, <1>a, <2>1, <2>3, <3>2, <3>3, <3>4 DEF Begin, TypeOK, Steps, Apart
  <2> QED BY <1>2, <2>2, <2>3 DEF Begin
<1>3. CASE Snapshot(k)
  <2>1. pc[k] = "snapshot" /\ lock' = lock /\ \E to \in {"stage", "mirror", "record"} : GoTo(k, to)
    BY <1>3 DEF Snapshot, At
  <2>2. pc' \in [Calls -> Steps] /\ \A j \in Calls \ {k} : pc'[j] = pc[j]
    BY <2>1, Moved DEF Steps, Inside
  <2>3. \A j \in Calls : pc'[j] \in Inside <=> lock' = j
    BY <2>1, LockMoved DEF Steps, Inside
  <2>4. faults' \in 0..MaxFaults
    BY <1>3, FaultType DEF Snapshot
  <2>5. audited' \in [Calls -> BOOLEAN] /\ \A j \in Calls \ {k} : audited'[j] = audited[j]
    BY <1>3, <1>a DEF Snapshot, TypeOK
  <2> QED BY <1>3, <2>2, <2>3, <2>4, <2>5 DEF Snapshot, TypeOK, Steps, Apart
<1>4. CASE Stage(k)
  <2>1. pc[k] = "stage" /\ lock' = lock /\ \E to \in {"mirror", "record"} : GoTo(k, to)
    BY <1>4 DEF Stage, At
  <2>2. pc' \in [Calls -> Steps] /\ \A j \in Calls \ {k} : pc'[j] = pc[j]
    BY <2>1, Moved DEF Steps, Inside
  <2>3. \A j \in Calls : pc'[j] \in Inside <=> lock' = j
    BY <2>1, LockMoved DEF Steps, Inside
  <2>4. faults' \in 0..MaxFaults
    BY <1>4, FaultType DEF Stage
  <2>5. audited' \in [Calls -> BOOLEAN] /\ \A j \in Calls \ {k} : audited'[j] = audited[j]
    BY <1>4, <1>a DEF Stage, TypeOK
  <2>6. canonical' \in [Calls -> Forms \cup {"none"}] /\ \A j \in Calls \ {k} : canonical'[j] = canonical[j]
    <3>1. canonical' = canonical \/ canonical' = [canonical EXCEPT ![k] = "pending"]
      BY <1>4 DEF Stage
    <3> QED BY <3>1 DEF TypeOK, Forms
  <2>7. staged' \in [Calls -> BOOLEAN] /\ \A j \in Calls \ {k} : staged'[j] = staged[j]
    BY <1>4 DEF Stage, TypeOK
  <2> QED BY <1>4, <2>2, <2>3, <2>4, <2>5, <2>6, <2>7 DEF Stage, TypeOK, Steps, Apart
<1>5. CASE Mirror(k)
  <2>1. pc[k] = "mirror" /\ lock' = lock /\ GoTo(k, "record")
    BY <1>5 DEF Mirror, At
  <2>2. pc' \in [Calls -> Steps] /\ \A j \in Calls \ {k} : pc'[j] = pc[j]
    BY <2>1, Moved DEF Steps, Inside
  <2>3. \A j \in Calls : pc'[j] \in Inside <=> lock' = j
    BY <2>1, LockMoved DEF Steps, Inside
  <2>4. faults' \in 0..MaxFaults
    BY <1>5, FaultType DEF Mirror
  <2>5. audited' \in [Calls -> BOOLEAN] /\ \A j \in Calls \ {k} : audited'[j] = audited[j]
    BY <1>5, <1>a DEF Mirror, TypeOK
  <2> QED BY <1>5, <2>2, <2>3, <2>4, <2>5 DEF Mirror, TypeOK, Steps, Apart
<1>6. CASE RecordState(k)
  <2>0. pc[k] = "record" /\ pc[k] \in Inside /\ audited[k] \in BOOLEAN
    BY <1>6 DEF RecordState, At, Inside, TypeOK
  <2>4. faults' \in 0..MaxFaults
    BY <1>6, FaultType DEF RecordState
  <2>6. disk' \in State
    BY <1>0, <1>6 DEF RecordState, TypeOK
  <2>1. CASE \E to \in {"promote", "restate"} : GoTo(k, to) /\ UNCHANGED <<lock, answer>>
    <3>1. PICK to \in {"promote", "restate"} : GoTo(k, to)
      BY <2>1
    <3>2. pc' \in [Calls -> Steps] /\ \A j \in Calls \ {k} : pc'[j] = pc[j]
      BY <3>1, Moved DEF Steps, Inside
    <3>3. \A j \in Calls : pc'[j] \in Inside <=> lock' = j
      BY <2>0, <2>1, <3>1, LockMoved DEF Steps, Inside
    <3>4. held' \in [Calls -> State] /\ \A j \in Calls \ {k} : held'[j] = held[j]
      BY <1>0, <1>6 DEF RecordState, TypeOK
    <3>5. audited' \in [Calls -> BOOLEAN] /\ \A j \in Calls \ {k} : audited'[j] = audited[j]
      BY <1>6, <1>a DEF RecordState, TypeOK
    <3> QED BY <1>6, <2>1, <2>4, <2>6, <3>2, <3>3, <3>4, <3>5 DEF RecordState, TypeOK, Steps, Apart
  <2>2. CASE Leave(k, audited[k]) /\ held' = [held EXCEPT ![k] = Record(k)] /\ UNCHANGED audited
    <3>1. /\ pc' \in [Calls -> Steps] /\ \A j \in Calls \ {k} : pc'[j] = pc[j]
          /\ lock' = NoOne /\ \A j \in Calls : pc'[j] \in Inside <=> lock' = j
          /\ answer' \in [Calls -> {"none", "accepted", "rejected"}]
          /\ \A j \in Calls \ {k} : answer'[j] = answer[j]
      BY <2>0, <2>2, Left
    <3>2. held' \in [Calls -> State] /\ \A j \in Calls \ {k} : held'[j] = held[j]
      BY <1>0, <2>2 DEF TypeOK
    <3> QED BY <1>6, <2>2, <2>4, <2>6, <3>1, <3>2 DEF RecordState, TypeOK, Steps, Apart
  <2> QED BY <1>6, <2>1, <2>2 DEF RecordState
<1>7. CASE Restate(k)
  <2>1. pc[k] \in Inside /\ Leave(k, FALSE) /\ UNCHANGED memory
    BY <1>7 DEF Restate, At, Inside
  <2>2. /\ pc' \in [Calls -> Steps] /\ \A j \in Calls \ {k} : pc'[j] = pc[j]
        /\ lock' = NoOne /\ \A j \in Calls : pc'[j] \in Inside <=> lock' = j
        /\ answer' \in [Calls -> {"none", "accepted", "rejected"}]
        /\ \A j \in Calls \ {k} : answer'[j] = answer[j]
    BY <2>1, Left
  <2>3. disk' \in State
    <3>1. [held[k] EXCEPT !.of = k, !.form = "unaudited", !.failure = k] \in State
      BY DEF TypeOK, State, Forms
    <3> QED BY <1>7, <3>1 DEF Restate, TypeOK
  <2>4. faults' \in 0..MaxFaults
    BY <1>7, FaultType DEF Restate
  <2> QED BY <1>7, <2>1, <2>2, <2>3, <2>4 DEF Restate, TypeOK, Steps, Apart, memory
<1>8. CASE Promote(k)
  <2>1. pc[k] = "promote" /\ lock' = lock /\ GoTo(k, "reconcile")
    BY <1>8 DEF Promote, At
  <2>2. pc' \in [Calls -> Steps] /\ \A j \in Calls \ {k} : pc'[j] = pc[j]
    BY <2>1, Moved DEF Steps, Inside
  <2>3. \A j \in Calls : pc'[j] \in Inside <=> lock' = j
    BY <2>1, LockMoved DEF Steps, Inside
  <2>4. faults' \in 0..MaxFaults
    BY <1>8, FaultType DEF Promote
  <2>5. audited' \in [Calls -> BOOLEAN] /\ \A j \in Calls \ {k} : audited'[j] = audited[j]
    BY <1>8, <1>a DEF Promote, TypeOK
  <2>6. canonical' \in [Calls -> Forms \cup {"none"}] /\ \A j \in Calls \ {k} : canonical'[j] = canonical[j]
    <3>1. canonical' = canonical \/ canonical' = [canonical EXCEPT ![k] = "audited"]
      BY <1>8 DEF Promote
    <3> QED BY <3>1 DEF TypeOK, Forms
  <2> QED BY <1>8, <2>2, <2>3, <2>4, <2>5, <2>6 DEF Promote, TypeOK, Steps, Apart
<1>9. CASE Reconcile(k)
  <2>1. pc[k] \in Inside /\ Leave(k, audited[k]) /\ UNCHANGED memory /\ audited[k] \in BOOLEAN
    BY <1>9 DEF Reconcile, At, Inside, TypeOK
  <2>2. /\ pc' \in [Calls -> Steps] /\ \A j \in Calls \ {k} : pc'[j] = pc[j]
        /\ lock' = NoOne /\ \A j \in Calls : pc'[j] \in Inside <=> lock' = j
        /\ answer' \in [Calls -> {"none", "accepted", "rejected"}]
        /\ \A j \in Calls \ {k} : answer'[j] = answer[j]
    BY <2>1, Left
  <2>3. disk' \in State
    BY <1>0, <1>9 DEF Reconcile, TypeOK
  <2>4. faults' \in 0..MaxFaults
    BY <1>9, FaultType DEF Reconcile
  <2> QED BY <1>9, <2>1, <2>2, <2>3, <2>4 DEF Reconcile, TypeOK, Steps, Apart, memory
<1>10. CASE Revoke(k)
  <2>1. pc[k] = "revoke" /\ lock' = lock /\ GoTo(k, "done")
    BY <1>10 DEF Revoke, At
  <2>2. pc' \in [Calls -> Steps] /\ \A j \in Calls \ {k} : pc'[j] = pc[j]
    BY <2>1, Moved DEF Steps, Inside
  <2>3. \A j \in Calls : pc'[j] \in Inside <=> lock' = j
    BY <2>1, LockMoved DEF Steps, Inside
  <2>4. faults' \in 0..MaxFaults
    BY <1>10, FaultType DEF Revoke
  <2>5. canonical' \in [Calls -> Forms \cup {"none"}] /\ \A j \in Calls \ {k} : canonical'[j] = canonical[j]
    <3>1. \/ canonical' = canonical \/ canonical' = [canonical EXCEPT ![k] = "unaudited"]
          \/ canonical' = [canonical EXCEPT ![k] = "none"]
      BY <1>10 DEF Revoke
    <3> QED BY <3>1 DEF TypeOK, Forms
  <2>6. answer' \in [Calls -> {"none", "accepted", "rejected"}] /\ \A j \in Calls \ {k} : answer'[j] = answer[j]
    BY <1>10 DEF Revoke, TypeOK
  <2> QED BY <1>10, <2>2, <2>3, <2>4, <2>5, <2>6 DEF Revoke, TypeOK, Steps, Apart, memory
<1>11. CASE Dies(k)
  <2>1. GoTo(k, "dead")
    BY <1>11 DEF Dies
  <2>2. pc' \in [Calls -> Steps] /\ pc'[k] = "dead" /\ \A j \in Calls \ {k} : pc'[j] = pc[j]
    BY <2>1, Moved DEF Steps
  <2>3. lock' \in Calls \cup {NoOne} /\ \A j \in Calls : pc'[j] \in Inside <=> lock' = j
    BY <1>11, <2>2 DEF Dies, TypeOK, Inside
  <2> QED BY <1>11, <2>2, <2>3 DEF Dies, TypeOK, Steps, Apart, memory
<1> QED BY <1>1, <1>2, <1>3, <1>4, <1>5, <1>6, <1>7, <1>8, <1>9, <1>10, <1>11 DEF Step

LEMMA TypeStep == TypeOK /\ [Next]_vars => TypeOK'
<1> SUFFICES ASSUME TypeOK, [Next]_vars PROVE TypeOK'
  OBVIOUS
<1>1. CASE UNCHANGED vars
  BY <1>1 DEF vars, TypeOK
<1>2. CASE ClaimWarning
  <2>1. faults' \in 0..MaxFaults
    BY <1>2, FaultType DEF ClaimWarning
  <2>2. disk' \in State
    BY <1>2 DEF ClaimWarning, TypeOK, State
  <2>3. warnings' \in Nat
    BY <1>2 DEF ClaimWarning, TypeOK
  <2> QED BY <1>2, <2>1, <2>2, <2>3 DEF ClaimWarning, TypeOK, memory
<1>3. ASSUME NEW k \in Calls, Step(k) PROVE TypeOK'
  BY <1>3, TypeOne
<1> QED BY <1>1, <1>2, <1>3 DEF Next

LEMMA TypeInit == Init => TypeOK
BY ReportCommitAssumption DEF Init, TypeOK, Inside, State, NoState, Forms

\* The report commit is type correct (TypeOK) for any calls and faults.
THEOREM TypeCorrect == Spec => []TypeOK
BY TypeInit, TypeStep, PTL DEF Spec

-----------------------------------------------------------------------------
(* The inductive invariant.                                                *)

LEMMA InvInit == Init => Inv
<1> SUFFICES ASSUME Init PROVE Inv
  OBVIOUS
<1>1. TypeOK
  BY TypeInit
<1>2. ASSUME NEW k \in Calls PROVE Copy(k) /\ Returned(k) /\ held[k].failure = NoOne
  BY <1>2, ReportCommitAssumption DEF Init, Copy, Returned, NoState
<1>3. Honest(disk)
  BY ReportCommitAssumption DEF Init, Honest, NoState
<1>4. Claimed
  BY DEF Init, Claimed
<1> QED BY <1>1, <1>2, <1>3, <1>4 DEF Inv

\* A call never becomes idle again, keeps its verdict once called, and an audit
\* that failed stays failed.
LEMMA Onward ==
    ASSUME TypeOK, NEW k \in Calls, Step(k)
    PROVE  /\ pc'[k] # "idle"
           /\ pc[k] # "idle" => succeeded'[k] = succeeded[k]
           /\ audited'[k] = audited[k] \/ audited'[k] = FALSE
           /\ warnings' = warnings
<1> USE DEF TypeOK, At, Unaudited
<1>a. ASSUME NEW to \in Steps \ {"idle"}, GoTo(k, to) PROVE pc'[k] # "idle"
  BY <1>a, Moved
<1>b. {"start", "revoke", "done", "dead"} \cup Inside = Steps \ {"idle"}
  BY DEF Steps, Inside
<1>1. CASE Call(k)      BY <1>1, <1>a, <1>b DEF Call
<1>2. CASE Begin(k)
  <2>1. \E to \in {"snapshot", "stage", "mirror", "done"} : GoTo(k, to)
    BY <1>2 DEF Begin
  <2> QED BY <1>2, <1>a, <1>b, <2>1 DEF Begin, Inside
<1>3. CASE Snapshot(k)
  <2>1. \E to \in {"stage", "mirror", "record"} : GoTo(k, to)
    BY <1>3 DEF Snapshot
  <2> QED BY <1>3, <1>a, <1>b, <2>1 DEF Snapshot, Inside
<1>4. CASE Stage(k)
  <2>1. \E to \in {"mirror", "record"} : GoTo(k, to)
    BY <1>4 DEF Stage
  <2> QED BY <1>4, <1>a, <1>b, <2>1 DEF Stage, Inside
<1>5. CASE Mirror(k)    BY <1>5, <1>a, <1>b DEF Mirror, Inside
<1>6. CASE RecordState(k)
  <2>1. \E to \in {"promote", "restate", "revoke", "done"} : GoTo(k, to)
    BY <1>6 DEF RecordState, Leave
  <2> QED BY <1>6, <1>a, <1>b, <2>1 DEF RecordState, Inside
<1>7. CASE Restate(k)
  <2>1. \E to \in {"revoke", "done"} : GoTo(k, to)
    BY <1>7 DEF Restate, Leave
  <2> QED BY <1>7, <1>a, <1>b, <2>1 DEF Restate, memory
<1>8. CASE Promote(k)   BY <1>8, <1>a, <1>b DEF Promote, Inside
<1>9. CASE Reconcile(k)
  <2>1. \E to \in {"revoke", "done"} : GoTo(k, to)
    BY <1>9 DEF Reconcile, Leave
  <2> QED BY <1>9, <1>a, <1>b, <2>1 DEF Reconcile, memory
<1>10. CASE Revoke(k)   BY <1>10, <1>a, <1>b DEF Revoke, memory
<1>11. CASE Dies(k)     BY <1>11, <1>a, <1>b DEF Dies, memory
<1> QED BY <1>1, <1>2, <1>3, <1>4, <1>5, <1>6, <1>7, <1>8, <1>9, <1>10, <1>11 DEF Step

\* Who failed has failed for good.
LEMMA FailedStays ==
    ASSUME TypeOK, NEW k \in Calls, Step(k), NEW j \in Calls, Failed(j)
    PROVE  Failed(j)'
<1>1. CASE j = k
  BY <1>1, Onward DEF Failed, Failing
<1>2. CASE j # k
  <2>1. pc'[j] = pc[j] /\ audited'[j] = audited[j] /\ succeeded'[j] = succeeded[j]
    BY <1>2, TypeOne DEF Apart
  <2> QED BY <2>1 DEF Failed, Failing
<1> QED BY <1>1, <1>2

\* A report state a step leaves alone stays honest.
LEMMA Kept ==
    ASSUME Inv, NEW k \in Calls, Step(k), disk' = disk
    PROVE  Honest(disk)'
<1>1. TypeOK /\ Honest(disk) /\ Copy(k) /\ disk \in State
  BY DEF Inv, TypeOK
<1>2. ASSUME disk.failure # NoOne PROVE Failed(disk.failure)'
  BY <1>1, <1>2, FailedStays DEF Honest, State
<1>3. ASSUME disk.of \in Runs, disk.form = "audited" PROVE audited'[disk.of] /\ canonical'[disk.of] = "audited"
  <2>1. audited[disk.of] /\ canonical[disk.of] = "audited" /\ disk.of \in Calls
    BY <1>1, <1>3, ReportCommitAssumption DEF Honest
  <2>2. CASE disk.of # k
    BY <1>1, <2>1, <2>2, TypeOne DEF Apart
  <2>3. CASE disk.of = k
    <3>1. pc[k] \in {"reconcile", "done", "dead"}
      BY <1>1, <2>1, <2>3 DEF Copy, TypeOK, Inside
    <3>2. audited'[k] = audited[k] /\ canonical'[k] = canonical[k]
      BY <3>1 DEF Step, Call, Begin, Snapshot, Stage, Mirror, RecordState, Restate, Promote, Reconcile,
                  Revoke, Dies, At, memory
    <3> QED BY <2>1, <2>3, <3>2
  <2> QED BY <2>2, <2>3
<1> QED BY <1>2, <1>3 DEF Honest

\* What a step of `k` owes to the rest of the invariant.
Own(k) ==
    /\ Copy(k)' /\ Returned(k)' /\ Honest(disk)'
    /\ (held[k].failure # NoOne => Failed(held[k].failure))'
    /\ warnings = 1 => disk'.warned /\ (pc'[k] \in Inside => held'[k].warned)

LEMMA OwnEnough ==
    ASSUME Inv, NEW k \in Calls, Step(k), Own(k)
    PROVE  Inv'
<1>1. TypeOK' /\ Apart(k) /\ TypeOK
  BY TypeOne DEF Inv
<1>2. ASSUME NEW j \in Calls
      PROVE  Copy(j)' /\ Returned(j)' /\ (held[j].failure # NoOne => Failed(held[j].failure))'
  <2>1. CASE j = k
    BY <2>1 DEF Own
  <2>2. CASE j # k
    <3>1. /\ pc'[j] = pc[j] /\ audited'[j] = audited[j] /\ succeeded'[j] = succeeded[j]
          /\ staged'[j] = staged[j] /\ held'[j] = held[j]
          /\ canonical'[j] = canonical[j] /\ answer'[j] = answer[j]
      BY <1>1, <2>2 DEF Apart
    <3>2. Copy(j)' /\ Returned(j)'
      <4>1. Copy(j) /\ Returned(j)
        BY DEF Inv
      <4> QED BY <3>1, <4>1 DEF Copy, Returned
    <3>3. (held[j].failure # NoOne => Failed(held[j].failure))'
      <4>1. ASSUME NEW f \in Calls, f = held[j].failure PROVE Failed(f)'
        <5>1. Failed(f)
          BY <4>1, ReportCommitAssumption DEF Inv
        <5> QED BY <1>1, <5>1, FailedStays
      <4>2. held[j].failure \in Calls \cup {NoOne}
        BY DEF Inv, TypeOK, State
      <4> QED BY <3>1, <4>1, <4>2 DEF Failed, Failing
    <3> QED BY <3>1, <3>2, <3>3
  <2> QED BY <2>1, <2>2
<1>3. Claimed'
  <2>1. warnings' = warnings /\ warnings \in {0, 1}
    BY <1>1, Onward DEF Inv, Claimed
  <2>2. ASSUME warnings = 1, NEW j \in Calls, pc'[j] \in Inside PROVE held'[j].warned
    <3>1. CASE j = k
      BY <2>2, <3>1 DEF Own
    <3>2. CASE j # k
      BY <1>1, <2>2, <3>2 DEF Apart, Inv, Claimed
    <3> QED BY <3>1, <3>2
  <2> QED BY <2>1, <2>2 DEF Own, Claimed
<1> QED BY <1>1, <1>2, <1>3 DEF Inv, Own

\* The steps that write neither the report state nor the memory of it.
LEMMA OwnQuiet ==
    ASSUME Inv, NEW k \in Calls, Step(k), UNCHANGED <<disk, held>>,
           pc[k] \in Inside \/ pc'[k] \notin Inside,
           Copy(k)', Returned(k)'
    PROVE  Own(k)
<1>1. Honest(disk)'
  BY Kept
<1>2. (held[k].failure # NoOne => Failed(held[k].failure))'
  <2>1. ASSUME NEW f \in Calls, f = held[k].failure PROVE Failed(f)'
    BY <2>1, FailedStays, ReportCommitAssumption DEF Inv
  <2>2. held[k].failure \in Calls \cup {NoOne}
    BY DEF Inv, TypeOK, State
  <2> QED BY <2>1, <2>2 DEF Failed, Failing
<1>3. warnings = 1 => disk'.warned /\ (pc'[k] \in Inside => held'[k].warned)
  BY DEF Inv, Claimed
<1> QED BY <1>1, <1>2, <1>3 DEF Own

\* And those that write the report state: `new` is honest if it tells the truth of
\* `k` and takes any other failure from the memory that was read from the disk.
LEMMA OwnWritten ==
    ASSUME Inv, NEW k \in Calls, Step(k), pc[k] \in Inside, NEW new \in State,
           new.warned = held[k].warned,
           new.failure \in {k, held[k].failure}, new.failure = k => Failed(k),
           new.of = k,
           new.form = "audited" /\ k \in Runs => audited'[k] /\ canonical'[k] = "audited",
           disk' \in {disk, new}, held'[k] \in {held[k], new},
           Copy(k)', Returned(k)'
    PROVE  Own(k)
<1>1. ASSUME NEW f \in Calls, f = held[k].failure \/ f = new.failure PROVE Failed(f)'
  BY <1>1, FailedStays, ReportCommitAssumption DEF Inv
<1>2. held[k].failure \in Calls \cup {NoOne} /\ new.failure \in Calls \cup {NoOne}
  BY DEF Inv, TypeOK, State
<1>3. Honest(disk)'
  <2>1. CASE disk' = disk
    BY <2>1, Kept
  <2>2. CASE disk' = new
    <3>1. (disk.failure # NoOne => Failed(disk.failure))'
      BY <1>1, <1>2, <2>2 DEF Failed, Failing
    <3> QED BY <2>2, <3>1 DEF Honest
  <2> QED BY <2>1, <2>2
<1>4. (held[k].failure # NoOne => Failed(held[k].failure))'
  BY <1>1, <1>2 DEF Failed, Failing
<1>5. warnings = 1 => disk'.warned /\ (pc'[k] \in Inside => held'[k].warned)
  BY DEF Inv, Claimed
<1> QED BY <1>3, <1>4, <1>5 DEF Own

LEMMA OwnStep == ASSUME Inv, NEW k \in Calls, Step(k) PROVE Own(k)
<1>a. TypeOK /\ Copy(k) /\ Returned(k)
  BY DEF Inv
<1>b. pc[k] # "done" => answer[k] = "none"
  BY <1>a DEF Returned
<1>c. \A to : GoTo(k, to) => pc'[k] = to
  BY <1>a DEF GoTo, TypeOK
<1>d. Unaudited(k) => audited'[k] = FALSE
  BY <1>a DEF Unaudited, TypeOK
<1>1. CASE Call(k)
  <2>1. /\ pc[k] = "idle" /\ pc'[k] = "start" /\ answer'[k] = "none"
        /\ UNCHANGED <<audited, staged, canonical, disk, held>>
    BY <1>1, <1>b, <1>c DEF Call, At
  <2>2. Copy(k)' /\ Returned(k)'
    BY <1>a, <2>1 DEF Copy, Returned
  <2> QED BY <2>1, <2>2, OwnQuiet DEF Inside
<1>2. CASE Begin(k)
  <2>1. pc[k] = "start" /\ UNCHANGED <<succeeded, staged, canonical, disk>>
    BY <1>2 DEF Begin, At
  <2>2. CASE held' = [held EXCEPT ![k] = disk] /\ UNCHANGED <<audited, answer>>
             /\ \E to \in {"snapshot", "stage", "mirror"} : GoTo(k, to) /\ to # (IF k \in Runs THEN "mirror" ELSE "stage")
    <3>1. pc'[k] \in {"snapshot", "stage", "mirror"} /\ pc'[k] # (IF k \in Runs THEN "mirror" ELSE "stage") /\ held'[k] = disk
      BY <1>a, <1>c, <2>2 DEF TypeOK
    <3>2. Copy(k)' /\ Returned(k)'
      BY <1>a, <1>b, <2>1, <2>2, <3>1 DEF Copy, Returned
    <3>3. Honest(disk)'
      BY <2>1, Kept
    <3>4. (held[k].failure # NoOne => Failed(held[k].failure))'
      BY <2>1, <3>1, <3>3 DEF Honest
    <3>5. warnings = 1 => disk'.warned /\ held'[k].warned
      BY <2>1, <3>1 DEF Inv, Claimed
    <3> QED BY <3>2, <3>3, <3>4, <3>5 DEF Own
  <2>3. CASE Unaudited(k) /\ GoTo(k, "done") /\ answer' = [answer EXCEPT ![k] = "rejected"] /\ UNCHANGED held
    <3>1. pc'[k] = "done" /\ answer'[k] = "rejected" /\ audited'[k] = FALSE
      BY <1>a, <1>c, <1>d, <2>3 DEF TypeOK
    <3>2. Copy(k)' /\ Returned(k)'
      BY <1>a, <2>1, <3>1 DEF Copy, Returned
    <3> QED BY <2>1, <2>3, <3>1, <3>2, OwnQuiet DEF Inside
  <2>4. \/ held' = [held EXCEPT ![k] = disk] /\ UNCHANGED <<audited, answer>>
             /\ \E to \in {"snapshot", "stage", "mirror"} : GoTo(k, to) /\ to # (IF k \in Runs THEN "mirror" ELSE "stage")
        \/ Unaudited(k) /\ GoTo(k, "done") /\ answer' = [answer EXCEPT ![k] = "rejected"] /\ UNCHANGED held
    <3> DEFINE to == IF ~succeeded[k] THEN "snapshot" ELSE IF k \in Runs THEN "stage" ELSE "mirror"
    <3>1. to \in {"snapshot", "stage", "mirror"} /\ to # (IF k \in Runs THEN "mirror" ELSE "stage")
      OBVIOUS
    <3>2. \/ held' = [held EXCEPT ![k] = disk] /\ UNCHANGED <<audited, answer>> /\ GoTo(k, to)
          \/ Unaudited(k) /\ GoTo(k, "done") /\ answer' = [answer EXCEPT ![k] = "rejected"] /\ UNCHANGED held
      BY <1>2 DEF Begin
    <3> HIDE DEF to
    <3> QED BY <3>1, <3>2
  <2> QED BY <2>2, <2>3, <2>4
<1>3. CASE Snapshot(k)
  <2>1. /\ pc[k] = "snapshot" /\ UNCHANGED <<staged, canonical, disk, held, answer>>
        /\ \/ audited'[k] = audited[k] /\ pc'[k] = IF k \in Runs THEN "stage" ELSE "mirror"
           \/ audited'[k] = FALSE /\ pc'[k] = "record"
    BY <1>3, <1>c, <1>d DEF Snapshot, At
  <2>2. Copy(k)' /\ Returned(k)'
    BY <1>a, <1>b, <2>1 DEF Copy, Returned
  <2> QED BY <2>1, <2>2, OwnQuiet DEF Inside
<1>4. CASE Stage(k)
  <2>1. pc[k] = "stage" /\ UNCHANGED <<disk, held, answer>> /\ k \in Calls
    BY <1>4 DEF Stage, At
  <2>2. \/ audited'[k] = audited[k] /\ pc'[k] = "mirror" /\ staged'[k] /\ canonical'[k] = "pending"
        \/ audited'[k] = FALSE /\ pc'[k] = "record" /\ ~staged'[k] /\ canonical'[k] \in {"none", "pending"}
    <3>1. ~staged[k] /\ canonical[k] \in {"none", "pending"}
      BY <1>a, <2>1 DEF Copy
    <3> QED BY <1>4, <1>a, <1>c, <1>d, <3>1 DEF Stage, TypeOK
  <2>3. k \in Runs
    BY <1>a, <2>1 DEF Copy
  <2>4. Copy(k)' /\ Returned(k)'
    BY <1>a, <1>b, <2>1, <2>2, <2>3 DEF Copy, Returned
  <2> QED BY <2>1, <2>4, OwnQuiet DEF Inside
<1>5. CASE Mirror(k)
  <2>1. /\ pc[k] = "mirror" /\ pc'[k] = "record" /\ UNCHANGED <<staged, canonical, disk, held, answer>>
        /\ audited'[k] = audited[k] \/ audited'[k] = FALSE
    BY <1>5, <1>c, <1>d DEF Mirror, At
  <2>2. Copy(k)' /\ Returned(k)'
    BY <1>a, <1>b, <2>1 DEF Copy, Returned
  <2> QED BY <2>1, <2>2, OwnQuiet DEF Inside
<1>6. CASE RecordState(k)
  <2>1. pc[k] = "record" /\ pc[k] \in Inside /\ audited[k] \in BOOLEAN /\ UNCHANGED <<staged, canonical, succeeded>>
    BY <1>6, <1>a DEF RecordState, At, Inside, TypeOK
  <2>2. disk' \in {disk, Record(k)} /\ held'[k] \in {held[k], Record(k)}
    BY <1>6, <1>a DEF RecordState, TypeOK
  <2>3. /\ Record(k) \in State
        /\ Record(k).warned = held[k].warned /\ Record(k).of = k
        /\ Record(k).failure \in {k, held[k].failure}
        /\ Record(k).form = "audited" => audited[k] /\ ~staged[k]
    <3>1. held[k] \in State /\ staged[k] \in BOOLEAN
      BY <1>a DEF TypeOK
    <3> QED BY <1>a, <2>1, <3>1, StateType DEF Record, Readback, Promoting, State
  <2>4. Record(k).failure = k => Failed(k)
    <3>1. held[k].failure = k => Failed(k)
      BY ReportCommitAssumption DEF Inv
    <3>2. held[k] \in State
      BY <1>a DEF TypeOK
    <3> QED BY <2>1, <3>1, <3>2 DEF Record, Readback, Failed, State
  <2>5. Record(k).form = "audited" => k \notin Runs
    BY <1>a, <2>1, <2>3 DEF Copy
  <2>6. \/ pc'[k] = "promote" /\ staged[k] /\ audited[k] /\ audited'[k] = audited[k] /\ answer'[k] = answer[k]
        \/ pc'[k] = "restate" /\ audited'[k] = FALSE /\ answer'[k] = answer[k]
        \/ pc'[k] = "revoke" /\ ~audited[k] /\ audited'[k] = audited[k] /\ answer'[k] = answer[k]
        \/ /\ pc'[k] = "done" /\ audited'[k] = audited[k] /\ ~(staged[k] /\ audited[k])
           /\ answer'[k] = IF audited[k] THEN "accepted" ELSE "rejected"
    <3>1. CASE Promoting(k) /\ GoTo(k, "promote") /\ UNCHANGED <<audited, answer>>
      BY <1>c, <3>1 DEF Promoting
    <3>2. CASE ~Promoting(k) /\ Leave(k, audited[k]) /\ UNCHANGED audited
      BY <1>a, <2>1, <3>2, Left DEF Promoting
    <3>3. CASE GoTo(k, "restate") /\ Unaudited(k) /\ UNCHANGED answer
      BY <1>c, <1>d, <3>3
    <3> QED BY <1>6, <3>1, <3>2, <3>3 DEF RecordState
  <2>7. Copy(k)' /\ Returned(k)'
    BY <1>a, <1>b, <2>1, <2>6 DEF Copy, Returned
  <2> QED BY <2>1, <2>2, <2>3, <2>4, <2>5, <2>7, OwnWritten
<1>7. CASE Restate(k)
  <2> DEFINE new == [held[k] EXCEPT !.of = k, !.form = "unaudited", !.failure = k]
  <2>1. pc[k] = "restate" /\ pc[k] \in Inside /\ UNCHANGED <<memory, canonical>> /\ ~audited[k] /\ disk' \in {disk, new}
    BY <1>7, <1>a DEF Restate, At, Inside, Copy
  <2>2. \/ pc'[k] = "revoke" /\ answer'[k] = answer[k]
        \/ pc'[k] = "done" /\ answer'[k] = "rejected"
    BY <1>7, <1>a, <2>1, Left DEF Restate
  <2>3. Copy(k)' /\ Returned(k)'
    BY <1>a, <1>b, <2>1, <2>2 DEF Copy, Returned, memory
  <2>4. new \in State /\ new.warned = held[k].warned /\ new.of = k /\ new.failure = k /\ new.form # "audited"
    BY <1>a DEF TypeOK, State, Forms
  <2>5. Failed(k)
    BY <2>1 DEF Failed, Failing
  <2>6. held'[k] = held[k]
    BY <2>1 DEF memory
  <2> HIDE DEF new
  <2> QED BY <2>1, <2>3, <2>4, <2>5, <2>6, OwnWritten
<1>8. CASE Promote(k)
  <2>1. /\ pc[k] = "promote" /\ pc'[k] = "reconcile" /\ UNCHANGED <<staged, disk, held, answer>>
        /\ \/ audited'[k] = audited[k] /\ canonical'[k] = "audited"
           \/ audited'[k] = FALSE /\ (canonical'[k] = canonical[k] \/ Unreadable)
    BY <1>8, <1>a, <1>c, <1>d DEF Promote, At, TypeOK
  <2>2. Copy(k)' /\ Returned(k)'
    BY <1>a, <1>b, <2>1, ReportCommitAssumption DEF Copy, Returned
  <2> QED BY <2>1, <2>2, OwnQuiet DEF Inside
<1>9. CASE Reconcile(k)
  <2>1. /\ pc[k] = "reconcile" /\ pc[k] \in Inside /\ UNCHANGED <<memory, canonical>> /\ audited[k] \in BOOLEAN
        /\ disk' \in {disk, Readback(k)}
    BY <1>9, <1>a DEF Reconcile, At, Inside, TypeOK
  <2>2. \/ pc'[k] = "revoke" /\ answer'[k] = answer[k] /\ ~audited[k]
        \/ pc'[k] = "done" /\ audited[k] /\ answer'[k] = "accepted"
    <3>1. staged[k]
      BY <1>a, <2>1 DEF Copy
    <3> QED BY <1>9, <1>a, <2>1, <3>1, Left DEF Reconcile
  <2>3. Copy(k)' /\ Returned(k)'
    BY <1>a, <1>b, <2>1, <2>2 DEF Copy, Returned, memory
  <2>4. /\ Readback(k) \in State
        /\ Readback(k).warned = held[k].warned /\ Readback(k).of = k
        /\ Readback(k).failure \in {k, held[k].failure}
        /\ Readback(k).form = "audited" => audited[k]
    <3>1. held[k] \in State
      BY <1>a DEF TypeOK
    <3> QED BY <1>a, <3>1, StateType DEF Readback, State
  <2>5. Readback(k).failure = k => Failed(k)
    <3>1. held[k].failure = k => Failed(k)
      BY ReportCommitAssumption DEF Inv
    <3>2. held[k] \in State
      BY <1>a DEF TypeOK
    <3> QED BY <2>1, <3>1, <3>2 DEF Readback, Failed, State
  <2>6. Readback(k).form = "audited" => audited'[k] /\ canonical'[k] = "audited"
    BY <1>a, <2>1, <2>4 DEF Copy, memory
  <2>7. held'[k] = held[k]
    BY <2>1 DEF memory
  <2> QED BY <2>1, <2>3, <2>4, <2>5, <2>6, <2>7, OwnWritten
<1>10. CASE Revoke(k)
  <2>1. /\ pc[k] = "revoke" /\ pc'[k] = "done" /\ UNCHANGED <<memory, disk>>
        /\ canonical'[k] \in {canonical[k], "unaudited", "none"} /\ answer'[k] = "rejected"
    <3>1. \/ canonical' = canonical \/ canonical' = [canonical EXCEPT ![k] = "unaudited"]
          \/ canonical' = [canonical EXCEPT ![k] = "none"]
      BY <1>10 DEF Revoke
    <3> QED BY <1>10, <1>a, <1>c, <3>1 DEF Revoke, At, TypeOK
  <2>2. Copy(k)' /\ Returned(k)'
    BY <1>a, <2>1 DEF Copy, Returned, memory
  <2>3. UNCHANGED <<disk, held>>
    BY <2>1 DEF memory
  <2> QED BY <2>1, <2>2, <2>3, OwnQuiet DEF Inside
<1>11. CASE Dies(k)
  <2>1. pc'[k] = "dead" /\ pc[k] # "done" /\ UNCHANGED <<audited, staged, held, canonical, disk, answer>>
    BY <1>11, <1>c DEF Dies, memory
  <2>2. Copy(k)' /\ Returned(k)'
    BY <1>a, <1>b, <2>1 DEF Copy, Returned
  <2> QED BY <2>1, <2>2, OwnQuiet DEF Inside
<1> QED BY <1>1, <1>2, <1>3, <1>4, <1>5, <1>6, <1>7, <1>8, <1>9, <1>10, <1>11 DEF Step

\* The claim of the warning, which no call may be writing beside.
LEMMA OwnClaim == ASSUME Inv, ClaimWarning PROVE Inv'
<1>1. UNCHANGED <<lock, pc, memory, canonical, answer>> /\ disk' = [disk EXCEPT !.warned = TRUE] /\ disk \in State
  BY DEF ClaimWarning, Inv, TypeOK
<1>2. TypeOK'
  BY TypeStep DEF Inv, Next
<1>3. ASSUME NEW k \in Calls PROVE (Copy(k) /\ Returned(k) /\ (held[k].failure # NoOne => Failed(held[k].failure)))'
  <2>1. Copy(k) /\ Returned(k) /\ (held[k].failure # NoOne => Failed(held[k].failure))
    BY DEF Inv
  <2> QED BY <1>1, <2>1 DEF Copy, Returned, Failed, Failing, memory
<1>4. Honest(disk)'
  <2>1. Honest(disk) /\ disk'.of = disk.of /\ disk'.form = disk.form /\ disk'.failure = disk.failure
    BY <1>1 DEF Inv, State
  <2> QED BY <1>1, <2>1 DEF Honest, Failed, Failing, memory
<1>5. Claimed'
  <2>1. warnings = 0 /\ warnings' \in {0, 1} /\ disk'.warned
    BY <1>1 DEF ClaimWarning, Inv, Claimed, State
  <2>2. \A k \in Calls : pc'[k] \notin Inside
    BY <1>1, ReportCommitAssumption DEF ClaimWarning, Inv, TypeOK
  <2> QED BY <2>1, <2>2 DEF Claimed
<1> QED BY <1>2, <1>3, <1>4, <1>5 DEF Inv

LEMMA InvStep == Inv /\ [Next]_vars => Inv'
<1> SUFFICES ASSUME Inv, [Next]_vars PROVE Inv'
  OBVIOUS
<1>1. CASE UNCHANGED vars
  BY <1>1 DEF vars, Inv, TypeOK, Copy, Returned, Failed, Failing, Honest, Claimed
<1>2. CASE ClaimWarning
  BY <1>2, OwnClaim
<1>3. ASSUME NEW k \in Calls, Step(k) PROVE Inv'
  BY <1>3, OwnStep, OwnEnough
<1> QED BY <1>1, <1>2, <1>3 DEF Next

LEMMA InvHolds == Spec => []Inv
BY InvInit, InvStep, PTL DEF Spec

-----------------------------------------------------------------------------
(* What the invariant says of the files.                                   *)

\* A run read back as audited has its own copy on disk (ReadbackBacked).
THEOREM ReadbackIsBacked == Spec => []ReadbackBacked
<1>1. Inv => ReadbackBacked
  BY DEF Inv, Honest, ReadbackBacked
<1> QED BY <1>1, InvHolds, PTL

\* What was accepted stays in the run's own copy (AcceptedKept).
THEOREM AcceptedIsKept == Spec => []AcceptedKept
<1>1. Inv => AcceptedKept
  BY ReportCommitAssumption DEF Inv, Returned, AcceptedKept
<1> QED BY <1>1, InvHolds, PTL

\* What reads as audited has its copy, and what was accepted keeps it, whichever
\* calls follow, fail or die (AuditedCopyKept).
THEOREM AuditedCopyIsKept == Spec => []AuditedCopyKept
<1>1. Inv => AuditedCopyKept
  BY ReportCommitAssumption DEF Inv, Honest, Returned, ReadbackBacked, AcceptedKept, AuditedCopyKept
<1> QED BY <1>1, InvHolds, PTL

\* The last failure on record is a call that failed (FailureHonest).
THEOREM FailureIsHonest == Spec => []FailureHonest
<1>1. Inv => FailureHonest
  <2> SUFFICES ASSUME Inv, disk.failure # NoOne, answer[disk.failure] = "accepted"
               PROVE  ~succeeded[disk.failure]
    BY DEF FailureHonest
  <2>1. disk.failure \in Calls
    BY DEF Inv, TypeOK, State
  <2> QED BY <2>1 DEF Inv, Honest, Returned, Failed, Failing
<1> QED BY <1>1, InvHolds, PTL

\* The warning is claimed once (WarnedOnce).
THEOREM WarnedAtMostOnce == Spec => []WarnedOnce
<1>1. Inv => WarnedOnce
  BY DEF Inv, Claimed, WarnedOnce
<1> QED BY <1>1, InvHolds, PTL

\* Where a file just written can be read back, no trusted record of a run reads as
\* audited for a call that returned `audit_ok: false` (NoFalseGreen).
THEOREM NeverFalseGreen == ~Unreadable => (Spec => []NoFalseGreen)
<1> SUFFICES ASSUME ~Unreadable PROVE Spec => []NoFalseGreen
  OBVIOUS
<1>1. Inv => NoFalseGreen
  BY ReportCommitAssumption DEF Inv, Honest, Returned, NoFalseGreen
<1> QED BY <1>1, InvHolds, PTL
=============================================================================
