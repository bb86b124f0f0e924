------------------------- MODULE RunLifecycleProofs -------------------------
(* What TLAPS proves of RunLifecycle, for any runs, starts and readers: no    *)
(* prune takes the files of a live run, what is read of a run's end is true,  *)
(* and a start that gives up leaves no plan running, as long as no worker     *)
(* comes alive after the widest start window and a prune can read a record.   *)
EXTENDS RunLifecycle, FiniteSetTheorems, SequenceTheorems, TLAPS

\* What the proofs ask of the constants: finitely many runs.
Countable == IsFiniteSet(Handles) /\ Nobody \notin Handles

\* A worker is up within the widest start window, and a record can be read.
Punctual == LateWorkers = FALSE /\ ReadFaults \subseteq {FALSE}

-----------------------------------------------------------------------------
(* The inductive invariant.                                                 *)

\* The worker has its lock.
Holding == {"locked"} \cup Registered

\* Nothing of the run is left to write.
Ended == Over \cup {"published"}

Starts ==
    [pc : {"idle", "watching", "judging", "failing", "giving_up", "done"},
     seen : RecordStates, exited : BOOLEAN,
     said : {"none", "failed", "unresponsive", "running"} \cup TERMINAL_RUN_STATES]
PruneJobs == [phase : {"off", "cap", "sweep"}, todo : SUBSET Handles, at : Handles \cup {Nobody}]
Calls ==
    [op : {"none", "status", "list", "stop"}, at : Handles \cup {Nobody},
     seen : RecordStates, stage : {"idle", "probe", "gone", "alive", "again"},
     said : {"none", "worker_gone", "asked"} \cup RecordStates]

Typed ==
    /\ setting \in Settings
    /\ rec \in [Handles -> RecordStates]
    /\ order \in Seq(Handles)
    /\ stop \in [Handles -> BOOLEAN] /\ aged \in [Handles -> BOOLEAN]
    /\ worker \in [Handles -> {"none"} \cup Alive \cup Over]
    /\ lock \in [Handles -> {"none", "path", "unlinked"}]
    /\ outcome \in [Handles -> {"none"} \cup TERMINAL_RUN_STATES]
    /\ ran \in [Handles -> BOOLEAN] /\ quiet \in [Handles -> BOOLEAN]
    /\ start \in [Handles -> Starts] /\ early \in [Handles -> BOOLEAN]
    /\ job \in [Pruners -> PruneJobs] /\ call \in [Readers -> Calls]
    /\ probing \in [Pruners \cup Readers -> Handles \cup {Nobody}]

\* A run that has not published its end holds the file at the path.
LockOf(h) ==
    /\ lock[h] # "none" <=> worker[h] \in Holding
    /\ worker[h] \in Holding \ {"published"} => lock[h] = "path"
ProbesFree == \A a \in Pruners \cup Readers, h \in Handles : probing[a] = h => lock[h] # "path"

\* What a record says of its worker.
RecordOf(h) ==
    /\ worker[h] \in Registered => rec[h] # "none"
    /\ rec[h] # "none" => worker[h] \in Registered \cup {"exited", "killed", "unrecorded"}
    /\ rec[h] = "removed" => worker[h] \in Ended
    /\ rec[h] \in TERMINAL_RUN_STATES => worker[h] \in {"published", "exited", "killed"}
    /\ worker[h] \in {"closing", "published", "exited"} => outcome[h] \in TERMINAL_RUN_STATES
    /\ worker[h] \in {"published", "exited"} => rec[h] \in {outcome[h], "removed"}
    /\ ran[h] => rec[h] # "none"

\* The listing names the runs that have a record, each once.
Listing == IsInjective(order) /\ Range(order) = {h \in Handles : rec[h] \notin Absent}

\* Only a worker that is up has files old enough to be swept.
AgedOf(h) == aged[h] => worker[h] \notin {"none", "spawned"}

\* What a prune takes is over, however long ago it looked.
JobOf(a) ==
    /\ job[a].at \in Handles => worker[job[a].at] \in Ended
    /\ job[a].phase = "cap" =>
          /\ \A h \in job[a].todo : rec[h] # "none"
          /\ job[a].at \in Handles => rec[job[a].at] # "none"

\* A question under way is about a run that has had a record.
CallOf(r) ==
    /\ call[r].stage # "idle" => /\ call[r].at \in Handles /\ call[r].said = "none"
                                 /\ rec[call[r].at] # "none" /\ call[r].seen \in {"starting", "running"}
    /\ call[r].stage \in {"gone", "again"} => worker[call[r].at] \in Ended
    /\ call[r].said = "worker_gone" => call[r].at \in Handles
    /\ call[r].op = "status" /\ call[r].said = "worker_gone"
          => worker[call[r].at] \in Lost \/ rec[call[r].at] = "removed"

\* A stop planted before the first look is still there when the first step is due.
PlantOf(h) ==
    /\ worker[h] \in {"none", "spawned", "locked", "pruning"} => ~quiet[h] /\ ~ran[h]
    /\ early[h] => ~ran[h] /\ worker[h] \notin {"none", "step"}
    /\ early[h] /\ worker[h] \in {"spawned", "locked", "pruning", "waiting", "holding", "boundary"}
          => stop[h] /\ ~quiet[h]

\* A start that has seen its worker's end reads a record that no longer changes,
\* unless it is removed.
StartOf(h) ==
    /\ h \in setting.detached => (start[h].pc = "idle" <=> worker[h] = "none")
    /\ start[h].exited \/ start[h].pc = "failing" \/ start[h].said = "failed" => worker[h] \in Over
    /\ start[h].pc = "judging" /\ start[h].exited /\ start[h].seen \in Absent => rec[h] = start[h].seen
    /\ start[h].pc = "failing" \/ start[h].said = "failed" => rec[h] \in Absent

RunOf(h) == LockOf(h) /\ RecordOf(h) /\ AgedOf(h) /\ PlantOf(h) /\ StartOf(h)
OfRuns == \A h \in Handles : RunOf(h)
OfPrunes == ProbesFree /\ \A a \in Pruners : JobOf(a)
OfReaders == \A r \in Readers : CallOf(r)

IInv == Typed /\ Listing /\ OfRuns /\ OfPrunes /\ OfReaders

-----------------------------------------------------------------------------
(* The listing.                                                             *)

\* An element that occurs once is taken out of a sequence.
LEMMA TakenOut ==
    ASSUME NEW S, NEW s \in Seq(S), IsInjective(s), NEW e
    PROVE  LET t == RemoveFirst(s, e) IN
           t \in Seq(S) /\ IsInjective(t) /\ Range(t) = Range(s) \ {e}
<1> DEFINE t == RemoveFirst(s, e)
<1>0. Len(s) \in Nat /\ DOMAIN s = 1..Len(s)
  OBVIOUS
<1>1. CASE ~\E i \in 1..Len(s) : s[i] = e
  <2>1. t = s
    BY <1>1 DEF RemoveFirst
  <2>2. e \notin Range(s)
    BY <1>0, <1>1 DEF Range
  <2> QED BY <2>1, <2>2
<1>2. CASE \E i \in 1..Len(s) : s[i] = e
  <2>1. PICK k \in 1..Len(s) : s[k] = e
    BY <1>2
  <2>2. t = RemoveAt(s, k)
    <3>1. {i \in 1..Len(s) : s[i] = e} = {k}
      BY <1>0, <2>1 DEF IsInjective
    <3>2. Min({k}) = k
      BY <2>1 DEF Min
    <3>3. SelectInSeq(s, LAMBDA v : v = e) = k
      BY <3>1, <3>2 DEF SelectInSeq
    <3> QED BY <1>2, <3>3 DEF RemoveFirst
  <2> DEFINE a == SubSeq(s, 1, k - 1)
             b == SubSeq(s, k + 1, Len(s))
  <2>3. /\ a \in Seq(S) /\ Len(a) = k - 1
        /\ \A n \in 1..k - 1 : a[n] = s[n]
    <3>1. \A n \in 1..k - 1 : s[n] \in S
      BY <1>0, <2>1
    <3> QED BY <1>0, <2>1, <3>1, SubSeqProperties
  <2>4. /\ b \in Seq(S) /\ Len(b) = Len(s) - k
        /\ \A n \in 1..Len(s) - k : b[n] = s[n + k]
    <3>1. \A n \in k + 1..Len(s) : s[n] \in S
      BY <1>0, <2>1
    <3>2. /\ b \in Seq(S) /\ Len(b) = IF k + 1 <= Len(s) THEN Len(s) - (k + 1) + 1 ELSE 0
          /\ \A n \in 1..Len(s) - (k + 1) + 1 : b[n] = s[(k + 1) + n - 1]
      <4>1. k + 1 \in Int /\ Len(s) \in Int
        BY <1>0, <2>1
      <4> QED BY <3>1, <4>1, SubSeqProperties
    <3> HIDE DEF b
    <3>3. Len(s) - (k + 1) + 1 = Len(s) - k /\ \A n \in 1..Len(s) - k : (k + 1) + n - 1 = n + k
      BY <1>0, <2>1
    <3>4. (IF k + 1 <= Len(s) THEN Len(s) - (k + 1) + 1 ELSE 0) = Len(s) - k
      <4>1. PICK m \in Nat : m = Len(s) /\ k \in 1..m
        BY <1>0, <2>1
      <4>2. k + 1 <= m => m - (k + 1) + 1 = m - k
        BY <4>1
      <4>3. ~(k + 1 <= m) => 0 = m - k
        BY <4>1
      <4> QED BY <4>1, <4>2, <4>3
    <3> QED BY <3>2, <3>3, <3>4
  <2> HIDE DEF a, b
  <2>5. /\ a \o b \in Seq(S) /\ Len(a \o b) = Len(s) - 1
        /\ \A n \in 1..Len(s) - 1 : (a \o b)[n] = IF n < k THEN s[n] ELSE s[n + 1]
    <3>1. /\ a \o b \in Seq(S) /\ Len(a \o b) = Len(a) + Len(b)
          /\ \A n \in 1..Len(a) + Len(b) : (a \o b)[n] = IF n <= Len(a) THEN a[n] ELSE b[n - Len(a)]
      BY <2>3, <2>4, ConcatProperties
    <3>2. Len(a) + Len(b) = Len(s) - 1
      BY <1>0, <2>1, <2>3, <2>4
    <3>3. ASSUME NEW n \in 1..Len(s) - 1 PROVE (a \o b)[n] = IF n < k THEN s[n] ELSE s[n + 1]
      <4>1. CASE n < k
        <5>1. n \in 1..k - 1 /\ n <= k - 1
          BY <1>0, <2>1, <4>1
        <5> QED BY <2>3, <3>1, <3>2, <4>1, <5>1
      <4>2. CASE ~(n < k)
        <5>1. ~(n <= k - 1) /\ n - (k - 1) \in 1..Len(s) - k /\ (n - (k - 1)) + k = n + 1
          BY <1>0, <2>1, <4>2
        <5> QED BY <2>3, <2>4, <3>1, <3>2, <4>2, <5>1
      <4> QED BY <4>1, <4>2
    <3> QED BY <3>1, <3>2, <3>3
  <2>6. t = a \o b
    BY <2>2 DEF RemoveAt, a, b
  <2> HIDE DEF t
  <2>7. t \in Seq(S) /\ DOMAIN t = 1..Len(s) - 1 /\ \A n \in 1..Len(s) - 1 : t[n] = IF n < k THEN s[n] ELSE s[n + 1]
    BY <2>5, <2>6
  <2>8. IsInjective(t)
    <3>1. SUFFICES ASSUME NEW x \in 1..Len(s) - 1, NEW y \in 1..Len(s) - 1, t[x] = t[y] PROVE x = y
      BY <2>7 DEF IsInjective
    <3> DEFINE p(n) == IF n < k THEN n ELSE n + 1
    <3>2. \A n \in 1..Len(s) - 1 : p(n) \in 1..Len(s) /\ t[n] = s[p(n)]
      BY <1>0, <2>1, <2>7
    <3>3. p(x) = p(y)
      BY <1>0, <3>1, <3>2 DEF IsInjective
    <3> QED BY <1>0, <2>1, <3>1, <3>3
  <2>9. Range(t) = Range(s) \ {e}
    <3>1. ASSUME NEW x \in Range(t) PROVE x \in Range(s) \ {e}
      <4>1. PICK n \in 1..Len(s) - 1 : x = t[n]
        BY <2>7, <3>1 DEF Range
      <4>2. PICK m \in 1..Len(s) : m # k /\ x = s[m]
        BY <1>0, <2>1, <2>7, <4>1
      <4>3. x # e
        BY <1>0, <2>1, <4>2 DEF IsInjective
      <4> QED BY <1>0, <4>2, <4>3 DEF Range
    <3>2. ASSUME NEW x \in Range(s) \ {e} PROVE x \in Range(t)
      <4>1. PICK m \in 1..Len(s) : x = s[m]
        BY <1>0, <3>2 DEF Range
      <4>2. m # k
        BY <2>1, <3>2, <4>1
      <4>3. PICK n \in 1..Len(s) - 1 : x = t[n]
        <5>1. CASE m < k
          BY <1>0, <2>1, <2>7, <4>1, <5>1
        <5>2. CASE m > k
          <6>1. m - 1 \in 1..Len(s) - 1 /\ ~(m - 1 < k) /\ (m - 1) + 1 = m
            BY <1>0, <2>1, <4>1, <5>2
          <6> QED BY <2>7, <4>1, <6>1
        <5> QED BY <1>0, <2>1, <4>1, <4>2, <5>1, <5>2
      <4> QED BY <2>7, <4>3 DEF Range
    <3> QED BY <3>1, <3>2
  <2> QED BY <2>7, <2>8, <2>9 DEF t
<1> QED BY <1>1, <1>2

\* One that does not occur is put in front of it.
LEMMA PutFirst ==
    ASSUME NEW S, NEW s \in Seq(S), IsInjective(s), NEW e \in S, e \notin Range(s)
    PROVE  LET t == <<e>> \o s IN
           t \in Seq(S) /\ IsInjective(t) /\ Range(t) = Range(s) \cup {e}
<1> DEFINE t == <<e>> \o s
<1>0. Len(s) \in Nat /\ DOMAIN s = 1..Len(s)
  OBVIOUS
<1>1. <<e>> \in Seq(S) /\ Len(<<e>>) = 1 /\ <<e>>[1] = e
  OBVIOUS
<1>2. /\ t \in Seq(S) /\ Len(t) = 1 + Len(s)
      /\ \A n \in 1..1 + Len(s) : t[n] = IF n <= 1 THEN <<e>>[n] ELSE s[n - 1]
  BY <1>1, ConcatProperties
<1>3. /\ DOMAIN t = 1..Len(s) + 1 /\ t[1] = e
      /\ \A n \in 2..Len(s) + 1 : n - 1 \in 1..Len(s) /\ t[n] = s[n - 1]
  BY <1>0, <1>1, <1>2
<1> HIDE DEF t
<1>4. \A n \in 1..Len(s) : s[n] \in Range(s) /\ s[n] # e
  BY <1>0 DEF Range
<1>5. IsInjective(t)
  <2>1. SUFFICES ASSUME NEW x \in 1..Len(s) + 1, NEW y \in 1..Len(s) + 1, t[x] = t[y] PROVE x = y
    BY <1>3 DEF IsInjective
  <2>2. CASE x = 1 \/ y = 1
    <3>1. \A n \in 1..Len(s) + 1 : n = 1 \/ t[n] # e
      <4>1. \A n \in 1..Len(s) + 1 : n = 1 \/ n \in 2..Len(s) + 1
        BY <1>0
      <4> QED BY <1>3, <1>4, <4>1
    <3> QED BY <1>3, <2>1, <2>2, <3>1
  <2>3. CASE x # 1 /\ y # 1
    <3>1. x - 1 \in 1..Len(s) /\ y - 1 \in 1..Len(s) /\ t[x] = s[x - 1] /\ t[y] = s[y - 1]
      BY <1>0, <1>3, <2>3
    <3>2. x - 1 = y - 1
      BY <1>0, <2>1, <3>1 DEF IsInjective
    <3> QED BY <1>0, <3>2
  <2> QED BY <2>2, <2>3
<1>6. Range(t) = Range(s) \cup {e}
  <2>1. ASSUME NEW x \in Range(t) PROVE x \in Range(s) \cup {e}
    <3>1. PICK n \in 1..Len(s) + 1 : x = t[n]
      BY <1>3, <2>1 DEF Range
    <3>2. n = 1 \/ n \in 2..Len(s) + 1
      BY <1>0
    <3> QED BY <1>3, <1>4, <3>1, <3>2
  <2>2. ASSUME NEW x \in Range(s) PROVE x \in Range(t)
    <3>1. PICK n \in 1..Len(s) : x = s[n]
      BY <1>0, <2>2 DEF Range
    <3>2. n + 1 \in 2..Len(s) + 1 /\ (n + 1) - 1 = n /\ n + 1 \in 1..Len(s) + 1
      BY <1>0
    <3>3. t[n + 1] = x
      BY <1>3, <3>1, <3>2
    <3> QED BY <1>3, <3>2, <3>3 DEF Range
  <2>3. e \in Range(t)
    <3>1. 1 \in DOMAIN t
      BY <1>0, <1>3
    <3> QED BY <1>3, <3>1 DEF Range
  <2> QED BY <2>1, <2>2, <2>3
<1> QED BY <1>2, <1>5, <1>6 DEF t

-----------------------------------------------------------------------------
(* A record, written and removed.                                           *)

LEMMA PublishIs ==
    ASSUME IInv, NEW h \in Handles, NEW state \in RecordStates \ Absent, Publish(h, state)
    PROVE  /\ rec' \in [Handles -> RecordStates] /\ rec'[h] = state
           /\ \A g \in Handles \ {h} : rec'[g] = rec[g]
           /\ order' \in Seq(Handles) /\ Listing'
<1>0. rec \in [Handles -> RecordStates] /\ order \in Seq(Handles) /\ Listing
  BY DEF IInv, Typed
<1>1. rec' = [rec EXCEPT ![h] = state] /\ order' = <<h>> \o RemoveFirst(order, h)
  BY DEF Publish
<1>2. /\ rec' \in [Handles -> RecordStates] /\ rec'[h] = state
      /\ \A g \in Handles \ {h} : rec'[g] = rec[g]
  BY <1>0, <1>1
<1> DEFINE rest == RemoveFirst(order, h)
<1>3. rest \in Seq(Handles) /\ IsInjective(rest) /\ Range(rest) = Range(order) \ {h}
  BY <1>0, TakenOut DEF Listing
<1> HIDE DEF rest
<1>4. <<h>> \o rest \in Seq(Handles) /\ IsInjective(<<h>> \o rest) /\ Range(<<h>> \o rest) = Range(rest) \cup {h}
  BY <1>3, PutFirst
<1>5. order' = <<h>> \o rest
  BY <1>1 DEF rest
<1>6. order' \in Seq(Handles) /\ IsInjective(order') /\ Range(order') = Range(order) \cup {h}
  BY <1>3, <1>4, <1>5
<1>7. Range(order) \subseteq Handles
  BY <1>0 DEF Range
<1>8. Range(order') = {g \in Handles : rec'[g] \notin Absent}
  BY <1>0, <1>2, <1>6, <1>7 DEF Listing
<1> QED BY <1>2, <1>6, <1>8 DEF Listing

\* The run says that it is running, or its record stays as it was.
LEMMA ProgressIs ==
    ASSUME IInv, NEW h \in Handles, Progress(h)
    PROVE  /\ rec' \in [Handles -> RecordStates] /\ rec'[h] \in {"running", rec[h]}
           /\ \A g \in Handles \ {h} : rec'[g] = rec[g]
           /\ order' \in Seq(Handles) /\ Listing'
<1>1. CASE Publish(h, "running")
  <2>1. "running" \in RecordStates \ Absent
    BY DEF RecordStates, Absent
  <2> QED BY <1>1, <2>1, PublishIs
<1>2. CASE UNCHANGED <<rec, order>>
  BY <1>2 DEF IInv, Typed, Listing
<1> QED BY <1>1, <1>2 DEF Progress

LEMMA UnlinkIs ==
    ASSUME Countable, IInv, NEW h \in Handles, NEW removed \in {"removed", rec[h]}, Unlink(h, removed)
    PROVE  /\ rec' \in [Handles -> RecordStates] /\ rec'[h] = removed
           /\ \A g \in Handles \ {h} : rec'[g] = rec[g]
           /\ order' \in Seq(Handles) /\ Listing'
           /\ stop' \in [Handles -> BOOLEAN] /\ \A g \in Handles \ {h} : stop'[g] = stop[g]
           /\ lock' \in [Handles -> {"none", "path", "unlinked"}]
           /\ lock'[h] = (IF lock[h] = "path" THEN "unlinked" ELSE lock[h])
           /\ \A g \in Handles \ {h} : lock'[g] = lock[g]
           /\ probing' \in [Pruners \cup Readers -> Handles \cup {Nobody}]
           /\ \A a \in Pruners \cup Readers : probing'[a] \in Handles => probing'[a] = probing[a] /\ probing[a] # h
<1>0. Typed /\ Listing
  BY DEF IInv
<1>1. /\ rec' = [rec EXCEPT ![h] = removed] /\ order' = (IF removed \in Absent THEN RemoveFirst(order, h) ELSE order)
      /\ stop' = [stop EXCEPT ![h] = FALSE]
      /\ lock' = [lock EXCEPT ![h] = IF @ = "path" THEN "unlinked" ELSE @]
      /\ probing' = [a \in DOMAIN probing |-> IF probing[a] = h THEN Nobody ELSE probing[a]]
  BY DEF Unlink
<1>2. /\ rec' \in [Handles -> RecordStates] /\ rec'[h] = removed
      /\ \A g \in Handles \ {h} : rec'[g] = rec[g]
  <2>1. removed \in RecordStates
    <3>1. rec[h] \in RecordStates /\ "removed" \in RecordStates
      BY <1>0 DEF Typed, RecordStates, Absent
    <3> QED BY <3>1
  <2> QED BY <1>0, <1>1, <2>1 DEF Typed
<1>3. ASSUME removed \in Absent PROVE order' \in Seq(Handles) /\ Listing'
  <2>1. order' \in Seq(Handles) /\ IsInjective(order') /\ Range(order') = Range(order) \ {h}
    BY <1>0, <1>1, <1>3, TakenOut DEF Listing, Typed
  <2>2. Range(order') = {g \in Handles : rec'[g] \notin Absent}
    BY <1>0, <1>2, <1>3, <2>1 DEF Listing
  <2> QED BY <2>1, <2>2 DEF Listing
<1>4. ASSUME removed \notin Absent PROVE order' \in Seq(Handles) /\ Listing'
  <2>1. removed = rec[h]
    BY <1>4 DEF Absent
  <2>2. rec' = rec /\ order' = order
    BY <1>0, <1>1, <1>4, <2>1 DEF Typed
  <2> QED BY <1>0, <2>2 DEF Listing, Typed
<1>5. order' \in Seq(Handles) /\ Listing'
  BY <1>3, <1>4
<1>6. /\ stop' \in [Handles -> BOOLEAN] /\ \A g \in Handles \ {h} : stop'[g] = stop[g]
      /\ lock' \in [Handles -> {"none", "path", "unlinked"}]
      /\ lock'[h] = (IF lock[h] = "path" THEN "unlinked" ELSE lock[h])
      /\ \A g \in Handles \ {h} : lock'[g] = lock[g]
  BY <1>0, <1>1 DEF Typed
<1>7. /\ probing' \in [Pruners \cup Readers -> Handles \cup {Nobody}]
      /\ \A a \in Pruners \cup Readers : probing'[a] \in Handles => probing'[a] = probing[a] /\ probing[a] # h
  BY <1>0, <1>1 DEF Typed, Countable
<1> QED BY <1>2, <1>5, <1>6, <1>7

\* A prune that begins looks at runs that have a record.
LEMMA JobStartsIs ==
    ASSUME Typed, NEW a \in Pruners, NEW listing \in Seq(Handles), JobStarts(a, listing)
    PROVE  /\ job' \in [Pruners -> PruneJobs]
           /\ \A b \in Pruners \ {a} : job'[b] = job[b]
           /\ job'[a].phase = "cap" /\ job'[a].at = Nobody /\ job'[a].todo \subseteq Range(listing)
<1>1. Kept \in Nat
  BY RunAssumption
<1>2. CapCandidates(listing) \subseteq Range(listing)
  <2>1. ASSUME NEW i \in (Kept + 1)..Len(listing) PROVE listing[i] \in Range(listing)
    <3>1. i \in 1..Len(listing) /\ DOMAIN listing = 1..Len(listing)
      BY <1>1
    <3> QED BY <3>1 DEF Range
  <2> QED BY <2>1 DEF CapCandidates
<1>3. Range(listing) \subseteq Handles
  BY DEF Range
<1>4. job' = [job EXCEPT ![a] = [NoJob EXCEPT !.phase = "cap", !.todo = CapCandidates(listing)]]
  BY DEF JobStarts
<1>5. PICK T \in SUBSET Range(listing) : T = CapCandidates(listing)
  BY <1>2
<1>6. NoJob \in PruneJobs /\ NoJob.at = Nobody
  BY DEF NoJob, PruneJobs
<1>7. PICK fresh : fresh = [NoJob EXCEPT !.phase = "cap", !.todo = T]
  OBVIOUS
<1>8. fresh \in PruneJobs /\ fresh.phase = "cap" /\ fresh.todo = T /\ fresh.at = Nobody
  <2> HIDE DEF NoJob
  <2>1. T \in SUBSET Handles
    BY <1>3
  <2> QED BY <1>6, <1>7, <2>1 DEF PruneJobs
<1>9. job' = [job EXCEPT ![a] = fresh]
  BY <1>4, <1>5, <1>7
<1> QED BY <1>5, <1>8, <1>9 DEF Typed

-----------------------------------------------------------------------------
(* What a step does to one run.                                             *)

\* Nothing of a run changes.
Same(h) ==
    /\ rec'[h] = rec[h] /\ stop'[h] = stop[h] /\ aged'[h] = aged[h]
    /\ worker'[h] = worker[h] /\ lock'[h] = lock[h] /\ outcome'[h] = outcome[h]
    /\ ran'[h] = ran[h] /\ quiet'[h] = quiet[h] /\ start'[h] = start[h] /\ early'[h] = early[h]

\* What has ended stays ended, and its record is at most removed.
Onward(h) ==
    /\ worker[h] \in Ended => worker'[h] \in Ended
    /\ worker[h] \in Over => /\ worker'[h] = worker[h]
                             /\ rec'[h] = rec[h] \/ (rec[h] # "none" /\ rec'[h] = "removed")
    /\ rec[h] # "none" => rec'[h] # "none"
    /\ rec[h] = "removed" => rec'[h] = "removed"

LEMMA SameGoesOn ==
    ASSUME NEW h \in Handles, Same(h)
    PROVE  Onward(h)
BY DEF Same, Onward

LEMMA SameRun ==
    ASSUME NEW h \in Handles, Same(h), RunOf(h), setting' = setting
    PROVE  RunOf(h)'
<1>1. LockOf(h)' /\ AgedOf(h)'
  BY DEF Same, RunOf, LockOf, AgedOf
<1>2. RecordOf(h)'
  BY DEF Same, RunOf, RecordOf
<1>3. PlantOf(h)'
  BY DEF Same, RunOf, PlantOf
<1>4. StartOf(h)'
  BY DEF Same, RunOf, StartOf
<1> QED BY <1>1, <1>2, <1>3, <1>4 DEF RunOf

\* A prune that is left alone has nothing to fear from runs that go on.
LEMMA SameJob ==
    ASSUME Countable, Typed, NEW a \in Pruners, job'[a] = job[a], JobOf(a), \A h \in Handles : Onward(h)
    PROVE  JobOf(a)'
<1>1. job[a].at \in Handles \cup {Nobody} /\ job[a].todo \subseteq Handles
  BY DEF Typed, PruneJobs
<1> QED BY <1>1 DEF JobOf, Onward

LEMMA SameCall ==
    ASSUME Countable, Typed, NEW r \in Readers, call'[r] = call[r], CallOf(r), \A h \in Handles : Onward(h)
    PROVE  CallOf(r)'
<1>1. CASE call[r].at \in Handles
  <2>1. Onward(call[r].at)
    BY <1>1
  <2> QED BY <1>1, <2>1 DEF CallOf, Onward, Over, Lost
<1>2. CASE call[r].at \notin Handles
  BY <1>2 DEF CallOf
<1> QED BY <1>1, <1>2

\* The invariant after a step, from what the step changes.
LEMMA Step ==
    ASSUME Countable, IInv, setting' = setting, Typed', Listing', ProbesFree',
           \A h \in Handles : Same(h) \/ (Onward(h) /\ RunOf(h)'),
           \A a \in Pruners : job'[a] = job[a] \/ JobOf(a)',
           \A r \in Readers : call'[r] = call[r] \/ CallOf(r)'
    PROVE  IInv'
<1>1. \A h \in Handles : Onward(h) /\ RunOf(h)'
  BY SameGoesOn, SameRun DEF IInv, OfRuns
<1>2. \A a \in Pruners : JobOf(a)'
  BY <1>1, SameJob DEF IInv, OfPrunes
<1>3. \A r \in Readers : CallOf(r)'
  BY <1>1, SameCall DEF IInv, OfReaders
<1> QED BY <1>1, <1>2, <1>3 DEF IInv, OfRuns, OfPrunes, OfReaders

\* The probes, after a step that starts none and frees or takes no lock in their way.
LEMMA SameProbes ==
    ASSUME Countable, Typed, ProbesFree,
           \A a \in Pruners \cup Readers : probing'[a] \in {probing[a], Nobody},
           \A h \in Handles : lock'[h] = "path" => lock[h] = "path" \/ LockFree(h)
    PROVE  ProbesFree'
<1>1. DOMAIN probing = Pruners \cup Readers
  BY DEF Typed
<1> QED BY <1>1 DEF ProbesFree, LockFree, Countable

-----------------------------------------------------------------------------
(* The worker.                                                              *)

LEMMA RunPlanKeeps ==
    ASSUME Countable, IInv, NEW h \in Handles, RunPlan(h)
    PROVE  IInv'
<1>1. Typed /\ Listing /\ ProbesFree /\ RunOf(h)
  BY DEF IInv, OfRuns, OfPrunes
<1>2. /\ h \notin setting.detached /\ worker[h] = "none"
      /\ worker' = [worker EXCEPT ![h] = "spawned"]
      /\ UNCHANGED <<setting, rec, order, stop, aged, lock, outcome, ran, quiet, start, early, job, call, probing>>
  BY DEF RunPlan, runVars
<1>3. Typed'
  <2>1. "spawned" \in {"none"} \cup Alive \cup Over
    BY DEF Alive
  <2> QED BY <1>1, <1>2, <2>1 DEF Typed
<1>4. worker'[h] = "spawned" /\ \A g \in Handles \ {h} : worker'[g] = worker[g]
  BY <1>1, <1>2 DEF Typed
<1>5. \A g \in Handles \ {h} : Same(g)
  BY <1>2, <1>4 DEF Same
<1>6. Onward(h)
  BY <1>2, <1>4 DEF Onward, Ended, Over, Lost
<1>7. RunOf(h)'
  <2>1. LockOf(h)'
    BY <1>1, <1>2, <1>4 DEF RunOf, LockOf, Holding, Registered
  <2>2. RecordOf(h)'
    BY <1>1, <1>2, <1>4 DEF RunOf, RecordOf, Registered, Ended, Over, Lost
  <2>3. AgedOf(h)'
    BY <1>1, <1>2, <1>4 DEF RunOf, AgedOf
  <2>4. PlantOf(h)'
    BY <1>1, <1>2, <1>4 DEF RunOf, PlantOf
  <2>5. StartOf(h)'
    BY <1>1, <1>2, <1>4 DEF RunOf, StartOf, Over, Lost
  <2> QED BY <2>1, <2>2, <2>3, <2>4, <2>5 DEF RunOf
<1>8. Listing' /\ ProbesFree'
  BY <1>1, <1>2 DEF Listing, ProbesFree
<1> QED BY <1>2, <1>3, <1>5, <1>6, <1>7, <1>8, Step

\* The lock is taken, or the worker ends.
LEMMA TakeKeeps ==
    ASSUME Countable, IInv, NEW h \in Handles, Take(h)
    PROVE  IInv'
<1>1. Typed /\ Listing /\ ProbesFree /\ RunOf(h)
  BY DEF IInv, OfRuns, OfPrunes
<1>2. /\ worker[h] = "spawned"
      /\ \/ /\ LockFree(h) /\ lock' = [lock EXCEPT ![h] = "path"]
            /\ worker' = [worker EXCEPT ![h] = "locked"]
         \/ worker' = [worker EXCEPT ![h] = "refused"] /\ UNCHANGED lock
      /\ UNCHANGED <<setting, rec, order, stop, aged, outcome, ran, quiet, start, early, job, call, probing>>
  BY DEF Take, runVars
<1>3. Typed'
  <2>1. {"locked", "refused"} \subseteq {"none"} \cup Alive \cup Over
    BY DEF Alive, Over
  <2> QED BY <1>1, <1>2, <2>1 DEF Typed
<1>4. /\ \/ worker'[h] = "locked" /\ lock'[h] = "path" /\ LockFree(h)
         \/ worker'[h] = "refused" /\ lock'[h] = lock[h]
      /\ \A g \in Handles \ {h} : worker'[g] = worker[g] /\ lock'[g] = lock[g]
  BY <1>1, <1>2 DEF Typed
<1>5. \A g \in Handles \ {h} : Same(g)
  BY <1>2, <1>4 DEF Same
<1>6. Onward(h)
  BY <1>2, <1>4 DEF Onward, Ended, Over, Lost
<1>7. RunOf(h)'
  <2>1. LockOf(h)'
    BY <1>1, <1>2, <1>4 DEF RunOf, LockOf, Holding, Registered
  <2>2. RecordOf(h)'
    BY <1>1, <1>2, <1>4 DEF RunOf, RecordOf, Registered, Ended, Over, Lost, TERMINAL_RUN_STATES, Absent
  <2>3. AgedOf(h)'
    BY <1>1, <1>2, <1>4 DEF RunOf, AgedOf
  <2>4. PlantOf(h)'
    BY <1>1, <1>2, <1>4 DEF RunOf, PlantOf
  <2>5. StartOf(h)'
    BY <1>1, <1>2, <1>4 DEF RunOf, StartOf, Over, Lost, Absent
  <2> QED BY <2>1, <2>2, <2>3, <2>4, <2>5 DEF RunOf
<1>8. Listing'
  BY <1>1, <1>2 DEF Listing
<1>9. ProbesFree'
  BY <1>1, <1>2, <1>4, SameProbes
<1> QED BY <1>2, <1>3, <1>5, <1>6, <1>7, <1>8, <1>9, Step

\* The first record is written and the prune begins, or the run is refused.
LEMMA FirstRecordKeeps ==
    ASSUME Countable, IInv, NEW h \in Handles, FirstRecord(h)
    PROVE  IInv'
<1>1. Typed /\ Listing /\ ProbesFree /\ RunOf(h)
  BY DEF IInv, OfRuns, OfPrunes
<1>2. /\ worker[h] = "locked" /\ UNCHANGED <<setting, stop, aged, outcome, ran, quiet, start, early, call, probing>>
  BY DEF FirstRecord, runVars
<1>3. CASE /\ Publish(h, "starting") /\ worker' = [worker EXCEPT ![h] = "pruning"]
           /\ JobStarts(<<"worker", h>>, order') /\ UNCHANGED lock
  <2>1. "starting" \in RecordStates \ Absent /\ "pruning" \in {"none"} \cup Alive \cup Over
    BY DEF RecordStates, Absent, Alive, Registered
  <2>2. /\ rec' \in [Handles -> RecordStates] /\ rec'[h] = "starting"
        /\ \A g \in Handles \ {h} : rec'[g] = rec[g]
        /\ order' \in Seq(Handles) /\ Listing'
    BY <1>3, <2>1, PublishIs
  <2> DEFINE a == <<"worker", h>>
  <2>3. a \in Pruners
    BY DEF Pruners
  <2>4. PICK listing \in Seq(Handles) : listing = order'
    BY <2>2
  <2>5. /\ job' \in [Pruners -> PruneJobs]
        /\ \A b \in Pruners \ {a} : job'[b] = job[b]
        /\ job'[a].phase = "cap" /\ job'[a].at = Nobody /\ job'[a].todo \subseteq Range(listing)
    <3>1. JobStarts(a, listing)
      BY <1>3, <2>4
    <3> QED BY <1>1, <2>3, <3>1, JobStartsIs
  <2>6. Typed'
    BY <1>1, <1>2, <1>3, <2>1, <2>2, <2>5 DEF Typed
  <2>7. worker'[h] = "pruning" /\ \A g \in Handles \ {h} : worker'[g] = worker[g]
    BY <1>1, <1>3 DEF Typed
  <2>8. \A g \in Handles \ {h} : Same(g)
    BY <1>2, <1>3, <2>2, <2>7 DEF Same
  <2>9. Onward(h)
    BY <1>1, <1>2, <2>2, <2>7 DEF Onward, Ended, Over, Lost, RunOf, RecordOf
  <2>10. RunOf(h)'
    <3>1. LockOf(h)'
      BY <1>1, <1>2, <1>3, <2>2, <2>7 DEF RunOf, LockOf, Holding, Registered
    <3>2. RecordOf(h)'
      BY <1>1, <1>2, <1>3, <2>2, <2>7 DEF RunOf, RecordOf, Registered, Ended, Over, Lost, TERMINAL_RUN_STATES, Absent
    <3>3. AgedOf(h)'
      BY <1>1, <1>2, <1>3, <2>2, <2>7 DEF RunOf, AgedOf
    <3>4. PlantOf(h)'
      BY <1>1, <1>2, <1>3, <2>2, <2>7 DEF RunOf, PlantOf
    <3>5. StartOf(h)'
      BY <1>1, <1>2, <1>3, <2>2, <2>7 DEF RunOf, StartOf, Over, Lost, Absent
    <3> QED BY <3>1, <3>2, <3>3, <3>4, <3>5 DEF RunOf
  <2>11. ProbesFree'
    BY <1>1, <1>2, <1>3 DEF ProbesFree
  <2>12. JobOf(a)'
    <3>1. \A g \in Range(listing) : rec'[g] # "none"
      BY <2>2, <2>4 DEF Listing, Absent
    <3> HIDE DEF a
    <3> QED BY <2>5, <3>1 DEF JobOf, Countable
  <2> HIDE DEF a
  <2> QED BY <1>2, <2>2, <2>5, <2>6, <2>8, <2>9, <2>10, <2>11, <2>12, Step
<1>4. CASE /\ worker' = [worker EXCEPT ![h] = "refused"] /\ lock' = [lock EXCEPT ![h] = "none"]
           /\ UNCHANGED <<rec, order, job>>
  <2>1. Typed'
    <3>1. "refused" \in {"none"} \cup Alive \cup Over
      BY DEF Over
    <3> QED BY <1>1, <1>2, <1>4, <3>1 DEF Typed
  <2>2. /\ worker'[h] = "refused" /\ lock'[h] = "none"
        /\ \A g \in Handles \ {h} : worker'[g] = worker[g] /\ lock'[g] = lock[g]
    BY <1>1, <1>4 DEF Typed
  <2>3. \A g \in Handles \ {h} : Same(g)
    BY <1>2, <1>4, <2>2 DEF Same
  <2>4. Onward(h)
    BY <1>2, <1>4, <2>2 DEF Onward, Ended, Over, Lost
  <2>5. RunOf(h)'
    <3>1. LockOf(h)'
      BY <1>1, <1>2, <1>4, <2>2 DEF RunOf, LockOf, Holding, Registered
    <3>2. RecordOf(h)'
      BY <1>1, <1>2, <1>4, <2>2 DEF RunOf, RecordOf, Registered, Ended, Over, Lost, TERMINAL_RUN_STATES, Absent
    <3>3. AgedOf(h)'
      BY <1>1, <1>2, <1>4, <2>2 DEF RunOf, AgedOf
    <3>4. PlantOf(h)'
      BY <1>1, <1>2, <1>4, <2>2 DEF RunOf, PlantOf
    <3>5. StartOf(h)'
      BY <1>1, <1>2, <1>4, <2>2 DEF RunOf, StartOf, Over, Lost, Absent
    <3> QED BY <3>1, <3>2, <3>3, <3>4, <3>5 DEF RunOf
  <2>6. Listing'
    BY <1>1, <1>4 DEF Listing
  <2>7. ProbesFree'
    BY <1>1, <1>2, <2>2, SameProbes
  <2> QED BY <1>2, <1>4, <2>1, <2>3, <2>4, <2>5, <2>6, <2>7, Step
<1> QED BY <1>3, <1>4 DEF FirstRecord

\* The prune of a registration is over.
LEMMA RegisterDoneKeeps ==
    ASSUME Countable, IInv, NEW h \in Handles, RegisterDone(h)
    PROVE  IInv'
<1>1. Typed /\ Listing /\ ProbesFree /\ RunOf(h)
  BY DEF IInv, OfRuns, OfPrunes
<1>2. /\ worker[h] = "pruning" /\ worker' = [worker EXCEPT ![h] = "waiting"]
      /\ job' = [job EXCEPT ![<<"worker", h>>] = NoJob]
      /\ UNCHANGED <<setting, rec, order, stop, aged, lock, outcome, ran, quiet, start, early, call, probing>>
  BY DEF RegisterDone, runVars
<1>3. Typed'
  <2>1. "waiting" \in {"none"} \cup Alive \cup Over /\ NoJob \in PruneJobs
    BY DEF Alive, Registered, NoJob, PruneJobs
  <2> QED BY <1>1, <1>2, <2>1 DEF Typed
<1>4. worker'[h] = "waiting" /\ \A g \in Handles \ {h} : worker'[g] = worker[g]
  BY <1>1, <1>2 DEF Typed
<1>5. \A g \in Handles \ {h} : Same(g)
  BY <1>2, <1>4 DEF Same
<1>6. Onward(h)
  BY <1>2, <1>4 DEF Onward, Ended, Over, Lost
<1>7. RunOf(h)'
  <2>1. LockOf(h)'
    BY <1>1, <1>2, <1>4 DEF RunOf, LockOf, Holding, Registered
  <2>2. RecordOf(h)'
    BY <1>1, <1>2, <1>4 DEF RunOf, RecordOf, Registered, Ended, Over, Lost, TERMINAL_RUN_STATES, Absent
  <2>3. AgedOf(h)'
    BY <1>1, <1>2, <1>4 DEF RunOf, AgedOf
  <2>4. PlantOf(h)'
    BY <1>1, <1>2, <1>4 DEF RunOf, PlantOf
  <2>5. StartOf(h)'
    BY <1>1, <1>2, <1>4 DEF RunOf, StartOf, Over, Lost, Absent
  <2> QED BY <2>1, <2>2, <2>3, <2>4, <2>5 DEF RunOf
<1>8. Listing' /\ ProbesFree'
  BY <1>1, <1>2 DEF Listing, ProbesFree
<1>9. \A a \in Pruners : job'[a] = job[a] \/ JobOf(a)'
  <2>1. \A a \in Pruners : job'[a] = job[a] \/ job'[a] = NoJob
    BY <1>1, <1>2 DEF Typed
  <2> QED BY <2>1 DEF JobOf, NoJob, Countable
<1> QED BY <1>2, <1>3, <1>5, <1>6, <1>7, <1>8, <1>9, Step

\* A look for a stop, while the devices are waited for.
LEMMA WaitPollKeeps ==
    ASSUME Countable, IInv, NEW h \in Handles, WaitPoll(h)
    PROVE  IInv'
<1>1. Typed /\ Listing /\ ProbesFree /\ RunOf(h)
  BY DEF IInv, OfRuns, OfPrunes
<1>2. /\ worker[h] = "waiting"
      /\ \/ /\ SeesStop(h) /\ worker' = [worker EXCEPT ![h] = "closing"]
            /\ outcome' = [outcome EXCEPT ![h] = "stopped"] /\ quiet' = [quiet EXCEPT ![h] = FALSE]
         \/ ~SeesStop(h) /\ quiet' = [quiet EXCEPT ![h] = TRUE] /\ UNCHANGED <<worker, outcome>>
      /\ UNCHANGED <<setting, rec, order, stop, aged, lock, ran, start, early, job, call, probing>>
  BY DEF WaitPoll, Ends
<1>3. Typed'
  <2>1. "closing" \in {"none"} \cup Alive \cup Over /\ "stopped" \in {"none"} \cup TERMINAL_RUN_STATES
    BY DEF Alive, Registered, TERMINAL_RUN_STATES
  <2>2. worker' \in [Handles -> {"none"} \cup Alive \cup Over]
    BY <1>1, <1>2, <2>1 DEF Typed
  <2>3. outcome' \in [Handles -> {"none"} \cup TERMINAL_RUN_STATES]
    BY <1>1, <1>2, <2>1 DEF Typed
  <2>4. quiet' \in [Handles -> BOOLEAN]
    BY <1>1, <1>2 DEF Typed
  <2> QED BY <1>1, <1>2, <2>2, <2>3, <2>4 DEF Typed
<1>4. /\ \/ worker'[h] = "closing" /\ outcome'[h] = "stopped"
         \/ ~(stop[h] /\ ~quiet[h]) /\ worker'[h] = worker[h] /\ outcome'[h] = outcome[h]
      /\ \A g \in Handles \ {h} : worker'[g] = worker[g] /\ outcome'[g] = outcome[g] /\ quiet'[g] = quiet[g]
  BY <1>1, <1>2 DEF Typed, SeesStop
<1>5. \A g \in Handles \ {h} : Same(g)
  BY <1>2, <1>4 DEF Same
<1>6. Onward(h)
  BY <1>1, <1>2, <1>4 DEF Onward, Ended, Over, Lost, RunOf, RecordOf
<1>7. RunOf(h)'
  <2>1. LockOf(h)'
    BY <1>1, <1>2, <1>4 DEF RunOf, LockOf, Holding, Registered
  <2>2. RecordOf(h)'
    BY <1>1, <1>2, <1>4 DEF RunOf, RecordOf, Registered, Ended, Over, Lost, TERMINAL_RUN_STATES, Absent
  <2>3. AgedOf(h)'
    BY <1>1, <1>2, <1>4 DEF RunOf, AgedOf
  <2>4. PlantOf(h)'
    BY <1>1, <1>2, <1>4 DEF RunOf, PlantOf
  <2>5. StartOf(h)'
    BY <1>1, <1>2, <1>4 DEF RunOf, StartOf, Over, Lost, Absent
  <2> QED BY <2>1, <2>2, <2>3, <2>4, <2>5 DEF RunOf
<1>8. Listing' /\ ProbesFree'
  BY <1>1, <1>2 DEF Listing, ProbesFree
<1> QED BY <1>2, <1>3, <1>5, <1>6, <1>7, <1>8, Step

\* The devices are held, or refused.
LEMMA DevicesKeeps ==
    ASSUME Countable, IInv, NEW h \in Handles, Devices(h)
    PROVE  IInv'
<1>1. Typed /\ Listing /\ ProbesFree /\ RunOf(h)
  BY DEF IInv, OfRuns, OfPrunes
<1>2. /\ worker[h] = "waiting"
      /\ \/ worker' = [worker EXCEPT ![h] = "holding"] /\ UNCHANGED <<outcome, quiet>>
         \/ /\ worker' = [worker EXCEPT ![h] = "closing"]
            /\ outcome' = [outcome EXCEPT ![h] = "finished"] /\ quiet' = [quiet EXCEPT ![h] = FALSE]
      /\ UNCHANGED <<setting, rec, order, stop, aged, lock, ran, start, early, job, call, probing>>
  BY DEF Devices, Ends
<1>3. Typed'
  <2>1. /\ {"closing", "holding"} \subseteq {"none"} \cup Alive \cup Over
       /\ "finished" \in {"none"} \cup TERMINAL_RUN_STATES
    BY DEF Alive, Registered, TERMINAL_RUN_STATES
  <2>2. worker' \in [Handles -> {"none"} \cup Alive \cup Over]
    BY <1>1, <1>2, <2>1 DEF Typed
  <2>3. outcome' \in [Handles -> {"none"} \cup TERMINAL_RUN_STATES]
    BY <1>1, <1>2, <2>1 DEF Typed
  <2>4. quiet' \in [Handles -> BOOLEAN]
    BY <1>1, <1>2 DEF Typed
  <2> QED BY <1>1, <1>2, <2>2, <2>3, <2>4 DEF Typed
<1>4. /\ \/ worker'[h] = "closing" /\ outcome'[h] = "finished"
         \/ worker'[h] = "holding" /\ outcome'[h] = outcome[h] /\ quiet'[h] = quiet[h]
      /\ \A g \in Handles \ {h} : worker'[g] = worker[g] /\ outcome'[g] = outcome[g] /\ quiet'[g] = quiet[g]
  BY <1>1, <1>2 DEF Typed
<1>5. \A g \in Handles \ {h} : Same(g)
  BY <1>2, <1>4 DEF Same
<1>6. Onward(h)
  BY <1>1, <1>2, <1>4 DEF Onward, Ended, Over, Lost, RunOf, RecordOf
<1>7. RunOf(h)'
  <2>1. LockOf(h)'
    BY <1>1, <1>2, <1>4 DEF RunOf, LockOf, Holding, Registered
  <2>2. RecordOf(h)'
    BY <1>1, <1>2, <1>4 DEF RunOf, RecordOf, Registered, Ended, Over, Lost, TERMINAL_RUN_STATES, Absent
  <2>3. AgedOf(h)'
    BY <1>1, <1>2, <1>4 DEF RunOf, AgedOf
  <2>4. PlantOf(h)'
    BY <1>1, <1>2, <1>4 DEF RunOf, PlantOf
  <2>5. StartOf(h)'
    BY <1>1, <1>2, <1>4 DEF RunOf, StartOf, Over, Lost, Absent
  <2> QED BY <2>1, <2>2, <2>3, <2>4, <2>5 DEF RunOf
<1>8. Listing' /\ ProbesFree'
  BY <1>1, <1>2 DEF Listing, ProbesFree
<1> QED BY <1>2, <1>3, <1>5, <1>6, <1>7, <1>8, Step

\* The devices are held.
LEMMA RunningKeeps ==
    ASSUME Countable, IInv, NEW h \in Handles, Running(h)
    PROVE  IInv'
<1>1. Typed /\ Listing /\ ProbesFree /\ RunOf(h)
  BY DEF IInv, OfRuns, OfPrunes
<1>2. /\ worker[h] = "holding" /\ worker' = [worker EXCEPT ![h] = "boundary"] /\ Progress(h)
      /\ UNCHANGED <<setting, stop, aged, lock, outcome, ran, quiet, start, early, job, call, probing>>
  BY DEF Running, runVars
<1>0. /\ rec' \in [Handles -> RecordStates] /\ rec'[h] \in {"running", rec[h]}
      /\ \A g \in Handles \ {h} : rec'[g] = rec[g]
      /\ order' \in Seq(Handles) /\ Listing'
  BY <1>2, ProgressIs
<1>3. Typed'
  <2>1. "boundary" \in {"none"} \cup Alive \cup Over
    BY DEF Alive, Registered
  <2> QED BY <1>0, <1>1, <1>2, <2>1 DEF Typed
<1>4. worker'[h] = "boundary" /\ \A g \in Handles \ {h} : worker'[g] = worker[g]
  BY <1>1, <1>2 DEF Typed
<1>5. \A g \in Handles \ {h} : Same(g)
  BY <1>0, <1>2, <1>4 DEF Same
<1>6. Onward(h)
  BY <1>0, <1>1, <1>2, <1>4 DEF Onward, Ended, Over, Lost, RunOf, RecordOf
<1>7. RunOf(h)'
  <2>1. LockOf(h)'
    BY <1>0, <1>1, <1>2, <1>4 DEF RunOf, LockOf, Holding, Registered
  <2>2. RecordOf(h)'
    BY <1>0, <1>1, <1>2, <1>4 DEF RunOf, RecordOf, Registered, Ended, Over, Lost, TERMINAL_RUN_STATES, Absent
  <2>3. AgedOf(h)'
    BY <1>0, <1>1, <1>2, <1>4 DEF RunOf, AgedOf
  <2>4. PlantOf(h)'
    BY <1>0, <1>1, <1>2, <1>4 DEF RunOf, PlantOf
  <2>5. StartOf(h)'
    BY <1>0, <1>1, <1>2, <1>4 DEF RunOf, StartOf, Over, Lost, Absent
  <2> QED BY <2>1, <2>2, <2>3, <2>4, <2>5 DEF RunOf
<1>8. ProbesFree'
  BY <1>1, <1>2 DEF ProbesFree
<1> QED BY <1>0, <1>2, <1>3, <1>5, <1>6, <1>7, <1>8, Step

\* Between two steps: a stop is seen, there is no plan, or the next step begins.
LEMMA NextStepKeeps ==
    ASSUME Countable, IInv, NEW h \in Handles, NextStep(h)
    PROVE  IInv'
<1>1. Typed /\ Listing /\ ProbesFree /\ RunOf(h)
  BY DEF IInv, OfRuns, OfPrunes
<1>2. /\ worker[h] = "boundary"
      /\ \/ /\ SeesStop(h) /\ worker' = [worker EXCEPT ![h] = "closing"] /\ UNCHANGED ran
            /\ outcome' = [outcome EXCEPT ![h] = "stopped"] /\ quiet' = [quiet EXCEPT ![h] = FALSE]
         \/ /\ worker' = [worker EXCEPT ![h] = "closing"] /\ UNCHANGED ran
            /\ outcome' = [outcome EXCEPT ![h] = "finished"] /\ quiet' = [quiet EXCEPT ![h] = FALSE]
         \/ /\ ~SeesStop(h) /\ worker' = [worker EXCEPT ![h] = "step"] /\ UNCHANGED outcome
            /\ ran' = [ran EXCEPT ![h] = TRUE] /\ quiet' = [quiet EXCEPT ![h] = TRUE]
      /\ Progress(h) \/ UNCHANGED <<rec, order>>
      /\ UNCHANGED <<setting, stop, aged, lock, start, early, job, call, probing>>
  BY DEF NextStep, Ends
<1>0. /\ rec' \in [Handles -> RecordStates] /\ rec'[h] \in {"running", rec[h]}
      /\ \A g \in Handles \ {h} : rec'[g] = rec[g]
      /\ order' \in Seq(Handles) /\ Listing'
  BY <1>2, ProgressIs DEF Progress
<1>3. Typed'
  <2>1. /\ {"closing", "step"} \subseteq {"none"} \cup Alive \cup Over
       /\ {"finished", "stopped"} \subseteq {"none"} \cup TERMINAL_RUN_STATES
    BY DEF Alive, Registered, TERMINAL_RUN_STATES
  <2>2. worker' \in [Handles -> {"none"} \cup Alive \cup Over]
    BY <1>1, <1>2, <2>1 DEF Typed
  <2>3. outcome' \in [Handles -> {"none"} \cup TERMINAL_RUN_STATES]
    BY <1>1, <1>2, <2>1 DEF Typed
  <2>4. quiet' \in [Handles -> BOOLEAN] /\ ran' \in [Handles -> BOOLEAN]
    BY <1>1, <1>2 DEF Typed
  <2> QED BY <1>0, <1>1, <1>2, <2>2, <2>3, <2>4 DEF Typed
<1>4. /\ \/ worker'[h] = "closing" /\ outcome'[h] \in {"finished", "stopped"} /\ ran'[h] = ran[h]
         \/ worker'[h] = "step" /\ ~(stop[h] /\ ~quiet[h])
      /\ \A g \in Handles \ {h} : /\ worker'[g] = worker[g] /\ outcome'[g] = outcome[g]
                                  /\ ran'[g] = ran[g] /\ quiet'[g] = quiet[g]
  BY <1>1, <1>2 DEF Typed, SeesStop
<1>5. \A g \in Handles \ {h} : Same(g)
  BY <1>0, <1>2, <1>4 DEF Same
<1>6. Onward(h)
  BY <1>0, <1>1, <1>2, <1>4 DEF Onward, Ended, Over, Lost, RunOf, RecordOf
<1>7. RunOf(h)'
  <2>1. LockOf(h)'
    BY <1>0, <1>1, <1>2, <1>4 DEF RunOf, LockOf, Holding, Registered
  <2>2. RecordOf(h)'
    BY <1>0, <1>1, <1>2, <1>4 DEF RunOf, RecordOf, Registered, Ended, Over, Lost, TERMINAL_RUN_STATES, Absent
  <2>3. AgedOf(h)'
    BY <1>0, <1>1, <1>2, <1>4 DEF RunOf, AgedOf
  <2>4. PlantOf(h)'
    BY <1>0, <1>1, <1>2, <1>4 DEF RunOf, PlantOf
  <2>5. StartOf(h)'
    BY <1>0, <1>1, <1>2, <1>4 DEF RunOf, StartOf, Over, Lost, Absent
  <2> QED BY <2>1, <2>2, <2>3, <2>4, <2>5 DEF RunOf
<1>8. ProbesFree'
  BY <1>1, <1>2 DEF ProbesFree
<1> QED BY <1>0, <1>2, <1>3, <1>5, <1>6, <1>7, <1>8, Step

\* A step ends.
LEMMA StepEndsKeeps ==
    ASSUME Countable, IInv, NEW h \in Handles, StepEnds(h)
    PROVE  IInv'
<1>1. Typed /\ Listing /\ ProbesFree /\ RunOf(h)
  BY DEF IInv, OfRuns, OfPrunes
<1>2. /\ worker[h] = "step"
      /\ \/ worker' = [worker EXCEPT ![h] = "boundary"] /\ UNCHANGED <<outcome, quiet>>
         \/ /\ worker' = [worker EXCEPT ![h] = "closing"] /\ quiet' = [quiet EXCEPT ![h] = FALSE]
            /\ \E how \in {"finished", "stopped"} : outcome' = [outcome EXCEPT ![h] = how]
      /\ Progress(h)
      /\ UNCHANGED <<setting, stop, aged, lock, ran, start, early, job, call, probing>>
  BY DEF StepEnds, Ends
<1>0. /\ rec' \in [Handles -> RecordStates] /\ rec'[h] \in {"running", rec[h]}
      /\ \A g \in Handles \ {h} : rec'[g] = rec[g]
      /\ order' \in Seq(Handles) /\ Listing'
  BY <1>2, ProgressIs
<1>3. Typed'
  <2>1. /\ {"closing", "boundary"} \subseteq {"none"} \cup Alive \cup Over
       /\ {"finished", "stopped"} \subseteq {"none"} \cup TERMINAL_RUN_STATES
    BY DEF Alive, Registered, TERMINAL_RUN_STATES
  <2>2. worker' \in [Handles -> {"none"} \cup Alive \cup Over]
    BY <1>1, <1>2, <2>1 DEF Typed
  <2>3. outcome' \in [Handles -> {"none"} \cup TERMINAL_RUN_STATES]
    BY <1>1, <1>2, <2>1 DEF Typed
  <2>4. quiet' \in [Handles -> BOOLEAN]
    BY <1>1, <1>2 DEF Typed
  <2> QED BY <1>0, <1>1, <1>2, <2>2, <2>3, <2>4 DEF Typed
<1>4. /\ \/ worker'[h] = "closing" /\ outcome'[h] \in {"finished", "stopped"}
         \/ worker'[h] = "boundary" /\ outcome'[h] = outcome[h] /\ quiet'[h] = quiet[h]
      /\ \A g \in Handles \ {h} : worker'[g] = worker[g] /\ outcome'[g] = outcome[g] /\ quiet'[g] = quiet[g]
  BY <1>1, <1>2 DEF Typed
<1>5. \A g \in Handles \ {h} : Same(g)
  BY <1>0, <1>2, <1>4 DEF Same
<1>6. Onward(h)
  BY <1>0, <1>1, <1>2, <1>4 DEF Onward, Ended, Over, Lost, RunOf, RecordOf
<1>7. RunOf(h)'
  <2>1. LockOf(h)'
    BY <1>0, <1>1, <1>2, <1>4 DEF RunOf, LockOf, Holding, Registered
  <2>2. RecordOf(h)'
    BY <1>0, <1>1, <1>2, <1>4 DEF RunOf, RecordOf, Registered, Ended, Over, Lost, TERMINAL_RUN_STATES, Absent
  <2>3. AgedOf(h)'
    BY <1>0, <1>1, <1>2, <1>4 DEF RunOf, AgedOf
  <2>4. PlantOf(h)'
    BY <1>0, <1>1, <1>2, <1>4 DEF RunOf, PlantOf
  <2>5. StartOf(h)'
    BY <1>0, <1>1, <1>2, <1>4 DEF RunOf, StartOf, Over, Lost, Absent
  <2> QED BY <2>1, <2>2, <2>3, <2>4, <2>5 DEF RunOf
<1>8. ProbesFree'
  BY <1>1, <1>2 DEF ProbesFree
<1> QED BY <1>0, <1>2, <1>3, <1>5, <1>6, <1>7, <1>8, Step

\* The end is published, or it is lost with the process.
LEMMA FinishKeeps ==
    ASSUME Countable, IInv, NEW h \in Handles, Finish(h)
    PROVE  IInv'
<1>1. Typed /\ Listing /\ ProbesFree /\ RunOf(h)
  BY DEF IInv, OfRuns, OfPrunes
<1>2. /\ worker[h] = "closing"
      /\ \/ Publish(h, outcome[h]) /\ worker' = [worker EXCEPT ![h] = "published"]
         \/ worker' = [worker EXCEPT ![h] = "unrecorded"] /\ UNCHANGED <<rec, order>>
      /\ lock' = [lock EXCEPT ![h] = IF worker'[h] = "unrecorded" THEN "none" ELSE @]
      /\ UNCHANGED <<setting, stop, aged, outcome, ran, quiet, start, early, job, call, probing>>
  BY DEF Finish, runVars
<1>0. /\ rec' \in [Handles -> RecordStates]
      /\ Publish(h, outcome[h]) => rec'[h] = outcome[h]
      /\ \A g \in Handles \ {h} : rec'[g] = rec[g]
      /\ order' \in Seq(Handles) /\ Listing'
  <2>1. PICK how \in TERMINAL_RUN_STATES : how = outcome[h]
    BY <1>1, <1>2 DEF RunOf, RecordOf
  <2>2. how \in RecordStates \ Absent
    BY DEF RecordStates, TERMINAL_RUN_STATES, Absent
  <2>3. CASE Publish(h, how)
    BY <2>1, <2>2, <2>3, PublishIs
  <2>4. CASE ~Publish(h, how) /\ UNCHANGED <<rec, order>>
    BY <1>1, <2>1, <2>4 DEF Typed, Listing
  <2> QED BY <1>2, <2>1, <2>3, <2>4
<1>3. Typed'
  <2>1. {"published", "unrecorded"} \subseteq {"none"} \cup Alive \cup Over
    BY DEF Alive, Registered, Over, Lost
  <2>2. worker' \in [Handles -> {"none"} \cup Alive \cup Over]
    BY <1>1, <1>2, <2>1 DEF Typed
  <2>3. lock' \in [Handles -> {"none", "path", "unlinked"}]
    BY <1>1, <1>2 DEF Typed
  <2> QED BY <1>0, <1>1, <1>2, <2>2, <2>3 DEF Typed
<1>4. /\ \/ worker'[h] = "published" /\ rec'[h] = outcome[h] /\ lock'[h] = lock[h]
         \/ worker'[h] = "unrecorded" /\ rec'[h] = rec[h] /\ lock'[h] = "none"
      /\ \A g \in Handles \ {h} : worker'[g] = worker[g] /\ lock'[g] = lock[g]
  <2>1. /\ \/ worker'[h] = "published" /\ rec'[h] = outcome[h]
           \/ worker'[h] = "unrecorded" /\ rec'[h] = rec[h]
        /\ \A g \in Handles \ {h} : worker'[g] = worker[g]
    BY <1>0, <1>1, <1>2 DEF Typed
  <2>2. lock'[h] = (IF worker'[h] = "unrecorded" THEN "none" ELSE lock[h]) /\ \A g \in Handles \ {h} : lock'[g] = lock[g]
    BY <1>1, <1>2 DEF Typed
  <2> QED BY <2>1, <2>2
<1>5. \A g \in Handles \ {h} : Same(g)
  BY <1>0, <1>2, <1>4 DEF Same
<1>6. Onward(h)
  BY <1>0, <1>1, <1>2, <1>4 DEF Onward, Ended, Over, Lost, RunOf, RecordOf, TERMINAL_RUN_STATES
<1>7. RunOf(h)'
  <2>1. LockOf(h)'
    BY <1>0, <1>1, <1>2, <1>4 DEF RunOf, LockOf, Holding, Registered
  <2>2. RecordOf(h)'
    BY <1>0, <1>1, <1>2, <1>4 DEF RunOf, RecordOf, Registered, Ended, Over, Lost, TERMINAL_RUN_STATES, Absent
  <2>3. AgedOf(h)'
    BY <1>0, <1>1, <1>2, <1>4 DEF RunOf, AgedOf
  <2>4. PlantOf(h)'
    BY <1>0, <1>1, <1>2, <1>4 DEF RunOf, PlantOf
  <2>5. StartOf(h)'
    BY <1>0, <1>1, <1>2, <1>4 DEF RunOf, StartOf, Over, Lost, Absent
  <2> QED BY <2>1, <2>2, <2>3, <2>4, <2>5 DEF RunOf
<1>8. ProbesFree'
  BY <1>1, <1>2, <1>4, SameProbes
<1> QED BY <1>0, <1>2, <1>3, <1>5, <1>6, <1>7, <1>8, Step

\* The process ends.
LEMMA ExitKeeps ==
    ASSUME Countable, IInv, NEW h \in Handles, Exit(h)
    PROVE  IInv'
<1>1. Typed /\ Listing /\ ProbesFree /\ RunOf(h)
  BY DEF IInv, OfRuns, OfPrunes
<1>2. /\ worker[h] = "published" /\ worker' = [worker EXCEPT ![h] = "exited"]
      /\ lock' = [lock EXCEPT ![h] = "none"]
      /\ UNCHANGED <<setting, rec, order, stop, aged, outcome, ran, quiet, start, early, job, call, probing>>
  BY <1>1 DEF Exit, RecordAtExit, runVars, Typed
<1>0. Listing'
  BY <1>1, <1>2 DEF Listing
<1>3. Typed'
  <2>1. "exited" \in {"none"} \cup Alive \cup Over
    BY DEF Over
  <2> QED BY <1>0, <1>1, <1>2, <2>1 DEF Typed
<1>4. /\ worker'[h] = "exited" /\ lock'[h] = "none"
      /\ \A g \in Handles \ {h} : worker'[g] = worker[g] /\ lock'[g] = lock[g]
  BY <1>1, <1>2 DEF Typed
<1>5. \A g \in Handles \ {h} : Same(g)
  BY <1>0, <1>2, <1>4 DEF Same
<1>6. Onward(h)
  BY <1>0, <1>1, <1>2, <1>4 DEF Onward, Ended, Over, Lost, RunOf, RecordOf
<1>7. RunOf(h)'
  <2>1. LockOf(h)'
    BY <1>0, <1>1, <1>2, <1>4 DEF RunOf, LockOf, Holding, Registered
  <2>2. RecordOf(h)'
    BY <1>0, <1>1, <1>2, <1>4 DEF RunOf, RecordOf, Registered, Ended, Over, Lost, TERMINAL_RUN_STATES, Absent
  <2>3. AgedOf(h)'
    BY <1>0, <1>1, <1>2, <1>4 DEF RunOf, AgedOf
  <2>4. PlantOf(h)'
    BY <1>0, <1>1, <1>2, <1>4 DEF RunOf, PlantOf
  <2>5. StartOf(h)'
    BY <1>0, <1>1, <1>2, <1>4 DEF RunOf, StartOf, Over, Lost, Absent
  <2> QED BY <2>1, <2>2, <2>3, <2>4, <2>5 DEF RunOf
<1>8. ProbesFree'
  BY <1>1, <1>2, <1>4, SameProbes
<1> QED BY <1>0, <1>2, <1>3, <1>5, <1>6, <1>7, <1>8, Step

\* A moment passes.
LEMMA TickKeeps ==
    ASSUME Countable, IInv, NEW h \in Handles, Tick(h)
    PROVE  IInv'
<1>1. Typed /\ Listing /\ ProbesFree /\ RunOf(h)
  BY DEF IInv, OfRuns, OfPrunes
<1>2. /\ quiet' = [quiet EXCEPT ![h] = FALSE]
      /\ UNCHANGED <<setting, rec, order, stop, aged, worker, lock, outcome, ran, start, early, job, call, probing>>
  BY DEF Tick
<1>3. Typed'
  <2>1. quiet' \in [Handles -> BOOLEAN]
    BY <1>1, <1>2 DEF Typed
  <2> QED BY <1>1, <1>2, <2>1 DEF Typed
<1>4. quiet'[h] = FALSE /\ \A g \in Handles \ {h} : quiet'[g] = quiet[g]
  BY <1>1, <1>2 DEF Typed
<1>5. \A g \in Handles \ {h} : Same(g)
  BY <1>2, <1>4 DEF Same
<1>6. Onward(h)
  BY <1>1, <1>2, <1>4 DEF Onward, Ended, Over, Lost, RunOf, RecordOf
<1>7. RunOf(h)'
  <2>1. LockOf(h)'
    BY <1>1, <1>2, <1>4 DEF RunOf, LockOf, Holding, Registered
  <2>2. RecordOf(h)'
    BY <1>1, <1>2, <1>4 DEF RunOf, RecordOf, Registered, Ended, Over, Lost, TERMINAL_RUN_STATES, Absent
  <2>3. AgedOf(h)'
    BY <1>1, <1>2, <1>4 DEF RunOf, AgedOf
  <2>4. PlantOf(h)'
    BY <1>1, <1>2, <1>4 DEF RunOf, PlantOf
  <2>5. StartOf(h)'
    BY <1>1, <1>2, <1>4 DEF RunOf, StartOf, Over, Lost, Absent
  <2> QED BY <2>1, <2>2, <2>3, <2>4, <2>5 DEF RunOf
<1>8. Listing' /\ ProbesFree'
  BY <1>1, <1>2 DEF Listing, ProbesFree
<1> QED BY <1>2, <1>3, <1>5, <1>6, <1>7, <1>8, Step

\* The process is killed.
LEMMA KillKeeps ==
    ASSUME Countable, IInv, NEW h \in Handles, Kill(h)
    PROVE  IInv'
<1>1. Typed /\ Listing /\ ProbesFree /\ RunOf(h)
  BY DEF IInv, OfRuns, OfPrunes
<1>2. /\ worker[h] \in Alive /\ worker' = [worker EXCEPT ![h] = "killed"]
      /\ lock' = [lock EXCEPT ![h] = "none"]
      /\ job' = [job EXCEPT ![<<"worker", h>>] = NoJob]
      /\ probing' = [probing EXCEPT ![<<"worker", h>>] = Nobody]
      /\ UNCHANGED <<setting, rec, order, stop, aged, outcome, ran, quiet, start, early, call>>
  BY DEF Kill, runVars
<1>0. Listing'
  BY <1>1, <1>2 DEF Listing
<1>3. Typed'
  <2>1. "killed" \in {"none"} \cup Alive \cup Over /\ NoJob \in PruneJobs
    BY DEF Over, Lost, NoJob, PruneJobs
  <2> QED BY <1>0, <1>1, <1>2, <2>1 DEF Typed
<1>4. /\ worker'[h] = "killed" /\ lock'[h] = "none"
      /\ \A g \in Handles \ {h} : worker'[g] = worker[g] /\ lock'[g] = lock[g]
  BY <1>1, <1>2 DEF Typed
<1>5. \A g \in Handles \ {h} : Same(g)
  BY <1>0, <1>2, <1>4 DEF Same
<1>6. Onward(h)
  BY <1>0, <1>1, <1>2, <1>4 DEF Onward, Ended, Over, Lost, RunOf, RecordOf, Alive, Registered
<1>7. RunOf(h)'
  <2>1. LockOf(h)'
    BY <1>0, <1>1, <1>2, <1>4 DEF RunOf, LockOf, Holding, Registered, Alive
  <2>2. RecordOf(h)'
    BY <1>0, <1>1, <1>2, <1>4 DEF RunOf, RecordOf, Registered, Alive, Ended, Over, Lost, TERMINAL_RUN_STATES, Absent
  <2>3. AgedOf(h)'
    BY <1>0, <1>1, <1>2, <1>4 DEF RunOf, AgedOf, Alive, Registered
  <2>4. PlantOf(h)'
    BY <1>0, <1>1, <1>2, <1>4 DEF RunOf, PlantOf, Alive, Registered
  <2>5. StartOf(h)'
    BY <1>0, <1>1, <1>2, <1>4 DEF RunOf, StartOf, Alive, Registered, Over, Lost, Absent
  <2> QED BY <2>1, <2>2, <2>3, <2>4, <2>5 DEF RunOf
<1>8. ProbesFree'
  <2>1. \A a \in Pruners \cup Readers : probing'[a] \in {probing[a], Nobody}
    BY <1>1, <1>2 DEF Typed
  <2> QED BY <1>1, <1>4, <2>1, SameProbes
<1>9. \A a \in Pruners : job'[a] = job[a] \/ JobOf(a)'
  <2>1. \A a \in Pruners : job'[a] = job[a] \/ job'[a] = NoJob
    BY <1>1, <1>2 DEF Typed
  <2> QED BY <2>1 DEF JobOf, NoJob, Countable
<1> QED BY <1>0, <1>2, <1>3, <1>5, <1>6, <1>7, <1>8, <1>9, Step

-----------------------------------------------------------------------------
(* The start command.                                                       *)

\* A worker is spawned.
LEMMA StartRunKeeps ==
    ASSUME Countable, IInv, NEW h \in Handles, StartRun(h)
    PROVE  IInv'
<1>1. Typed /\ Listing /\ ProbesFree /\ RunOf(h)
  BY DEF IInv, OfRuns, OfPrunes
<1>2. /\ h \in setting.detached /\ start[h].pc = "idle"
      /\ start' = [start EXCEPT ![h].pc = "watching"]
      /\ worker' = [worker EXCEPT ![h] = "spawned"]
      /\ UNCHANGED <<setting, rec, order, stop, aged, lock, outcome, ran, quiet, early, job, call, probing>>
  BY DEF StartRun, runVars
<1>3. /\ start' \in [Handles -> Starts] /\ \A g \in Handles \ {h} : start'[g] = start[g]
      /\ start'[h].pc = "watching" /\ start'[h].exited = start[h].exited /\ start'[h].said = start[h].said
      /\ worker'[h] = "spawned" /\ worker[h] = "none" /\ \A g \in Handles \ {h} : worker'[g] = worker[g]
  <2>1. worker[h] = "none"
    BY <1>1, <1>2 DEF RunOf, StartOf
  <2> QED BY <1>1, <1>2, <2>1 DEF Typed, Starts
<1>4. Typed'
  <2>1. "spawned" \in {"none"} \cup Alive \cup Over
    BY DEF Alive
  <2> QED BY <1>1, <1>2, <1>3, <2>1 DEF Typed
<1>5. \A g \in Handles \ {h} : Same(g)
  BY <1>2, <1>3 DEF Same
<1>6. Onward(h)
  BY <1>1, <1>2, <1>3 DEF Onward, Ended, Over, Lost, RunOf, StartOf
<1>7. RunOf(h)'
  <2>1. LockOf(h)'
    BY <1>1, <1>2, <1>3 DEF RunOf, LockOf, Holding, Registered
  <2>2. RecordOf(h)'
    BY <1>1, <1>2, <1>3 DEF RunOf, RecordOf, Registered, Ended, Over, Lost, TERMINAL_RUN_STATES, Absent
  <2>3. AgedOf(h)'
    BY <1>1, <1>2, <1>3 DEF RunOf, AgedOf
  <2>4. PlantOf(h)'
    BY <1>1, <1>2, <1>3 DEF RunOf, PlantOf
  <2>5. StartOf(h)'
    BY <1>1, <1>2, <1>3 DEF RunOf, StartOf, Over, Lost, Absent
  <2> QED BY <2>1, <2>2, <2>3, <2>4, <2>5 DEF RunOf
<1>8. Listing' /\ ProbesFree'
  BY <1>1, <1>2 DEF Listing, ProbesFree
<1> QED BY <1>2, <1>4, <1>5, <1>6, <1>7, <1>8, Step

\* The record is read.
LEMMA StartLookKeeps ==
    ASSUME Countable, IInv, NEW h \in Handles, StartLook(h)
    PROVE  IInv'
<1>1. Typed /\ Listing /\ ProbesFree /\ RunOf(h)
  BY DEF IInv, OfRuns, OfPrunes
<1>2. /\ start[h].pc = "watching"
      /\ start' = [start EXCEPT ![h].pc = "judging", ![h].seen = rec[h]]
      /\ UNCHANGED <<setting, rec, order, stop, aged, worker, lock, outcome, ran, quiet, early, job, call, probing>>
  BY DEF StartLook, runVars
<1>3. /\ start' \in [Handles -> Starts] /\ \A g \in Handles \ {h} : start'[g] = start[g]
      /\ start'[h].pc = "judging" /\ start'[h].seen = rec[h]
      /\ start'[h].exited = start[h].exited /\ start'[h].said = start[h].said
  <2>1. rec[h] \in RecordStates
    BY <1>1 DEF Typed
  <2> QED BY <1>1, <1>2, <2>1 DEF Typed, Starts
<1>4. Typed'
  BY <1>1, <1>2, <1>3 DEF Typed
<1>5. \A g \in Handles \ {h} : Same(g)
  BY <1>2, <1>3 DEF Same
<1>6. Onward(h)
  BY <1>1, <1>2, <1>3 DEF Onward, Ended, Over, Lost, RunOf, StartOf
<1>7. RunOf(h)'
  <2>1. LockOf(h)'
    BY <1>1, <1>2, <1>3 DEF RunOf, LockOf, Holding, Registered
  <2>2. RecordOf(h)'
    BY <1>1, <1>2, <1>3 DEF RunOf, RecordOf, Registered, Ended, Over, Lost, TERMINAL_RUN_STATES, Absent
  <2>3. AgedOf(h)'
    BY <1>1, <1>2, <1>3 DEF RunOf, AgedOf
  <2>4. PlantOf(h)'
    BY <1>1, <1>2, <1>3 DEF RunOf, PlantOf
  <2>5. StartOf(h)'
    BY <1>1, <1>2, <1>3 DEF RunOf, StartOf, Over, Lost, Absent
  <2> QED BY <2>1, <2>2, <2>3, <2>4, <2>5 DEF RunOf
<1>8. Listing' /\ ProbesFree'
  BY <1>1, <1>2 DEF Listing, ProbesFree
<1> QED BY <1>2, <1>4, <1>5, <1>6, <1>7, <1>8, Step

\* A record that says enough is the answer.
LEMMA StartAnswersKeeps ==
    ASSUME Countable, IInv, NEW h \in Handles, StartAnswers(h)
    PROVE  IInv'
<1>1. Typed /\ Listing /\ ProbesFree /\ RunOf(h)
  BY DEF IInv, OfRuns, OfPrunes
<1>2. /\ start[h].pc = "judging" /\ start[h].seen \notin Absent \cup {"starting"}
      /\ start' = [start EXCEPT ![h].pc = "done", ![h].said = start[h].seen, ![h].seen = "none"]
      /\ UNCHANGED <<setting, rec, order, stop, aged, worker, lock, outcome, ran, quiet, early, job, call, probing>>
  BY DEF StartAnswers, runVars
<1>3. /\ start' \in [Handles -> Starts] /\ \A g \in Handles \ {h} : start'[g] = start[g]
      /\ start'[h].pc = "done" /\ start'[h].seen = "none"
      /\ start'[h].exited = start[h].exited /\ start'[h].said # "failed"
  <2>1. PICK seen \in {"running"} \cup TERMINAL_RUN_STATES : seen = start[h].seen
    <3>1. start[h].seen \in RecordStates
      BY <1>1 DEF Typed, Starts
    <3> QED BY <1>2, <3>1 DEF RecordStates
  <2>2. start' = [start EXCEPT ![h].pc = "done", ![h].said = seen, ![h].seen = "none"]
    BY <1>2, <2>1
  <2>3. seen # "failed" /\ "none" \in RecordStates
    BY DEF TERMINAL_RUN_STATES, RecordStates, Absent
  <2> QED BY <1>1, <2>2, <2>3 DEF Typed, Starts
<1>4. Typed'
  BY <1>1, <1>2, <1>3 DEF Typed
<1>5. \A g \in Handles \ {h} : Same(g)
  BY <1>2, <1>3 DEF Same
<1>6. Onward(h)
  BY <1>1, <1>2, <1>3 DEF Onward, Ended, Over, Lost, RunOf, StartOf
<1>7. RunOf(h)'
  <2>1. LockOf(h)'
    BY <1>1, <1>2, <1>3 DEF RunOf, LockOf, Holding, Registered
  <2>2. RecordOf(h)'
    BY <1>1, <1>2, <1>3 DEF RunOf, RecordOf, Registered, Ended, Over, Lost, TERMINAL_RUN_STATES, Absent
  <2>3. AgedOf(h)'
    BY <1>1, <1>2, <1>3 DEF RunOf, AgedOf
  <2>4. PlantOf(h)'
    BY <1>1, <1>2, <1>3 DEF RunOf, PlantOf
  <2>5. StartOf(h)'
    BY <1>1, <1>2, <1>3 DEF RunOf, StartOf, Over, Lost, Absent
  <2> QED BY <2>1, <2>2, <2>3, <2>4, <2>5 DEF RunOf
<1>8. Listing' /\ ProbesFree'
  BY <1>1, <1>2 DEF Listing, ProbesFree
<1> QED BY <1>2, <1>4, <1>5, <1>6, <1>7, <1>8, Step

\* There is nothing to answer yet.
LEMMA StartLoopsKeeps ==
    ASSUME Countable, IInv, NEW h \in Handles, StartLoops(h)
    PROVE  IInv'
<1>1. Typed /\ Listing /\ ProbesFree /\ RunOf(h)
  BY DEF IInv, OfRuns, OfPrunes
<1>2. /\ start[h].pc = "judging"
      /\ start' = [start EXCEPT ![h].pc = "watching", ![h].seen = "none", ![h].exited = @ \/ worker[h] \in Over]
      /\ UNCHANGED <<setting, rec, order, stop, aged, worker, lock, outcome, ran, quiet, early, job, call, probing>>
  BY DEF StartLoops, runVars
<1>3. /\ start' \in [Handles -> Starts] /\ \A g \in Handles \ {h} : start'[g] = start[g]
      /\ start'[h].pc = "watching" /\ start'[h].said = start[h].said
      /\ start'[h].exited => start[h].exited \/ worker[h] \in Over
  <2>1. PICK exited \in BOOLEAN : exited = (start[h].exited \/ worker[h] \in Over)
    OBVIOUS
  <2>2. start' = [start EXCEPT ![h].pc = "watching", ![h].seen = "none", ![h].exited = exited]
    BY <1>2, <2>1
  <2>3. "none" \in RecordStates
    BY DEF RecordStates, Absent
  <2>4. CASE exited = TRUE
    <3>1. PICK s : s = [start[h] EXCEPT !.pc = "watching", !.seen = "none", !.exited = TRUE]
      OBVIOUS
    <3>2. s \in Starts /\ s.pc = "watching" /\ s.said = start[h].said /\ s.exited = TRUE
      <4>1. start[h] \in Starts
        BY <1>1 DEF Typed
      <4> QED BY <2>3, <3>1, <4>1 DEF Starts
    <3>3. start' = [start EXCEPT ![h] = s]
      BY <2>2, <2>4, <3>1
    <3>4. start[h].exited \/ worker[h] \in Over
      BY <2>1, <2>4
    <3> QED BY <1>1, <3>2, <3>3, <3>4 DEF Typed
  <2>5. CASE exited = FALSE
    <3>1. PICK s : s = [start[h] EXCEPT !.pc = "watching", !.seen = "none", !.exited = FALSE]
      OBVIOUS
    <3>2. s \in Starts /\ s.pc = "watching" /\ s.said = start[h].said /\ s.exited = FALSE
      <4>1. start[h] \in Starts
        BY <1>1 DEF Typed
      <4> QED BY <2>3, <3>1, <4>1 DEF Starts
    <3>3. start' = [start EXCEPT ![h] = s]
      BY <2>2, <2>5, <3>1
    <3> QED BY <1>1, <3>2, <3>3 DEF Typed
  <2> QED BY <2>1, <2>4, <2>5
<1>4. Typed'
  BY <1>1, <1>2, <1>3 DEF Typed
<1>5. \A g \in Handles \ {h} : Same(g)
  BY <1>2, <1>3 DEF Same
<1>6. Onward(h)
  BY <1>1, <1>2, <1>3 DEF Onward, Ended, Over, Lost, RunOf, StartOf
<1>7. RunOf(h)'
  <2>1. LockOf(h)'
    BY <1>1, <1>2, <1>3 DEF RunOf, LockOf, Holding, Registered
  <2>2. RecordOf(h)'
    BY <1>1, <1>2, <1>3 DEF RunOf, RecordOf, Registered, Ended, Over, Lost, TERMINAL_RUN_STATES, Absent
  <2>3. AgedOf(h)'
    BY <1>1, <1>2, <1>3 DEF RunOf, AgedOf
  <2>4. PlantOf(h)'
    BY <1>1, <1>2, <1>3 DEF RunOf, PlantOf
  <2>5. StartOf(h)'
    BY <1>1, <1>2, <1>3 DEF RunOf, StartOf, Over, Lost, Absent
  <2> QED BY <2>1, <2>2, <2>3, <2>4, <2>5 DEF RunOf
<1>8. Listing' /\ ProbesFree'
  BY <1>1, <1>2 DEF Listing, ProbesFree
<1> QED BY <1>2, <1>4, <1>5, <1>6, <1>7, <1>8, Step

\* The worker has ended, and its grace is over: the start says so, and prunes.
LEMMA StartFailsKeeps ==
    ASSUME Countable, IInv, NEW h \in Handles, StartFails(h)
    PROVE  IInv'
<1>1. Typed /\ Listing /\ ProbesFree /\ RunOf(h)
  BY DEF IInv, OfRuns, OfPrunes
<1>2. /\ start[h].pc = "judging" /\ start[h].seen \in Absent /\ start[h].exited
      /\ start' = [start EXCEPT ![h] = [NoStart EXCEPT !.pc = "failing"]]
      /\ JobStarts(<<"start", h>>, order)
      /\ UNCHANGED <<setting, rec, order, stop, aged, worker, lock, outcome, ran, quiet, early, call, probing>>
  BY DEF StartFails, GraceOver, runVars
<1>3. /\ start' \in [Handles -> Starts] /\ \A g \in Handles \ {h} : start'[g] = start[g]
      /\ start'[h].pc = "failing" /\ ~start'[h].exited /\ start'[h].said = "none"
  <2>1. NoStart \in Starts /\ ~NoStart.exited /\ NoStart.said = "none"
    BY DEF NoStart, Starts, RecordStates, Absent
  <2>2. PICK failing : failing = [NoStart EXCEPT !.pc = "failing"]
    OBVIOUS
  <2>3. failing \in Starts /\ failing.pc = "failing" /\ ~failing.exited /\ failing.said = "none"
    <3> HIDE DEF NoStart
    <3> QED BY <2>1, <2>2 DEF Starts
  <2>4. start' = [start EXCEPT ![h] = failing]
    BY <1>2, <2>2
  <2> QED BY <1>1, <2>3, <2>4 DEF Typed
<1>9. /\ job' \in [Pruners -> PruneJobs]
      /\ \A a \in Pruners : job'[a] = job[a] \/ JobOf(a)'
  <2> DEFINE a == <<"start", h>>
  <2>1. a \in Pruners
    BY DEF Pruners
  <2>2. PICK listing \in Seq(Handles) : listing = order
    BY <1>1 DEF Typed
  <2>3. JobStarts(a, listing)
    BY <1>2, <2>2
  <2> HIDE DEF a
  <2>4. /\ job' \in [Pruners -> PruneJobs]
        /\ \A b \in Pruners \ {a} : job'[b] = job[b]
        /\ job'[a].phase = "cap" /\ job'[a].at = Nobody /\ job'[a].todo \subseteq Range(listing)
    BY <1>1, <2>1, <2>3, JobStartsIs
  <2>5. \A g \in Range(listing) : rec'[g] # "none"
    BY <1>1, <1>2, <2>2 DEF Listing, Absent
  <2>6. JobOf(a)'
    BY <2>4, <2>5 DEF JobOf, Countable
  <2> QED BY <2>4, <2>6
<1>4. Typed'
  BY <1>1, <1>2, <1>3, <1>9 DEF Typed
<1>5. \A g \in Handles \ {h} : Same(g)
  BY <1>2, <1>3 DEF Same
<1>6. Onward(h)
  BY <1>1, <1>2, <1>3 DEF Onward, Ended, Over, Lost, RunOf, StartOf
<1>7. RunOf(h)'
  <2>1. LockOf(h)'
    BY <1>1, <1>2, <1>3 DEF RunOf, LockOf, Holding, Registered
  <2>2. RecordOf(h)'
    BY <1>1, <1>2, <1>3 DEF RunOf, RecordOf, Registered, Ended, Over, Lost, TERMINAL_RUN_STATES, Absent
  <2>3. AgedOf(h)'
    BY <1>1, <1>2, <1>3 DEF RunOf, AgedOf
  <2>4. PlantOf(h)'
    BY <1>1, <1>2, <1>3 DEF RunOf, PlantOf
  <2>5. StartOf(h)'
    BY <1>1, <1>2, <1>3 DEF RunOf, StartOf, Over, Lost, Absent
  <2> QED BY <2>1, <2>2, <2>3, <2>4, <2>5 DEF RunOf
<1>8. Listing' /\ ProbesFree'
  BY <1>1, <1>2 DEF Listing, ProbesFree
<1> QED BY <1>2, <1>4, <1>5, <1>6, <1>7, <1>8, <1>9, Step

\* The window is over: the stop is planted, and the directory pruned.
LEMMA StartGivesUpKeeps ==
    ASSUME Countable, IInv, NEW h \in Handles, StartGivesUp(h)
    PROVE  IInv'
<1>1. Typed /\ Listing /\ ProbesFree /\ RunOf(h)
  BY DEF IInv, OfRuns, OfPrunes
<1>2. /\ start[h].pc = "judging"
      /\ start' = [start EXCEPT ![h] = [NoStart EXCEPT !.pc = "giving_up"]]
      /\ JobStarts(<<"start", h>>, order)
      /\ \/ /\ stop' = [stop EXCEPT ![h] = TRUE]
            /\ aged' = [aged EXCEPT ![h] = FALSE]
            /\ early' = [early EXCEPT ![h] = worker[h] \in {"spawned", "locked", "pruning"}]
         \/ UNCHANGED <<stop, aged, early>>
      /\ UNCHANGED <<setting, rec, order, worker, lock, outcome, ran, quiet, call, probing>>
  BY DEF StartGivesUp, runVars
<1>3. /\ start' \in [Handles -> Starts] /\ \A g \in Handles \ {h} : start'[g] = start[g]
      /\ start'[h].pc = "giving_up" /\ ~start'[h].exited /\ start'[h].said = "none"
  <2>1. NoStart \in Starts /\ ~NoStart.exited /\ NoStart.said = "none"
    BY DEF NoStart, Starts, RecordStates, Absent
  <2>2. PICK up : up = [NoStart EXCEPT !.pc = "giving_up"]
    OBVIOUS
  <2>3. up \in Starts /\ up.pc = "giving_up" /\ ~up.exited /\ up.said = "none"
    <3> HIDE DEF NoStart
    <3> QED BY <2>1, <2>2 DEF Starts
  <2>4. start' = [start EXCEPT ![h] = up]
    BY <1>2, <2>2
  <2> QED BY <1>1, <2>3, <2>4 DEF Typed
<1>9. /\ job' \in [Pruners -> PruneJobs]
      /\ \A a \in Pruners : job'[a] = job[a] \/ JobOf(a)'
  <2> DEFINE a == <<"start", h>>
  <2>1. a \in Pruners
    BY DEF Pruners
  <2>2. PICK listing \in Seq(Handles) : listing = order
    BY <1>1 DEF Typed
  <2>3. JobStarts(a, listing)
    BY <1>2, <2>2
  <2> HIDE DEF a
  <2>4. /\ job' \in [Pruners -> PruneJobs]
        /\ \A b \in Pruners \ {a} : job'[b] = job[b]
        /\ job'[a].phase = "cap" /\ job'[a].at = Nobody /\ job'[a].todo \subseteq Range(listing)
    BY <1>1, <2>1, <2>3, JobStartsIs
  <2>5. \A g \in Range(listing) : rec'[g] # "none"
    BY <1>1, <1>2, <2>2 DEF Listing, Absent
  <2>6. JobOf(a)'
    BY <2>4, <2>5 DEF JobOf, Countable
  <2> QED BY <2>4, <2>6
<1>10. /\ stop' \in [Handles -> BOOLEAN] /\ aged' \in [Handles -> BOOLEAN] /\ early' \in [Handles -> BOOLEAN]
       /\ \A g \in Handles \ {h} : stop'[g] = stop[g] /\ aged'[g] = aged[g] /\ early'[g] = early[g]
  <2> DEFINE before == worker[h] \in {"spawned", "locked", "pruning"}
  <2>1. before = TRUE \/ before = FALSE
    OBVIOUS
  <2> HIDE DEF before
  <2>2. \/ early' = [early EXCEPT ![h] = TRUE]
        \/ early' = [early EXCEPT ![h] = FALSE]
        \/ early' = early
    BY <1>2, <2>1 DEF before
  <2> QED BY <1>1, <1>2, <2>2 DEF Typed
<1>11. \/ stop'[h] /\ ~aged'[h] /\ early'[h] = (worker[h] \in {"spawned", "locked", "pruning"})
       \/ stop'[h] = stop[h] /\ aged'[h] = aged[h] /\ early'[h] = early[h]
  BY <1>1, <1>2 DEF Typed
<1>4. Typed'
  BY <1>1, <1>2, <1>3, <1>9, <1>10 DEF Typed
<1>5. \A g \in Handles \ {h} : Same(g)
  BY <1>2, <1>3, <1>10 DEF Same
<1>6. Onward(h)
  BY <1>2 DEF Onward
<1>7. RunOf(h)'
  <2>1. LockOf(h)'
    BY <1>1, <1>2, <1>3, <1>11 DEF RunOf, LockOf, Holding, Registered
  <2>2. RecordOf(h)'
    BY <1>1, <1>2, <1>3, <1>11 DEF RunOf, RecordOf, Registered, Ended, Over, Lost, TERMINAL_RUN_STATES, Absent
  <2>3. AgedOf(h)'
    BY <1>1, <1>2, <1>3, <1>11 DEF RunOf, AgedOf
  <2>4. PlantOf(h)'
    BY <1>1, <1>2, <1>3, <1>11 DEF RunOf, PlantOf
  <2>5. StartOf(h)'
    BY <1>1, <1>2, <1>3, <1>11 DEF RunOf, StartOf, Over, Lost, Absent
  <2> QED BY <2>1, <2>2, <2>3, <2>4, <2>5 DEF RunOf
<1>8. Listing' /\ ProbesFree'
  BY <1>1, <1>2 DEF Listing, ProbesFree
<1> QED BY <1>2, <1>4, <1>5, <1>6, <1>7, <1>8, <1>9, Step

\* The prune is over and the start answers.
LEMMA StartEndsKeeps ==
    ASSUME Countable, IInv, NEW h \in Handles, StartEnds(h)
    PROVE  IInv'
<1>1. Typed /\ Listing /\ ProbesFree /\ RunOf(h)
  BY DEF IInv, OfRuns, OfPrunes
<1>2. /\ start[h].pc \in {"failing", "giving_up"}
      /\ start' = [start EXCEPT ![h].pc = "done",
                                ![h].said = IF start[h].pc = "failing" THEN "failed" ELSE "unresponsive"]
      /\ job' = [job EXCEPT ![<<"start", h>>] = NoJob]
      /\ UNCHANGED <<setting, rec, order, stop, aged, worker, lock, outcome, ran, quiet, early, call, probing>>
  BY DEF StartEnds, runVars
<1>3. /\ start' \in [Handles -> Starts] /\ \A g \in Handles \ {h} : start'[g] = start[g]
      /\ start'[h].pc = "done" /\ start'[h].exited = start[h].exited
      /\ start'[h].said = "failed" => start[h].pc = "failing"
  <2>1. PICK said \in {"failed", "unresponsive"} :
               said = IF start[h].pc = "failing" THEN "failed" ELSE "unresponsive"
    OBVIOUS
  <2>2. start' = [start EXCEPT ![h].pc = "done", ![h].said = said]
    BY <1>2, <2>1
  <2>3. /\ start' \in [Handles -> Starts] /\ \A g \in Handles \ {h} : start'[g] = start[g]
        /\ start'[h].pc = "done" /\ start'[h].exited = start[h].exited /\ start'[h].said = said
    BY <1>1, <2>2 DEF Typed, Starts
  <2> QED BY <2>1, <2>3
<1>4. Typed'
  <2>1. NoJob \in PruneJobs
    BY DEF NoJob, PruneJobs
  <2> QED BY <1>1, <1>2, <1>3, <2>1 DEF Typed
<1>5. \A g \in Handles \ {h} : Same(g)
  BY <1>2, <1>3 DEF Same
<1>6. Onward(h)
  BY <1>1, <1>2, <1>3 DEF Onward, Ended, Over, Lost, RunOf, StartOf
<1>7. RunOf(h)'
  <2>1. LockOf(h)'
    BY <1>1, <1>2, <1>3 DEF RunOf, LockOf, Holding, Registered
  <2>2. RecordOf(h)'
    BY <1>1, <1>2, <1>3 DEF RunOf, RecordOf, Registered, Ended, Over, Lost, TERMINAL_RUN_STATES, Absent
  <2>3. AgedOf(h)'
    BY <1>1, <1>2, <1>3 DEF RunOf, AgedOf
  <2>4. PlantOf(h)'
    BY <1>1, <1>2, <1>3 DEF RunOf, PlantOf
  <2>5. StartOf(h)'
    BY <1>1, <1>2, <1>3 DEF RunOf, StartOf, Over, Lost, Absent
  <2> QED BY <2>1, <2>2, <2>3, <2>4, <2>5 DEF RunOf
<1>8. Listing' /\ ProbesFree'
  BY <1>1, <1>2 DEF Listing, ProbesFree
<1>9. \A a \in Pruners : job'[a] = job[a] \/ JobOf(a)'
  <2>1. \A a \in Pruners : job'[a] = job[a] \/ job'[a] = NoJob
    BY <1>1, <1>2 DEF Typed
  <2> QED BY <2>1 DEF JobOf, NoJob, Countable
<1> QED BY <1>2, <1>4, <1>5, <1>6, <1>7, <1>8, <1>9, Step

\* Files without a record get old.
LEMMA AgeKeeps ==
    ASSUME Countable, Punctual, IInv, NEW h \in Handles, Age(h)
    PROVE  IInv'
<1>1. Typed /\ Listing /\ ProbesFree /\ RunOf(h)
  BY DEF IInv, OfRuns, OfPrunes
<1>2. /\ worker[h] \notin {"none", "spawned"} /\ aged' = [aged EXCEPT ![h] = TRUE]
      /\ UNCHANGED <<setting, rec, order, stop, worker, lock, outcome, ran, quiet, start, early, job, call, probing>>
  BY DEF Age, Punctual, runVars
<1>3. /\ aged' \in [Handles -> BOOLEAN] /\ \A g \in Handles \ {h} : aged'[g] = aged[g]
  BY <1>1, <1>2 DEF Typed
<1>4. Typed'
  BY <1>1, <1>2, <1>3 DEF Typed
<1>5. \A g \in Handles \ {h} : Same(g)
  BY <1>2, <1>3 DEF Same
<1>6. Onward(h)
  BY <1>2 DEF Onward
<1>7. RunOf(h)'
  <2>1. LockOf(h)'
    BY <1>1, <1>2, <1>3 DEF RunOf, LockOf, Holding, Registered
  <2>2. RecordOf(h)'
    BY <1>1, <1>2, <1>3 DEF RunOf, RecordOf, Registered, Ended, Over, Lost, TERMINAL_RUN_STATES, Absent
  <2>3. AgedOf(h)'
    BY <1>1, <1>2, <1>3 DEF RunOf, AgedOf
  <2>4. PlantOf(h)'
    BY <1>1, <1>2, <1>3 DEF RunOf, PlantOf
  <2>5. StartOf(h)'
    BY <1>1, <1>2, <1>3 DEF RunOf, StartOf, Over, Lost, Absent
  <2> QED BY <2>1, <2>2, <2>3, <2>4, <2>5 DEF RunOf
<1>8. Listing' /\ ProbesFree'
  BY <1>1, <1>2 DEF Listing, ProbesFree
<1> QED BY <1>2, <1>4, <1>5, <1>6, <1>7, <1>8, Step

-----------------------------------------------------------------------------
(* The prune.                                                               *)

\* A run whose lock can be taken has ended, if it ever got as far as a record or
\* outlived the widest start window.
LEMMA FreeHasEnded ==
    ASSUME Typed, NEW h \in Handles, RunOf(h), lock[h] # "path", rec[h] # "none" \/ aged[h]
    PROVE  worker[h] \in Ended
<1>1. worker[h] \in {"none"} \cup Alive \cup Over
  BY DEF Typed
<1>2. worker[h] \notin Holding \ {"published"}
  BY DEF RunOf, LockOf
<1>3. worker[h] \notin {"none", "spawned"}
  BY DEF RunOf, RecordOf, AgedOf, Registered
<1> QED BY <1>1, <1>2, <1>3 DEF Holding, Alive, Ended

\* One candidate is judged.
LEMMA PruneLookKeeps ==
    ASSUME Countable, Punctual, IInv, NEW a \in Pruners, NEW h \in Handles,
           NEW unreadable \in ReadFaults, PruneLook(a, h, unreadable)
    PROVE  IInv'
<1>1. Typed /\ Listing /\ ProbesFree /\ RunOf(h) /\ JobOf(a)
  BY DEF IInv, OfRuns, OfPrunes
<1>2. ~unreadable
  BY DEF Punctual
<1>3. /\ job[a].phase # "off" /\ job[a].at = Nobody /\ h \in job[a].todo
      /\ UNCHANGED <<setting, rec, order, stop, aged, worker, lock, outcome, ran, quiet, start, early, call>>
  BY DEF PruneLook, runVars
<1> DEFINE next(at) == job' = [job EXCEPT ![a].todo = @ \ {h}, ![a].at = at]
<1>4. \/ next(Nobody) /\ UNCHANGED probing
      \/ job[a].phase = "cap" /\ EndedForPrune(h, unreadable) /\ next(h) /\ UNCHANGED probing
      \/ /\ LockFree(h) /\ (job[a].phase = "sweep" => aged[h])
         /\ next(h) /\ probing' = [probing EXCEPT ![a] = h]
  BY DEF PruneLook, SweepAsksLock
<1>5. ASSUME NEW at \in Handles \cup {Nobody}, next(at)
      PROVE  /\ job' \in [Pruners -> PruneJobs] /\ \A b \in Pruners \ {a} : job'[b] = job[b]
             /\ job'[a].at = at /\ job'[a].todo = job[a].todo \ {h} /\ job'[a].phase = job[a].phase
  <2>1. PICK j : j = [job[a] EXCEPT !.todo = job[a].todo \ {h}, !.at = at]
    OBVIOUS
  <2>2. job[a] \in PruneJobs
    BY <1>1 DEF Typed
  <2>3. j \in PruneJobs /\ j.at = at /\ j.todo = job[a].todo \ {h} /\ j.phase = job[a].phase
    BY <2>1, <2>2 DEF PruneJobs
  <2>4. job' = [job EXCEPT ![a] = j]
    BY <1>5, <2>1
  <2> QED BY <1>1, <2>3, <2>4 DEF Typed
<1> HIDE DEF next
<1>6. job[a].phase \in {"cap", "sweep"}
  BY <1>1, <1>3 DEF Typed, PruneJobs
<1>7. /\ job' \in [Pruners -> PruneJobs] /\ \A b \in Pruners \ {a} : job'[b] = job[b]
      /\ job'[a].at \in {h, Nobody} /\ job'[a].todo = job[a].todo \ {h} /\ job'[a].phase = job[a].phase
  BY <1>4, <1>5
<1>8. job[a].phase = "cap" => rec[h] # "none"
  BY <1>1, <1>3 DEF JobOf
<1>9. job'[a].at = h => worker[h] \in Ended
  <2>1. CASE next(Nobody)
    BY <1>5, <2>1 DEF Countable
  <2>2. CASE job[a].phase = "cap" /\ EndedForPrune(h, unreadable)
    BY <1>1, <1>2, <1>8, <2>2
       DEF EndedForPrune, RunOf, RecordOf, Absent, TERMINAL_RUN_STATES, Ended, Over, Lost
  <2>3. CASE LockFree(h) /\ (job[a].phase = "sweep" => aged[h])
    BY <1>1, <1>6, <1>8, <2>3, FreeHasEnded DEF LockFree
  <2> QED BY <1>4, <2>1, <2>2, <2>3
<1>10. JobOf(a)'
  BY <1>1, <1>3, <1>7, <1>8, <1>9 DEF JobOf, Countable
<1>11. Typed'
  BY <1>1, <1>3, <1>4, <1>7 DEF Typed
<1>12. ProbesFree'
  <2>1. CASE UNCHANGED probing
    BY <1>1, <1>3, <2>1 DEF ProbesFree
  <2>2. CASE LockFree(h) /\ probing' = [probing EXCEPT ![a] = h]
    <3>1. \A b \in Pruners \cup Readers : probing'[b] = probing[b] \/ probing'[b] = h
      BY <1>1, <2>2 DEF Typed
    <3> QED BY <1>1, <1>3, <2>2, <3>1 DEF ProbesFree, LockFree
  <2> QED BY <1>4, <2>1, <2>2
<1>13. \A g \in Handles : Same(g)
  BY <1>3 DEF Same
<1>14. Listing'
  BY <1>1, <1>3 DEF Listing
<1> QED BY <1>3, <1>7, <1>10, <1>11, <1>12, <1>13, <1>14, Step

\* The probe gives its lock back.
LEMMA PruneProbedKeeps ==
    ASSUME Countable, IInv, NEW a \in Pruners, PruneProbed(a)
    PROVE  IInv'
<1>1. Typed /\ Listing /\ ProbesFree
  BY DEF IInv, OfPrunes
<1>2. /\ probing' = [probing EXCEPT ![a] = Nobody]
      /\ UNCHANGED <<setting, rec, order, stop, aged, worker, lock, outcome, ran, quiet, start, early, job, call>>
  BY DEF PruneProbed, runVars
<1>3. Typed'
  BY <1>1, <1>2 DEF Typed
<1>4. ProbesFree'
  <2>1. \A b \in Pruners \cup Readers : probing'[b] \in {probing[b], Nobody}
    BY <1>1, <1>2 DEF Typed
  <2> QED BY <1>1, <1>2, <2>1, SameProbes
<1>5. \A g \in Handles : Same(g)
  BY <1>2 DEF Same
<1>6. Listing'
  BY <1>1, <1>2 DEF Listing
<1> QED BY <1>2, <1>3, <1>4, <1>5, <1>6, Step

\* The files of a run that has ended go.
LEMMA PruneUnlinkKeeps ==
    ASSUME Countable, IInv, NEW a \in Pruners, PruneUnlink(a)
    PROVE  IInv'
<1>1. Typed /\ Listing /\ ProbesFree /\ JobOf(a)
  BY DEF IInv, OfPrunes
<1>2. PICK h \in Handles : h = job[a].at
  BY <1>1 DEF PruneUnlink, Typed, PruneJobs
<1>3. RunOf(h) /\ worker[h] \in Ended /\ (job[a].phase = "cap" => rec[h] # "none")
  BY <1>1, <1>2 DEF IInv, OfRuns, JobOf
<1>4. /\ job' = [job EXCEPT ![a].at = Nobody]
      /\ UNCHANGED <<setting, aged, worker, outcome, ran, quiet, start, early, call>>
  BY DEF PruneUnlink, runVars
<1>5. PICK removed \in {"removed", rec[h]} : /\ Unlink(h, removed)
                                             /\ removed = (IF job[a].phase = "cap" THEN "removed" ELSE rec[h])
  BY <1>2 DEF PruneUnlink
<1>6. /\ rec' \in [Handles -> RecordStates] /\ rec'[h] = removed
      /\ \A g \in Handles \ {h} : rec'[g] = rec[g]
      /\ order' \in Seq(Handles) /\ Listing'
      /\ stop' \in [Handles -> BOOLEAN] /\ \A g \in Handles \ {h} : stop'[g] = stop[g]
      /\ lock' \in [Handles -> {"none", "path", "unlinked"}]
      /\ lock'[h] = (IF lock[h] = "path" THEN "unlinked" ELSE lock[h])
      /\ \A g \in Handles \ {h} : lock'[g] = lock[g]
      /\ probing' \in [Pruners \cup Readers -> Handles \cup {Nobody}]
      /\ \A b \in Pruners \cup Readers : probing'[b] \in Handles => probing'[b] = probing[b] /\ probing[b] # h
  BY <1>5, UnlinkIs
<1>7. /\ job' \in [Pruners -> PruneJobs] /\ \A b \in Pruners \ {a} : job'[b] = job[b]
      /\ job'[a].at = Nobody /\ job'[a].todo = job[a].todo /\ job'[a].phase = job[a].phase
  BY <1>1, <1>4 DEF Typed, PruneJobs
<1>8. Typed'
  BY <1>1, <1>4, <1>6, <1>7 DEF Typed
<1>9. rec'[h] = rec[h] \/ (rec[h] # "none" /\ rec'[h] = "removed")
  BY <1>3, <1>5, <1>6
<1>10. \A g \in Handles \ {h} : Same(g)
  BY <1>4, <1>6 DEF Same
<1>11. Onward(h)
  BY <1>4, <1>9 DEF Onward
<1>12. RunOf(h)'
  <2>1. LockOf(h)'
    BY <1>3, <1>4, <1>6 DEF RunOf, LockOf, Ended, Over, Lost, Holding, Registered
  <2>2. RecordOf(h)'
    BY <1>3, <1>4, <1>9 DEF RunOf, RecordOf, Registered, TERMINAL_RUN_STATES
  <2>3. AgedOf(h)'
    BY <1>3, <1>4 DEF RunOf, AgedOf
  <2>4. PlantOf(h)'
    BY <1>3, <1>4 DEF RunOf, PlantOf, Ended, Over, Lost
  <2>5. StartOf(h)'
    BY <1>3, <1>4, <1>9 DEF RunOf, StartOf, Absent
  <2> QED BY <2>1, <2>2, <2>3, <2>4, <2>5 DEF RunOf
<1>13. JobOf(a)'
  <2>1. \A g \in Handles : rec[g] # "none" => rec'[g] # "none"
    BY <1>6, <1>9
  <2>2. job[a].todo \subseteq Handles
    BY <1>1 DEF Typed, PruneJobs
  <2> QED BY <1>1, <1>7, <2>1, <2>2 DEF JobOf, Countable
<1>14. ProbesFree'
  BY <1>1, <1>6 DEF ProbesFree
<1> QED BY <1>4, <1>6, <1>7, <1>8, <1>10, <1>11, <1>12, <1>13, <1>14, Step

\* The sweep begins.
LEMMA SweepListKeeps ==
    ASSUME Countable, IInv, NEW a \in Pruners, SweepList(a)
    PROVE  IInv'
<1>1. Typed /\ Listing /\ ProbesFree
  BY DEF IInv, OfPrunes
<1> DEFINE found == Orphans \ (IF a[1] = "start" THEN {a[2]} ELSE {})
<1>2. found \subseteq Handles
  BY DEF Orphans
<1>3. /\ job[a].at = Nobody /\ job' = [job EXCEPT ![a].phase = "sweep", ![a].todo = found]
      /\ UNCHANGED <<setting, rec, order, stop, aged, worker, lock, outcome, ran, quiet, start, early, call, probing>>
  BY DEF SweepList, runVars
<1> HIDE DEF found
<1>4. /\ job' \in [Pruners -> PruneJobs] /\ \A b \in Pruners \ {a} : job'[b] = job[b]
      /\ job'[a].at = Nobody /\ job'[a].phase = "sweep"
  <2>1. PICK j : j = [job[a] EXCEPT !.phase = "sweep", !.todo = found]
    OBVIOUS
  <2>2. job[a] \in PruneJobs
    BY <1>1 DEF Typed
  <2>3. j \in PruneJobs /\ j.at = job[a].at /\ j.phase = "sweep"
    BY <1>2, <2>1, <2>2 DEF PruneJobs
  <2>4. job' = [job EXCEPT ![a] = j]
    BY <1>3, <2>1
  <2> QED BY <1>1, <1>3, <2>3, <2>4 DEF Typed
<1>5. Typed'
  BY <1>1, <1>3, <1>4 DEF Typed
<1>6. JobOf(a)'
  BY <1>4 DEF JobOf, Countable
<1>7. \A g \in Handles : Same(g)
  BY <1>3 DEF Same
<1>8. Listing' /\ ProbesFree'
  BY <1>1, <1>3 DEF Listing, ProbesFree
<1> QED BY <1>3, <1>4, <1>5, <1>6, <1>7, <1>8, Step

-----------------------------------------------------------------------------
(* The readers.                                                             *)

\* The record is read.
LEMMA AskKeeps ==
    ASSUME Countable, IInv, NEW r \in Readers, NEW op \in {"status", "list", "stop"}, NEW h \in Handles, Ask(r, op, h)
    PROVE  IInv'
<1>1. Typed /\ Listing /\ ProbesFree /\ CallOf(r) /\ OfRuns
  BY DEF IInv, OfPrunes, OfReaders
<1>2. UNCHANGED <<setting, rec, order, stop, aged, worker, lock, outcome, ran, quiet, start, early, job, probing>>
  BY DEF Ask, runVars
<1> DEFINE done == rec[h] \in Absent \cup TERMINAL_RUN_STATES
           answer == [op |-> op, at |-> h, seen |-> rec[h], stage |-> IF done THEN "idle" ELSE "probe",
                      said |-> IF done THEN rec[h] ELSE "none"]
<1>3. rec[h] \in RecordStates
  BY <1>1 DEF Typed
<1>4. answer \in Calls /\ answer.at = h /\ answer.seen = rec[h] /\ answer.said # "worker_gone"
  <2>1. "none" \in RecordStates /\ "worker_gone" \notin RecordStates
    BY DEF RecordStates, Absent, TERMINAL_RUN_STATES
  <2>2. CASE done
    BY <1>3, <2>1, <2>2 DEF Calls
  <2>3. CASE ~done
    BY <1>3, <2>1, <2>3 DEF Calls
  <2> QED BY <2>2, <2>3
<1>5. answer.stage # "idle" => answer.stage = "probe" /\ answer.said = "none" /\ rec[h] \in {"starting", "running"}
  BY <1>3 DEF RecordStates
<1>6. call' = [call EXCEPT ![r] = answer]
  BY DEF Ask
<1> HIDE DEF answer
<1>7. /\ call' \in [Readers -> Calls] /\ call'[r] = answer
      /\ \A q \in Readers \ {r} : call'[q] = call[q]
  BY <1>1, <1>4, <1>6 DEF Typed
<1>8. CallOf(r)'
  BY <1>2, <1>4, <1>5, <1>7 DEF CallOf
<1>9. Typed'
  BY <1>1, <1>2, <1>7 DEF Typed
<1>10. \A g \in Handles : Same(g)
  BY <1>2 DEF Same
<1>11. Listing' /\ ProbesFree'
  BY <1>1, <1>2 DEF Listing, ProbesFree
<1> QED BY <1>2, <1>7, <1>8, <1>9, <1>10, <1>11, Step

\* The lock is taken for a moment, or somebody has it.
LEMMA ProbeKeeps ==
    ASSUME Countable, IInv, NEW r \in Readers, Probe(r)
    PROVE  IInv'
<1>1. Typed /\ Listing /\ ProbesFree /\ CallOf(r) /\ OfRuns
  BY DEF IInv, OfPrunes, OfReaders
<1>2. /\ call[r].stage = "probe"
      /\ UNCHANGED <<setting, rec, order, stop, aged, worker, lock, outcome, ran, quiet, start, early, job>>
  BY DEF Probe, runVars
<1>3. PICK h \in Handles : h = call[r].at
  BY <1>1, <1>2 DEF CallOf
<1>4. RunOf(h) /\ rec[h] # "none" /\ call[r].said = "none"
  BY <1>1, <1>2, <1>3 DEF CallOf, OfRuns
<1>5. CASE LockFree(h)
  <2>5. call' = [call EXCEPT ![r].stage = "gone"] /\ probing' = [probing EXCEPT ![r] = h]
    BY <1>3, <1>5 DEF Probe
  <2>6. /\ call' \in [Readers -> Calls] /\ \A q \in Readers \ {r} : call'[q] = call[q]
        /\ call'[r].op = call[r].op /\ call'[r].at = call[r].at /\ call'[r].seen = call[r].seen
        /\ call'[r].stage = "gone" /\ call'[r].said = call[r].said
    <3>1. PICK c : c = [call[r] EXCEPT !.stage = "gone"]
      OBVIOUS
    <3>2. call[r] \in Calls
      BY <1>1 DEF Typed
    <3>3. /\ c \in Calls /\ c.op = call[r].op /\ c.at = call[r].at /\ c.seen = call[r].seen
          /\ c.stage = "gone" /\ c.said = call[r].said
      BY <3>1, <3>2 DEF Calls
    <3>4. call' = [call EXCEPT ![r] = c]
      BY <2>5, <3>1
    <3> QED BY <1>1, <3>3, <3>4 DEF Typed
  <2>7. worker[h] \in Ended
    BY <1>1, <1>4, <1>5, FreeHasEnded DEF LockFree
  <2>8. CallOf(r)'
    BY <1>1, <1>2, <1>3, <1>4, <2>6, <2>7 DEF CallOf
  <2>9. Typed'
    BY <1>1, <1>2, <2>5, <2>6 DEF Typed
  <2>10. ProbesFree'
    <3>1. \A b \in Pruners \cup Readers : probing'[b] = probing[b] \/ probing'[b] = h
      BY <1>1, <2>5 DEF Typed
    <3> QED BY <1>1, <1>2, <1>5, <3>1 DEF ProbesFree, LockFree
  <2>11. Listing' /\ \A g \in Handles : Same(g)
    BY <1>1, <1>2 DEF Same, Listing
  <2> QED BY <1>2, <2>6, <2>8, <2>9, <2>10, <2>11, Step
<1>6. CASE ~LockFree(h)
  <2>5. call' = [call EXCEPT ![r].stage = "alive"] /\ UNCHANGED probing
    BY <1>3, <1>6 DEF Probe
  <2>6. /\ call' \in [Readers -> Calls] /\ \A q \in Readers \ {r} : call'[q] = call[q]
        /\ call'[r].op = call[r].op /\ call'[r].at = call[r].at /\ call'[r].seen = call[r].seen
        /\ call'[r].stage = "alive" /\ call'[r].said = call[r].said
    <3>1. PICK c : c = [call[r] EXCEPT !.stage = "alive"]
      OBVIOUS
    <3>2. call[r] \in Calls
      BY <1>1 DEF Typed
    <3>3. /\ c \in Calls /\ c.op = call[r].op /\ c.at = call[r].at /\ c.seen = call[r].seen
          /\ c.stage = "alive" /\ c.said = call[r].said
      BY <3>1, <3>2 DEF Calls
    <3>4. call' = [call EXCEPT ![r] = c]
      BY <2>5, <3>1
    <3> QED BY <1>1, <3>3, <3>4 DEF Typed
  <2>8. CallOf(r)'
    BY <1>1, <1>2, <1>3, <1>4, <2>6 DEF CallOf
  <2>9. Typed'
    BY <1>1, <1>2, <2>5, <2>6 DEF Typed
  <2>11. Listing' /\ ProbesFree' /\ \A g \in Handles : Same(g)
    BY <1>1, <1>2, <2>5 DEF Same, Listing, ProbesFree
  <2> QED BY <1>2, <2>6, <2>8, <2>9, <2>11, Step
<1> QED BY <1>5, <1>6

\* The lock is given back.
LEMMA GoneKeeps ==
    ASSUME Countable, IInv, NEW r \in Readers, Gone(r)
    PROVE  IInv'
<1>1. Typed /\ Listing /\ ProbesFree /\ CallOf(r) /\ OfRuns
  BY DEF IInv, OfPrunes, OfReaders
<1>2. /\ call[r].stage = "gone" /\ probing' = [probing EXCEPT ![r] = Nobody]
      /\ \/ call[r].op = "status" /\ call' = [call EXCEPT ![r].stage = "again"]
         \/ call[r].op # "status" /\ call' = [call EXCEPT ![r].stage = "idle", ![r].said = "worker_gone"]
      /\ UNCHANGED <<setting, rec, order, stop, aged, worker, lock, outcome, ran, quiet, start, early, job>>
  BY DEF Gone, LooksAgain, Answer, runVars
<1>3. /\ call' \in [Readers -> Calls] /\ \A q \in Readers \ {r} : call'[q] = call[q]
      /\ call'[r].op = call[r].op /\ call'[r].at = call[r].at /\ call'[r].seen = call[r].seen
      /\ \/ call'[r].stage = "again" /\ call'[r].said = call[r].said
         \/ call[r].op # "status" /\ call'[r].stage = "idle" /\ call'[r].said = "worker_gone"
  <2>5. CASE call' = [call EXCEPT ![r].stage = "again"]
    <3>1. PICK c : c = [call[r] EXCEPT !.stage = "again"]
      OBVIOUS
    <3>2. call[r] \in Calls
      BY <1>1 DEF Typed
    <3>3. /\ c \in Calls /\ c.op = call[r].op /\ c.at = call[r].at /\ c.seen = call[r].seen
          /\ c.stage = "again" /\ c.said = call[r].said
      BY <3>1, <3>2 DEF Calls
    <3>4. call' = [call EXCEPT ![r] = c]
      BY <2>5, <3>1
    <3> QED BY <1>1, <3>3, <3>4 DEF Typed
  <2>6. CASE /\ call[r].op # "status"
             /\ call' = [call EXCEPT ![r].stage = "idle", ![r].said = "worker_gone"]
    <3>1. PICK c : c = [call[r] EXCEPT !.stage = "idle", !.said = "worker_gone"]
      OBVIOUS
    <3>2. call[r] \in Calls
      BY <1>1 DEF Typed
    <3>3. /\ c \in Calls /\ c.op = call[r].op /\ c.at = call[r].at /\ c.seen = call[r].seen
          /\ c.stage = "idle" /\ c.said = "worker_gone"
      BY <3>1, <3>2 DEF Calls
    <3>4. call' = [call EXCEPT ![r] = c]
      BY <2>6, <3>1
    <3> QED BY <1>1, <2>6, <3>3, <3>4 DEF Typed
  <2> QED BY <1>2, <2>5, <2>6
<1>4. CallOf(r)'
  BY <1>1, <1>2, <1>3 DEF CallOf
<1>5. Typed'
  BY <1>1, <1>2, <1>3 DEF Typed
<1>6. ProbesFree'
  <2>1. \A b \in Pruners \cup Readers : probing'[b] \in {probing[b], Nobody}
    BY <1>1, <1>2 DEF Typed
  <2> QED BY <1>1, <1>2, <2>1, SameProbes
<1>7. \A g \in Handles : Same(g)
  BY <1>2 DEF Same
<1>8. Listing'
  BY <1>1, <1>2 DEF Listing
<1> QED BY <1>2, <1>3, <1>4, <1>5, <1>6, <1>7, <1>8, Step

\* The record is read again.
LEMMA AgainKeeps ==
    ASSUME Countable, IInv, NEW r \in Readers, Again(r)
    PROVE  IInv'
<1>1. Typed /\ Listing /\ ProbesFree /\ CallOf(r) /\ OfRuns
  BY DEF IInv, OfPrunes, OfReaders
<1>2. /\ call[r].stage = "again"
      /\ UNCHANGED <<setting, rec, order, stop, aged, worker, lock, outcome, ran, quiet, start, early, job, probing>>
  BY DEF Again, runVars
<1>3. PICK h \in Handles : h = call[r].at
  BY <1>1, <1>2 DEF CallOf
<1>4. /\ RunOf(h) /\ worker[h] \in Ended /\ rec[h] # "none" /\ call[r].seen \in {"starting", "running"}
      /\ rec[h] \in RecordStates
  BY <1>1, <1>2, <1>3 DEF CallOf, OfRuns, Typed
<1>5. PICK said \in TERMINAL_RUN_STATES \cup {"worker_gone"} :
            /\ call' = [call EXCEPT ![r].stage = "idle", ![r].said = said]
            /\ said = "worker_gone" => rec[h] \notin TERMINAL_RUN_STATES
  <2> DEFINE now == IF rec[h] \in Absent THEN call[r].seen ELSE rec[h]
  <2>1. call' = [call EXCEPT ![r].stage = "idle", ![r].said = IF now \in TERMINAL_RUN_STATES THEN now ELSE "worker_gone"]
    BY <1>3 DEF Again, Answer
  <2>2. rec[h] \in TERMINAL_RUN_STATES => now \in TERMINAL_RUN_STATES
    BY DEF TERMINAL_RUN_STATES, Absent
  <2> HIDE DEF now
  <2>3. CASE now \in TERMINAL_RUN_STATES
    <3>1. now # "worker_gone"
      BY <2>3 DEF TERMINAL_RUN_STATES
    <3> QED BY <2>1, <2>3, <3>1
  <2>4. CASE now \notin TERMINAL_RUN_STATES
    BY <2>1, <2>2, <2>4
  <2> QED BY <2>3, <2>4
<1>6. /\ call' \in [Readers -> Calls] /\ \A q \in Readers \ {r} : call'[q] = call[q]
      /\ call'[r].op = call[r].op /\ call'[r].at = call[r].at /\ call'[r].seen = call[r].seen
      /\ call'[r].stage = "idle" /\ call'[r].said = said
  <2>1. PICK c : c = [call[r] EXCEPT !.stage = "idle", !.said = said]
    OBVIOUS
  <2>2. call[r] \in Calls
    BY <1>1 DEF Typed
  <2>0. said \in {"none", "worker_gone", "asked"} \cup RecordStates
    BY DEF RecordStates
  <2>3. /\ c \in Calls /\ c.op = call[r].op /\ c.at = call[r].at /\ c.seen = call[r].seen
        /\ c.stage = "idle" /\ c.said = said
    BY <2>1, <2>2, <2>0 DEF Calls
  <2>4. call' = [call EXCEPT ![r] = c]
    BY <1>5, <2>1
  <2> QED BY <1>1, <2>3, <2>4 DEF Typed
<1>7. said = "worker_gone" => worker[h] \in Lost \/ rec[h] = "removed"
  BY <1>4, <1>5 DEF RunOf, RecordOf, Ended, Over, Registered, TERMINAL_RUN_STATES
<1>8. CallOf(r)'
  BY <1>2, <1>3, <1>6, <1>7 DEF CallOf
<1>9. Typed'
  BY <1>1, <1>2, <1>6 DEF Typed
<1>10. \A g \in Handles : Same(g)
  BY <1>2 DEF Same
<1>11. Listing' /\ ProbesFree'
  BY <1>1, <1>2 DEF Listing, ProbesFree
<1> QED BY <1>2, <1>6, <1>8, <1>9, <1>10, <1>11, Step

\* Somebody holds the lock: the record is the answer, or the stop is asked for.
LEMMA LivesKeeps ==
    ASSUME Countable, IInv, NEW r \in Readers, Lives(r)
    PROVE  IInv'
<1>1. Typed /\ Listing /\ ProbesFree /\ CallOf(r) /\ OfRuns
  BY DEF IInv, OfPrunes, OfReaders
<1>2. /\ call[r].stage = "alive"
      /\ UNCHANGED <<setting, rec, order, aged, worker, lock, outcome, ran, quiet, start, early, job, probing>>
  BY DEF Lives, runVars
<1>3. PICK h \in Handles : h = call[r].at
  BY <1>1, <1>2 DEF CallOf
<1>4. /\ stop' = stop \/ stop' = [stop EXCEPT ![h] = TRUE]
      /\ \E said \in {"asked", call[r].seen} : call' = [call EXCEPT ![r].stage = "idle", ![r].said = said]
  BY <1>3 DEF Lives, Answer
<1>5. PICK said \in {"asked", "starting", "running"} : call' = [call EXCEPT ![r].stage = "idle", ![r].said = said]
  BY <1>1, <1>2, <1>4 DEF CallOf
<1>6. /\ call' \in [Readers -> Calls] /\ \A q \in Readers \ {r} : call'[q] = call[q]
      /\ call'[r].op = call[r].op /\ call'[r].at = call[r].at /\ call'[r].seen = call[r].seen
      /\ call'[r].stage = "idle" /\ call'[r].said = said
  <2>1. PICK c : c = [call[r] EXCEPT !.stage = "idle", !.said = said]
    OBVIOUS
  <2>2. call[r] \in Calls
    BY <1>1 DEF Typed
  <2>0. said \in {"none", "worker_gone", "asked"} \cup RecordStates
    BY DEF RecordStates
  <2>3. /\ c \in Calls /\ c.op = call[r].op /\ c.at = call[r].at /\ c.seen = call[r].seen
        /\ c.stage = "idle" /\ c.said = said
    BY <2>1, <2>2, <2>0 DEF Calls
  <2>4. call' = [call EXCEPT ![r] = c]
    BY <1>5, <2>1
  <2> QED BY <1>1, <2>3, <2>4 DEF Typed
<1>7. CallOf(r)'
  BY <1>6 DEF CallOf
<1>8. /\ stop' \in [Handles -> BOOLEAN] /\ (stop'[h] \/ stop'[h] = stop[h])
      /\ \A g \in Handles \ {h} : stop'[g] = stop[g]
  BY <1>1, <1>4 DEF Typed
<1>9. Typed'
  BY <1>1, <1>2, <1>6, <1>8 DEF Typed
<1>10. \A g \in Handles \ {h} : Same(g)
  BY <1>2, <1>8 DEF Same
<1>11. Onward(h)
  BY <1>2 DEF Onward
<1>12. RunOf(h)'
  <2>0. RunOf(h)
    BY <1>1 DEF OfRuns
  <2>1. LockOf(h)'
    BY <2>0, <1>2, <1>8 DEF RunOf, LockOf, Holding, Registered
  <2>2. RecordOf(h)'
    BY <2>0, <1>2, <1>8 DEF RunOf, RecordOf, Registered, Ended, Over, Lost, TERMINAL_RUN_STATES, Absent
  <2>3. AgedOf(h)'
    BY <2>0, <1>2, <1>8 DEF RunOf, AgedOf
  <2>4. PlantOf(h)'
    BY <2>0, <1>2, <1>8 DEF RunOf, PlantOf
  <2>5. StartOf(h)'
    BY <2>0, <1>2, <1>8 DEF RunOf, StartOf, Over, Lost, Absent
  <2> QED BY <2>1, <2>2, <2>3, <2>4, <2>5 DEF RunOf
<1>13. Listing' /\ ProbesFree'
  BY <1>1, <1>2 DEF Listing, ProbesFree
<1> QED BY <1>2, <1>6, <1>7, <1>9, <1>10, <1>11, <1>12, <1>13, Step

-----------------------------------------------------------------------------
(* The invariant, and what follows from it.                                 *)

LEMMA InitHolds == Countable /\ Init => IInv
<1> SUFFICES ASSUME Countable, Init PROVE IInv
  OBVIOUS
<1>1. Typed
  <2>1. NoStart \in Starts /\ NoCall \in Calls /\ NoJob \in PruneJobs /\ "none" \in RecordStates
    BY DEF NoStart, NoCall, NoJob, Starts, Calls, PruneJobs, RecordStates, Absent
  <2> QED BY <2>1 DEF Init, Typed
<1>2. Listing
  <2>1. order = <<>> /\ DOMAIN order = {}
    BY DEF Init
  <2>2. \A h \in Handles : rec[h] = "none"
    BY DEF Init
  <2> QED BY <2>1, <2>2 DEF Listing, IsInjective, Range, Absent
<1>3. ASSUME NEW h \in Handles PROVE RunOf(h)
  <2>1. /\ rec[h] = "none" /\ worker[h] = "none" /\ lock[h] = "none" /\ outcome[h] = "none"
        /\ ~aged[h] /\ ~ran[h] /\ ~quiet[h] /\ ~early[h] /\ start[h] = NoStart
    BY DEF Init
  <2>2. start[h].pc = "idle" /\ ~start[h].exited /\ start[h].said = "none"
    BY <2>1 DEF NoStart
  <2>3. LockOf(h)
    BY <2>1 DEF LockOf, Holding, Registered
  <2>4. RecordOf(h)
    BY <2>1 DEF RecordOf, Registered, TERMINAL_RUN_STATES
  <2>5. AgedOf(h) /\ PlantOf(h)
    BY <2>1 DEF AgedOf, PlantOf
  <2>6. StartOf(h)
    BY <2>1, <2>2 DEF StartOf
  <2> QED BY <2>3, <2>4, <2>5, <2>6 DEF RunOf
<1>4. OfPrunes
  <2>1. \A a \in Pruners : job[a] = NoJob
    BY DEF Init
  <2>2. \A a \in Pruners : JobOf(a)
    BY <2>1 DEF JobOf, NoJob, Countable
  <2>3. ProbesFree
    BY DEF Init, ProbesFree, Countable
  <2> QED BY <2>2, <2>3 DEF OfPrunes
<1>5. OfReaders
  <2>1. \A r \in Readers : call[r] = NoCall
    BY DEF Init
  <2> QED BY <2>1 DEF OfReaders, CallOf, NoCall
<1> QED BY <1>1, <1>2, <1>3, <1>4, <1>5 DEF IInv, OfRuns

LEMMA StutterKeeps == IInv /\ UNCHANGED vars => IInv'
<1> SUFFICES ASSUME IInv, UNCHANGED vars PROVE IInv'
  OBVIOUS
<1>1. UNCHANGED <<setting, rec, order, stop, aged, worker, lock, outcome, ran, quiet, start, early, job, call, probing>>
  BY DEF vars, runVars
<1>2. Typed' /\ Listing' /\ ProbesFree'
  BY <1>1 DEF IInv, OfPrunes, Typed, Listing, ProbesFree
<1>3. OfRuns'
  <2>1. \A h \in Handles : Same(h)
    BY <1>1 DEF Same
  <2> QED BY <1>1, <2>1, SameRun DEF IInv, OfRuns
<1>4. \A a \in Pruners : JobOf(a)'
  BY <1>1 DEF IInv, OfPrunes, JobOf
<1>5. OfReaders'
  BY <1>1 DEF IInv, OfReaders, CallOf
<1> QED BY <1>2, <1>3, <1>4, <1>5 DEF IInv, OfPrunes

LEMMA WorkerStepKeeps ==
    ASSUME Countable, IInv, NEW h \in Handles, WorkerStep(h)
    PROVE  IInv'
BY TakeKeeps, FirstRecordKeeps, RegisterDoneKeeps, RunningKeeps, NextStepKeeps, StepEndsKeeps,
   FinishKeeps, ExitKeeps DEF WorkerStep

LEMMA StartStepKeeps ==
    ASSUME Countable, IInv, NEW h \in Handles, StartStep(h)
    PROVE  IInv'
BY StartRunKeeps, StartLookKeeps, StartAnswersKeeps, StartLoopsKeeps, StartFailsKeeps,
   StartGivesUpKeeps, StartEndsKeeps DEF StartStep

LEMMA PruneStepKeeps ==
    ASSUME Countable, Punctual, IInv, NEW a \in Pruners, PruneStep(a)
    PROVE  IInv'
BY PruneLookKeeps, PruneProbedKeeps, PruneUnlinkKeeps, SweepListKeeps DEF PruneStep

LEMMA ReaderStepKeeps ==
    ASSUME Countable, IInv, NEW r \in Readers, ReaderStep(r)
    PROVE  IInv'
BY AskKeeps, ProbeKeeps, GoneKeeps, AgainKeeps, LivesKeeps DEF ReaderStep

LEMMA NextKeeps == Countable /\ Punctual /\ IInv /\ [Next]_vars => IInv'
<1> SUFFICES ASSUME Countable, Punctual, IInv, Next PROVE IInv'
  BY StutterKeeps
<1>1. CASE \E h \in Handles : RunPlan(h) \/ WorkerStep(h) \/ WaitPoll(h) \/ Devices(h)
  BY <1>1, RunPlanKeeps, WorkerStepKeeps, WaitPollKeeps, DevicesKeeps
<1>2. CASE \E h \in Handles : Tick(h) \/ Kill(h) \/ Age(h) \/ StartStep(h)
  BY <1>2, TickKeeps, KillKeeps, AgeKeeps, StartStepKeeps
<1>3. CASE \E a \in Pruners : PruneStep(a)
  BY <1>3, PruneStepKeeps
<1>4. CASE \E r \in Readers : ReaderStep(r)
  BY <1>4, ReaderStepKeeps
<1> QED BY <1>1, <1>2, <1>3, <1>4 DEF Next

\* The invariant holds in every state, for any runs, starts, prunes and readers.
THEOREM AlwaysIInv == Countable /\ Punctual => (Spec => []IInv)
<1> SUFFICES ASSUME Countable, Punctual PROVE Spec => []IInv
  OBVIOUS
<1>1. Init => IInv
  BY InitHolds
<1>2. IInv /\ [Next]_vars => IInv'
  BY NextKeeps
<1> QED BY <1>1, <1>2, PTL DEF Spec

\* Every variable has its type, the listing's length included: no run is listed twice.
THEOREM TypesHold == Countable /\ Punctual => (Spec => []TypeOK)
<1> SUFFICES ASSUME Countable, Punctual PROVE Spec => []TypeOK
  OBVIOUS
<1>1. IInv => TypeOK
  <2> SUFFICES ASSUME IInv PROVE TypeOK
    OBVIOUS
  <2>1. Len(order) <= Cardinality(Handles)
    <3>1. order \in Seq(Handles) /\ IsInjective(order)
      BY DEF IInv, Typed, Listing
    <3>2. order \in Injection(1..Len(order), Handles)
      BY <3>1 DEF Injection
    <3>3. Cardinality(1..Len(order)) <= Cardinality(Handles)
      BY <3>2, FS_Injection DEF Countable
    <3>4. Cardinality(1..Len(order)) = Len(order)
      <4>1. PICK n \in Nat : n = Len(order)
        BY <3>1
      <4>2. Cardinality(1..n) = n
        <5>1. Cardinality(1..n) = IF 1 > n THEN 0 ELSE n - 1 + 1
          BY FS_Interval
        <5> QED BY <5>1
      <4> QED BY <4>1, <4>2
    <3> QED BY <3>3, <3>4
  <2> QED BY <2>1 DEF IInv, Typed, TypeOK, Starts, PruneJobs, Calls
<1> QED BY <1>1, AlwaysIInv, PTL

\* What is read of a run's end is true, and what ended in order is read: a status calls
\* a worker gone only if it went without a terminal record, and a run that ended says how.
THEOREM RecordIsHonest == Countable /\ Punctual => (Spec => []RecordHonest)
<1> SUFFICES ASSUME Countable, Punctual PROVE Spec => []RecordHonest
  OBVIOUS
<1>1. IInv => RecordHonest
  BY DEF IInv, OfReaders, CallOf, OfRuns, RunOf, RecordOf, RecordHonest, GoneHonest, EndRecorded
<1> QED BY <1>1, AlwaysIInv, PTL

\* A start that gave up, or says its worker failed, leaves no plan running behind the
\* caller it told so.
THEOREM StartTakesItBack == Countable /\ Punctual => (Spec => []StartTakesBack)
<1> SUFFICES ASSUME Countable, Punctual PROVE Spec => []StartTakesBack
  OBVIOUS
<1>1. IInv => StartTakesBack
  <2> SUFFICES ASSUME IInv PROVE StartTakesBack
    OBVIOUS
  <2>1. NoStepAfterPlant
    BY DEF IInv, OfRuns, RunOf, PlantOf, NoStepAfterPlant
  <2>2. StartHonest
    BY DEF IInv, OfRuns, RunOf, StartOf, RecordOf, Absent, StartHonest
  <2> QED BY <2>1, <2>2 DEF StartTakesBack
<1> QED BY <1>1, AlwaysIInv, PTL

\* What a step may not do to the files of a run.
FilesKept(h) ==
    /\ rec'[h] = "removed" => rec[h] = "removed"
    /\ stop[h] => stop'[h]
    /\ lock'[h] # "unlinked"

\* A step that leaves the record, the stop and the lock alone.
LEMMA FilesUntouched ==
    ASSUME NEW h \in Handles, lock[h] = "path", UNCHANGED <<rec, stop, lock>>
    PROVE  FilesKept(h)
BY DEF FilesKept

\* A worker takes or gives back its own lock, and never writes "removed".
LEMMA WorkerKeepsFiles ==
    ASSUME IInv, NEW h \in Handles, lock[h] = "path", NEW g \in Handles, WorkerStep(g) \/ Kill(g)
    PROVE  FilesKept(h)
<1>1. Typed /\ RunOf(g)
  BY DEF IInv, OfRuns
<1>2. UNCHANGED stop
  BY DEF WorkerStep, Take, FirstRecord, RegisterDone, Running, NextStep, StepEnds, Finish, Exit, Kill
<1>3. UNCHANGED lock \/ \E to \in {"path", "none"} : lock' = [lock EXCEPT ![g] = to]
  <2>1. CASE Finish(g)
    <3>1. lock' = [lock EXCEPT ![g] = IF worker'[g] = "unrecorded" THEN "none" ELSE lock[g]]
      BY <2>1 DEF Finish
    <3>2. lock[g] = "path"
      BY <1>1, <2>1 DEF Finish, RunOf, LockOf, Holding, Registered
    <3> QED BY <3>1, <3>2
  <2>2. CASE ~Finish(g)
    BY <2>2 DEF WorkerStep, Take, FirstRecord, RegisterDone, Running, NextStep, StepEnds, Exit, Kill
  <2> QED BY <2>1, <2>2
<1>4. lock'[h] # "unlinked"
  BY <1>1, <1>3 DEF Typed
<1>5. \/ UNCHANGED rec
      \/ \E state \in {"starting", "running"} \cup TERMINAL_RUN_STATES : rec' = [rec EXCEPT ![g] = state]
  <2>1. CASE Finish(g)
    <3>1. outcome[g] \in TERMINAL_RUN_STATES
      BY <1>1, <2>1 DEF Finish, RunOf, RecordOf
    <3> QED BY <2>1, <3>1 DEF Finish, Publish
  <2>2. CASE Exit(g)
    BY <1>1, <2>2 DEF Exit, RecordAtExit, Typed
  <2>3. CASE NextStep(g)
    BY <2>3 DEF NextStep, Progress, Publish
  <2>4. CASE ~Finish(g) /\ ~Exit(g) /\ ~NextStep(g)
    BY <2>4 DEF WorkerStep, Take, FirstRecord, RegisterDone, Running, StepEnds, Kill, Progress, Publish
  <2> QED BY <2>1, <2>2, <2>3, <2>4
<1>6. rec'[h] = "removed" => rec[h] = "removed"
  BY <1>1, <1>5 DEF Typed, TERMINAL_RUN_STATES
<1> QED BY <1>2, <1>4, <1>6 DEF FilesKept

\* A start or a reader at most asks for a stop.
LEMMA OthersKeepFiles ==
    ASSUME IInv, NEW h \in Handles, lock[h] = "path",
           \/ \E g \in Handles : RunPlan(g) \/ WaitPoll(g) \/ Devices(g) \/ Tick(g) \/ Age(g) \/ StartStep(g)
           \/ \E r \in Readers : ReaderStep(r)
    PROVE  FilesKept(h)
<1>1. stop \in [Handles -> BOOLEAN]
  BY DEF IInv, Typed
<1>2. CASE \E g \in Handles : RunPlan(g) \/ WaitPoll(g) \/ Devices(g) \/ Tick(g) \/ Age(g)
  BY <1>2, FilesUntouched DEF RunPlan, WaitPoll, Devices, Tick, Age
<1>3. ASSUME NEW g \in Handles, StartStep(g) PROVE FilesKept(h)
  <2>1. CASE StartGivesUp(g)
    <3>1. UNCHANGED <<rec, lock>> /\ (UNCHANGED stop \/ stop' = [stop EXCEPT ![g] = TRUE])
      BY <2>1 DEF StartGivesUp
    <3> QED BY <1>1, <3>1 DEF FilesKept
  <2>2. CASE ~StartGivesUp(g)
    BY <1>3, <2>2, FilesUntouched
       DEF StartStep, StartRun, StartLook, StartAnswers, StartLoops, StartFails, StartEnds
  <2> QED BY <2>1, <2>2
<1>4. ASSUME NEW r \in Readers, ReaderStep(r) PROVE FilesKept(h)
  <2>1. CASE Lives(r)
    <3>1. UNCHANGED <<rec, lock>> /\ (UNCHANGED stop \/ stop' = [stop EXCEPT ![call[r].at] = TRUE])
      BY <2>1 DEF Lives
    <3> QED BY <1>1, <3>1 DEF FilesKept
  <2>2. CASE ~Lives(r)
    BY <1>4, <2>2, FilesUntouched DEF ReaderStep, Ask, Probe, Gone, Again
  <2> QED BY <2>1, <2>2
<1> QED BY <1>2, <1>3, <1>4

\* A prune removes the files of a run that has ended, and of no other.
LEMMA PruneKeepsFiles ==
    ASSUME Countable, IInv, NEW h \in Handles, lock[h] = "path", worker[h] \notin Ended,
           NEW a \in Pruners, PruneStep(a)
    PROVE  FilesKept(h)
<1>1. CASE PruneUnlink(a)
  <2>1. Typed /\ JobOf(a)
    BY DEF IInv, OfPrunes
  <2>2. PICK g \in Handles : g = job[a].at
    BY <1>1, <2>1 DEF PruneUnlink, Typed, PruneJobs
  <2>3. g # h
    BY <2>1, <2>2 DEF JobOf
  <2>4. \E removed \in {"removed", rec[g]} : Unlink(g, removed)
    BY <1>1, <2>2 DEF PruneUnlink
  <2>5. rec'[h] = rec[h] /\ stop'[h] = stop[h] /\ lock'[h] = lock[h]
    BY <2>1, <2>3, <2>4 DEF Unlink, Typed
  <2> QED BY <2>5 DEF FilesKept
<1>2. CASE ~PruneUnlink(a)
  BY <1>2, FilesUntouched DEF PruneStep, PruneLook, PruneProbed, SweepList
<1> QED BY <1>1, <1>2

\* No prune takes the record, the stop request or the lock of a run that has not
\* published its end.
THEOREM LiveRunIsKept == Countable /\ Punctual => (Spec => LiveRunKept)
<1> SUFFICES ASSUME Countable, Punctual PROVE Spec => LiveRunKept
  OBVIOUS
<1> DEFINE Kept1 == \A h \in Handles : worker[h] \in (Registered \cup {"locked"}) \ {"published"} => FilesKept(h)
<1>1. IInv /\ [Next]_vars => [Kept1]_vars
  <2> SUFFICES ASSUME IInv, Next, NEW h \in Handles,
                      worker[h] \in (Registered \cup {"locked"}) \ {"published"}
               PROVE  FilesKept(h)
    OBVIOUS
  <2>1. RunOf(h)
    BY DEF IInv, OfRuns
  <2>2. lock[h] = "path" /\ worker[h] \notin Ended
    BY <2>1 DEF RunOf, LockOf, Holding, Registered, Ended, Over, Lost
  <2>3. CASE \E g \in Handles : WorkerStep(g) \/ Kill(g)
    BY <2>2, <2>3, WorkerKeepsFiles
  <2>4. CASE \/ \E g \in Handles : RunPlan(g) \/ WaitPoll(g) \/ Devices(g) \/ Tick(g) \/ Age(g) \/ StartStep(g)
             \/ \E r \in Readers : ReaderStep(r)
    BY <2>2, <2>4, OthersKeepFiles
  <2>5. CASE \E a \in Pruners : PruneStep(a)
    BY <2>2, <2>5, PruneKeepsFiles
  <2> QED BY <2>3, <2>4, <2>5 DEF Next
<1>2. LiveRunKept <=> [][Kept1]_vars
  BY PTL DEF LiveRunKept, FilesKept
<1> QED BY <1>1, <1>2, AlwaysIInv, PTL DEF Spec
=============================================================================
