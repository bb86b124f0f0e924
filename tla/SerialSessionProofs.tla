------------------------ MODULE SerialSessionProofs ------------------------
(* What TLAPS proves of SerialSession, for any bounds: the log tells the      *)
(* order on the line and is whole when its session closed well, and a port    *)
(* given back has nobody left on it.                                          *)
EXTENDS SerialSession, SequenceTheorems, TLAPS

\* What the proofs ask of the bounds.
Bounds == {MaxChunks, MaxWrites, MaxSessions, MaxFaults} \subseteq Nat

-----------------------------------------------------------------------------
(* The inductive invariant.                                                 *)

Entries == [kind : {"start", "rx", "tx", "error", "stop"}, n : Nat]

Typed ==
    /\ TypeOK
    /\ log \in Seq(Entries)
    /\ received \in Seq(Nat) /\ batch \in Seq(Nat)
    /\ line \in Seq(Nat) /\ arrived \in Seq(Nat)

\* Who holds the audit lock, and with it what is taken and not yet logged.
AuditOf ==
    /\ audit = "caller" <=> caller \in {"flush", "send", "record", "error"}
    /\ audit = "reader" <=> reader \in {"write", "final"}
    /\ batch # <<>> => caller = "flush" \/ reader \in {"write", "final"}

\* The log writer outlives the drain, and leaves nothing behind it.
ThreadsOf ==
    /\ reader \in {"off", "last", "final", "error"} => drain = "off"
    /\ reader \in {"off", "error", "final"} => received = <<>> \/ session["broken"]
    /\ reader = "leaving" => session["broken"]
    /\ caller \in {"opened", "clear", "start"} => reader = "off"

\* A stop closes the port before it says so; a session that is closed is over.
StopOf ==
    /\ caller = "joining" /\ session["open"] => failed
    /\ caller = "bye" => (session["closed"] <=> ~failed)
    /\ caller \in {"stopping", "joining", "bye"} => ~session["active"]
    /\ caller \in {"stopping", "joining"} => ~session["closed"]
    /\ caller \in {"opened", "clear", "start"} => ~session["closed"]
    /\ caller \in {"write", "flush", "send", "record", "error", "unrecorded"} => ~session["closed"]
    /\ caller \in {"stopped", "release"} => session["closed"]
    /\ session["closed"] => ~session["open"] /\ ~session["active"] /\ reader = "off"

\* A lease that went back, or into the incident, leaves nothing to stop.
LeaseOf ==
    lease \in {"none", "handed"} =>
        /\ caller = "idle" /\ reader = "off" /\ ~session["open"] /\ ~session["registered"]

\* The chunks that are on the log, or were lost to it.
Handed == Len(arrived) - Len(received) - Len(batch)

\* What is drained is taken in order, and a write is after what it saw.
QueueOf ==
    /\ Handed \in Nat
    /\ \A i \in 1..Len(batch) : batch[i] = Handed + i
    /\ \A i \in 1..Len(received) : received[i] = Handed + Len(batch) + i
    /\ \A i \in 1..Len(line) : line[i] <= sent
    /\ \A c \in 1..Len(arrived) : arrived[c] <= sent

WriteOf ==
    /\ caller \in {"write", "flush", "send"} => sent < MaxWrites
    /\ caller = "flush" => before[sent + 1] <= Handed + Len(batch)
    /\ caller = "send" => before[sent + 1] <= Handed
    /\ caller \in {"record", "error"} =>
          /\ sent > 0 /\ before[sent] <= Handed
          /\ \A i \in 1..Len(log) : log[i].kind = "rx" => arrived[log[i].n] < sent

\* The log, entry by entry and pair by pair.
EntryOf(i) ==
    /\ log[i].kind = "rx" => log[i].n \in 1..Handed
    /\ log[i].kind = "tx" => log[i].n \in 1..sent /\ before[log[i].n] <= Handed

PairOf(i, j) ==
    /\ log[i].kind = "rx" /\ log[j].kind = "rx" => log[i].n < log[j].n
    /\ log[i].kind = "tx" /\ log[j].kind = "rx" => before[log[i].n] < log[j].n
    /\ log[i].kind = "rx" /\ log[j].kind = "tx" => arrived[log[i].n] < log[j].n

LogOf ==
    /\ \A i \in 1..Len(log) : EntryOf(i)
    /\ \A i, j \in 1..Len(log) : i < j => PairOf(i, j)

\* Nothing is missing unless the session knows, or its log writer is about to
\* tell it.
WholeOf ==
    ~session["broken"] /\ reader # "broken" =>
        \A c \in 1..Handed : \E i \in 1..Len(log) : log[i] = Entry("rx", c)

\* The stop entry is the last.
LastOf ==
    session["closed"] /\ ~session["broken"] /\ caller # "bye" =>
        Len(log) > 0 /\ log[Len(log)].kind = "stop"

IInv ==
    /\ Typed /\ AuditOf /\ ThreadsOf /\ StopOf /\ LeaseOf
    /\ QueueOf /\ WriteOf /\ LogOf /\ WholeOf /\ LastOf

-----------------------------------------------------------------------------
(* The session's flags and its lease.                                       *)

\* One flag is set, and the others stay.
LEMMA FlagIs ==
    ASSUME session \in [Flags -> BOOLEAN], NEW f \in Flags, NEW v \in BOOLEAN,
           session' = [session EXCEPT ![f] = v]
    PROVE  /\ session' \in [Flags -> BOOLEAN] /\ session'[f] = v
           /\ \A g \in Flags \ {f} : session'[g] = session[g]
OBVIOUS

\* A broken audit: the session is neither closed nor reopened by it.
LEMMA BreakIs ==
    ASSUME session \in [Flags -> BOOLEAN], NEW also, also \cap {"closed", "open", "registered"} = {},
           Break(also)
    PROVE  /\ session' \in [Flags -> BOOLEAN] /\ session'["broken"] = TRUE
           /\ session'["closed"] = session["closed"] /\ session'["open"] = session["open"]
           /\ session'["registered"] = session["registered"]
           /\ session'["active"] => session["active"]
           /\ "active" \in also => session'["active"] = FALSE
BY DEF Break, Flags

LEMMA QuarantineIs ==
    ASSUME Typed, NEW broken \in BOOLEAN, Quarantine(broken)
    PROVE  /\ lease' \in Leases /\ halt' \in BOOLEAN
           /\ lease' \in {"none", "handed"} => lease \in {"none", "handed"}
BY DEF Quarantine, stand, Typed, TypeOK, Leases

LEMMA HandOverIs ==
    ASSUME session \in [Flags -> BOOLEAN], HandOver
    PROVE  /\ session' \in [Flags -> BOOLEAN] /\ session'["broken"] = TRUE /\ session'["registered"] = FALSE
           /\ session'["closed"] = session["closed"] /\ session'["open"] = session["open"]
           /\ session'["active"] = session["active"]
           /\ lease' = "handed" /\ halt' = TRUE /\ "handed" \in Leases
BY DEF HandOver, Gone, Flags, Leases

LEMMA FaultIs ==
    ASSUME Bounds, Typed, Fault \/ Sound
    PROVE  faults' \in 0..MaxFaults
BY DEF Bounds, Typed, TypeOK, Fault, Sound

LEMMA BeforeIs ==
    ASSUME Bounds, Typed
    PROVE  /\ sent \in Nat /\ MaxWrites \in Nat /\ MaxChunks \in Nat /\ sent <= MaxWrites
           /\ before \in [1..MaxWrites -> 0..MaxChunks]
           /\ \A w \in 1..sent : w \in 1..MaxWrites /\ before[w] \in Nat
<1>1. /\ sent \in Nat /\ MaxWrites \in Nat /\ MaxChunks \in Nat /\ sent <= MaxWrites
      /\ before \in [1..MaxWrites -> 0..MaxChunks]
  BY DEF Bounds, Typed, TypeOK
<1> QED BY <1>1

-----------------------------------------------------------------------------
(* What a step does to the log and the queue.                               *)

Data == <<received, batch, line, arrived, before, sent, log>>

Lossy == session["broken"] \/ reader = "broken"

\* A call at the log stays where it is, or has just begun to write.
Stays ==
    caller' \in {"write", "flush", "send", "record", "error"} =>
        caller' = caller \/ (caller' = "write" /\ sent < MaxWrites)

LEMMA DataFrame ==
    ASSUME IInv, UNCHANGED Data, Stays, Lossy => Lossy'
    PROVE  QueueOf' /\ WriteOf' /\ LogOf' /\ WholeOf'
<1>1. Handed' = Handed
  BY DEF Data, Handed
<1>2. QueueOf'
  BY <1>1 DEF IInv, Data, QueueOf
<1>3. WriteOf'
  BY <1>1 DEF IInv, Data, WriteOf, Stays
<1>4. LogOf'
  BY <1>1 DEF IInv, Data, LogOf, EntryOf, PairOf
<1>5. WholeOf'
  BY <1>1 DEF IInv, Data, WholeOf, Lossy
<1> QED BY <1>2, <1>3, <1>4, <1>5

\* An entry that is no chunk is added.
LEMMA LogOne ==
    ASSUME IInv, UNCHANGED <<received, batch, line, arrived, before, sent>>, Stays, Lossy => Lossy',
           NEW e \in Entries, log' = Append(log, e), e.kind # "rx",
           caller' \notin {"record", "error"},
           e.kind = "tx" => caller \in {"record", "error"} /\ e.n = sent
    PROVE  QueueOf' /\ WriteOf' /\ LogOf' /\ WholeOf' /\ log' \in Seq(Entries)
           /\ Len(log') = Len(log) + 1 /\ log'[Len(log')] = e
<1>1. Handed' = Handed
  BY DEF Handed
<1>2. QueueOf'
  BY <1>1 DEF IInv, QueueOf
<1>3. PICK m \in Nat : m = Len(log)
  BY DEF IInv, Typed
<1>4. log' \in Seq(Entries) /\ Len(log') = m + 1 /\ log'[m + 1] = e /\ \A i \in 1..m : log'[i] = log[i]
  BY <1>3, AppendProperties DEF IInv, Typed
<1>5. WriteOf'
  BY <1>1 DEF IInv, WriteOf, Stays
<1>6. e.kind = "tx" => /\ e.n \in 1..sent /\ before[e.n] <= Handed
                       /\ \A i \in 1..m : log[i].kind = "rx" => arrived[log[i].n] < e.n
  BY <1>3 DEF IInv, WriteOf, Typed, TypeOK
<1>7. LogOf'
  <2>1. ASSUME NEW i \in 1..(m + 1) PROVE EntryOf(i)'
    <3>1. CASE i \in 1..m
      BY <1>1, <1>3, <1>4, <3>1 DEF IInv, LogOf, EntryOf
    <3>2. CASE i = m + 1
      BY <1>1, <1>4, <1>6, <3>2 DEF EntryOf
    <3> QED BY <3>1, <3>2
  <2>2. ASSUME NEW i \in 1..(m + 1), NEW j \in 1..(m + 1), i < j PROVE PairOf(i, j)'
    <3>1. CASE j \in 1..m
      BY <1>3, <1>4, <2>2, <3>1 DEF IInv, LogOf, PairOf
    <3>2. CASE j = m + 1
      BY <1>3, <1>4, <1>6, <2>2, <3>2 DEF PairOf
    <3> QED BY <3>1, <3>2
  <2> QED BY <1>4, <2>1, <2>2 DEF LogOf
<1>8. WholeOf'
  BY <1>1, <1>3, <1>4 DEF IInv, WholeOf, Lossy
<1> QED BY <1>2, <1>3, <1>4, <1>5, <1>7, <1>8

\* What is taken goes to the log.
LEMMA LogBatch ==
    ASSUME Bounds, IInv, UNCHANGED <<received, line, arrived, before, sent>>, batch' = <<>>, LoggedBatch,
           caller \notin {"record", "error", "send"}, Lossy => Lossy',
           caller' = caller \/ (caller = "flush" /\ caller' = "send")
    PROVE  QueueOf' /\ WriteOf' /\ LogOf' /\ WholeOf' /\ log' \in Seq(Entries) /\ batch' \in Seq(Nat)
<1>1. PICK m \in Nat : m = Len(log)
  BY DEF IInv, Typed
<1>2. PICK k \in Nat : k = Len(batch)
  BY DEF IInv, Typed
<1>3. PICK p \in Nat : p = Handed
  BY DEF IInv, QueueOf
<1>4. Handed' = p + k /\ p + k \in Nat
  BY <1>2, <1>3 DEF Handed, IInv, Typed
<1>5. PICK s : s = [i \in DOMAIN batch |-> Entry("rx", batch[i])]
  OBVIOUS
<1>6. s \in Seq(Entries) /\ Len(s) = k /\ \A i \in 1..k : s[i].kind = "rx" /\ s[i].n = p + i /\ s[i] = Entry("rx", p + i)
  <2>1. DOMAIN batch = 1..k
    BY <1>2 DEF IInv, Typed
  <2>2. \A i \in 1..k : batch[i] = p + i /\ batch[i] \in Nat
    BY <1>2, <1>3 DEF IInv, QueueOf, Typed
  <2>3. \A i \in 1..k : s[i] = Entry("rx", p + i)
    BY <1>5, <2>1, <2>2
  <2>4. \A i \in 1..k : Entry("rx", p + i) \in Entries
    BY DEF Entry, Entries
  <2>5. s \in [1..k -> Entries]
    BY <1>5, <2>1, <2>3, <2>4
  <2>6. s \in Seq(Entries) /\ Len(s) = k
    BY <2>5
  <2> QED BY <2>3, <2>6 DEF Entry
<1>7. /\ log' \in Seq(Entries) /\ Len(log') = m + k
      /\ \A i \in 1..m : log'[i] = log[i]
      /\ \A i \in 1 .. (m + k) : log'[i] = IF i <= m THEN log[i] ELSE s[i - m]
  <2>1. log' = log \o s /\ log \in Seq(Entries)
    BY <1>5 DEF LoggedBatch, IInv, Typed
  <2>2. /\ (log \o s) \in Seq(Entries) /\ Len(log \o s) = Len(log) + Len(s)
        /\ \A i \in 1 .. Len(log) + Len(s) : (log \o s)[i] = IF i <= Len(log) THEN log[i] ELSE s[i - Len(log)]
    BY <1>6, <2>1, ConcatProperties
  <2>3. \A i \in 1 .. (m + k) : log'[i] = IF i <= m THEN log[i] ELSE s[i - m]
    BY <1>1, <1>6, <2>1, <2>2
  <2>5. \A i \in 1..m : i \in 1..(m + k) /\ i <= m
    OBVIOUS
  <2> QED BY <1>1, <1>6, <2>1, <2>2, <2>3, <2>5
<1>8. \A i \in 1..(m + k) :
         \/ i \in 1..m /\ log'[i] = log[i]
         \/ i > m /\ log'[i].kind = "rx" /\ log'[i].n = p + (i - m)
  <2>1. ASSUME NEW i \in 1..(m + k), i > m PROVE log'[i].kind = "rx" /\ log'[i].n = p + (i - m)
    <3>1. PICK q : q = i - m
      OBVIOUS
    <3>2. q \in 1..k /\ m + q = i
      BY <2>1, <3>1
    <3>3. log'[i] = s[q]
      BY <1>7, <2>1, <3>1
    <3>4. s[q].kind = "rx" /\ s[q].n = p + q
      BY <1>6, <3>2
    <3> QED BY <3>1, <3>3, <3>4
  <2> QED BY <1>7, <2>1
<1>9. QueueOf'
  BY <1>2, <1>3, <1>4 DEF IInv, QueueOf, Typed
<1>10. WriteOf'
  BY <1>2, <1>3, <1>4 DEF IInv, WriteOf, Typed, TypeOK
<1>11. LogOf'
  <2>1. ASSUME NEW i \in 1..(m + k) PROVE EntryOf(i)'
    <3>1. CASE i > m
      <4>1. log'[i].kind = "rx" /\ log'[i].n = p + (i - m)
        BY <1>8, <3>1
      <4> QED BY <1>4, <3>1, <4>1 DEF EntryOf
    <3>2. CASE i \in 1..m
      <4>1. log'[i] = log[i] /\ EntryOf(i)
        BY <1>1, <1>7, <3>2 DEF IInv, LogOf
      <4>2. log[i].kind = "tx" => before[log[i].n] \in Nat
        BY <4>1, BeforeIs DEF EntryOf, IInv
      <4> QED BY <1>3, <1>4, <4>1, <4>2 DEF EntryOf
    <3> QED BY <3>1, <3>2
  <2>2. ASSUME NEW i \in 1..(m + k), NEW j \in 1..(m + k), i < j PROVE PairOf(i, j)'
    <3>1. CASE j \in 1..m
      BY <1>1, <1>7, <2>2, <3>1 DEF IInv, LogOf, PairOf
    <3>2. CASE i > m
      BY <1>8, <2>2, <3>2 DEF PairOf
    <3>3. CASE i \in 1..m /\ j > m
      <4>0. log'[i] = log[i] /\ EntryOf(i)
        BY <1>1, <1>7, <3>3 DEF IInv, LogOf
      <4>1. log'[i] = log[i] /\ EntryOf(i) /\ log'[j].kind = "rx" /\ log'[j].n = p + (j - m)
        BY <1>8, <3>3, <4>0
      <4>2. log[i].kind = "tx" => before[log[i].n] \in Nat /\ before[log[i].n] <= p
        BY <1>3, <4>1, BeforeIs DEF EntryOf, IInv
      <4> QED BY <1>3, <3>3, <4>1, <4>2 DEF EntryOf, PairOf
    <3> QED BY <3>1, <3>2, <3>3
  <2> QED BY <1>7, <2>1, <2>2 DEF LogOf
<1>12. WholeOf'
  <2> SUFFICES ASSUME ~Lossy', NEW c \in 1..(p + k) PROVE \E i \in 1..(m + k) : log'[i] = Entry("rx", c)
    BY <1>4, <1>7 DEF WholeOf, Lossy
  <2>1. CASE c <= p
    BY <1>1, <1>3, <1>7, <2>1 DEF IInv, WholeOf, Lossy
  <2>2. CASE c > p
    <3>1. PICK q : q = c - p
      OBVIOUS
    <3>2. q \in 1..k /\ p + q = c /\ m + q \in 1..(m + k)
      BY <2>2, <3>1
    <3>3. PICK i \in 1..(m + k) : i = m + q
      BY <3>2
    <3>4. log'[i] = s[q]
      <4>1. ~(i <= m) /\ i - m = q
        BY <3>2, <3>3
      <4> QED BY <1>7, <4>1
    <3>5. s[q] = Entry("rx", p + q)
      BY <1>6, <3>2
    <3> QED BY <3>2, <3>4, <3>5
  <2> QED BY <2>1, <2>2
<1> QED BY <1>7, <1>9, <1>10, <1>11, <1>12

\* What was drained is taken, in front of an empty batch.
LEMMA TakeAll ==
    ASSUME Bounds, IInv, UNCHANGED <<line, arrived, sent, log>>, batch = <<>>, batch' = received, received' = <<>>,
           Lossy => Lossy',
           \/ UNCHANGED <<before, caller>>
           \/ /\ caller = "write" /\ caller' \in {"flush", "send"} /\ (caller' = "send" => received = <<>>)
              /\ before' = [before EXCEPT ![sent + 1] = Len(arrived)]
    PROVE  QueueOf' /\ WriteOf' /\ LogOf' /\ WholeOf'
<1>1. PICK k \in Nat : k = Len(received)
  BY DEF IInv, Typed
<1>2. Len(batch) = 0 /\ Len(batch') = k /\ Len(received') = 0 /\ Len(arrived) \in Nat
  BY <1>1 DEF IInv, Typed
<1>3. Handed' = Handed /\ Handed + k = Len(arrived) /\ Handed \in Nat
  BY <1>1, <1>2 DEF Handed, IInv, QueueOf
<1>4. QueueOf'
  BY <1>1, <1>2, <1>3 DEF IInv, QueueOf
<1>5. \A w \in 1..sent : before'[w] = before[w]
  <2>1. CASE UNCHANGED before
    BY <2>1
  <2>2. CASE before' = [before EXCEPT ![sent + 1] = Len(arrived)]
    <3>1. \A w \in 1..sent : w \in 1..MaxWrites /\ w # sent + 1
      BY BeforeIs DEF IInv
    <3> QED BY <2>2, <3>1, BeforeIs DEF IInv
  <2> QED BY <2>1, <2>2
<1>6. LogOf'
  BY <1>3, <1>5 DEF IInv, LogOf, EntryOf, PairOf
<1>7. WriteOf'
  <2>1. CASE UNCHANGED <<before, caller>>
    <3>1. caller = "flush" => before[sent + 1] <= Handed + k
      <4>1. caller = "flush" => before[sent + 1] <= Handed /\ before[sent + 1] \in Nat
        <5>1. caller = "flush" => sent + 1 \in 1..MaxWrites
          BY BeforeIs DEF IInv, WriteOf
        <5> QED BY <1>2, <1>3, <5>1, BeforeIs DEF IInv, WriteOf
      <4> QED BY <1>3, <4>1
    <3> QED BY <1>2, <1>3, <2>1, <3>1 DEF IInv, WriteOf
  <2>2. CASE caller = "write" /\ before' = [before EXCEPT ![sent + 1] = Len(arrived)]
    <3>0. sent + 1 \in 1..MaxWrites
      BY <2>2, BeforeIs DEF IInv, WriteOf
    <3>1. before'[sent + 1] = Len(arrived)
      BY <2>2, <3>0, BeforeIs DEF IInv
    <3> QED BY <1>1, <1>2, <1>3, <2>2, <3>1 DEF IInv, WriteOf
  <2> QED BY <2>1, <2>2
<1>8. WholeOf'
  BY <1>3 DEF IInv, WholeOf, Lossy
<1> QED BY <1>4, <1>6, <1>7, <1>8

-----------------------------------------------------------------------------
(* Steps that leave the log and the queue alone.                            *)

ControlTyped ==
    /\ session \in [Flags -> BOOLEAN] /\ lease \in Leases /\ halt \in BOOLEAN
    /\ caller \in Stages /\ failed \in BOOLEAN
    /\ why \in {"requested", "replaced", "audit_failed", "clear_failed"}
    /\ drain \in {"off", "loop", "read"}
    /\ reader \in {"off", "loop", "wait", "take", "write", "broken", "leaving", "last", "final", "error"}
    /\ audit \in {"free", "caller", "reader"} /\ ready \in BOOLEAN

Control == AuditOf /\ ThreadsOf /\ StopOf /\ LeaseOf /\ LastOf

LEMMA Quiet ==
    ASSUME Bounds, IInv, UNCHANGED <<Data, opened>>, Fault \/ Sound, Stays, Lossy => Lossy',
           ControlTyped', Control'
    PROVE  IInv'
<1>1. Typed'
  BY FaultIs DEF IInv, Typed, TypeOK, Data, ControlTyped
<1>2. QueueOf' /\ WriteOf' /\ LogOf' /\ WholeOf'
  BY DataFrame DEF Data
<1> QED BY <1>1, <1>2 DEF IInv, Control

LEMMA OthersHaltKeeps == ASSUME Bounds, IInv, OthersHalt PROVE IInv'
<1>1. ControlTyped'
  BY DEF OthersHalt, IInv, Typed, TypeOK, ControlTyped, Stages, stand, stopping, queue, wire, writes, Data, Going
<1>2. Control'
  BY DEF OthersHalt, IInv, Control, AuditOf, ThreadsOf, StopOf, LeaseOf, LastOf, Typed, TypeOK, stand, stopping, queue, wire, writes, Data, Going
<1>3. UNCHANGED <<Data, opened>> /\ (Fault \/ Sound)
  BY DEF OthersHalt, stand, stopping, queue, wire, writes, Data, Going, Sound
<1>4. Stays /\ (Lossy => Lossy')
  BY DEF OthersHalt, Stays, Lossy, stand, stopping, queue, wire, writes, Data, Going
<1> QED BY <1>1, <1>2, <1>3, <1>4, Quiet

LEMMA RecoveredKeeps == ASSUME Bounds, IInv, Recovered PROVE IInv'
<1>0. lease' \in Leases /\ halt' \in BOOLEAN
  BY DEF Recovered, Leases
<1>1. ControlTyped'
  BY <1>0 DEF Recovered, IInv, Typed, TypeOK, ControlTyped, Stages, stopping
<1>2. Control'
  BY DEF Recovered, IInv, Control, AuditOf, ThreadsOf, StopOf, LeaseOf, LastOf, Typed, TypeOK, stand, stopping, queue, wire, writes, Data, Going, Leases
<1>3. UNCHANGED <<Data, opened>> /\ (Fault \/ Sound)
  BY DEF Recovered, stand, stopping, queue, wire, writes, Data, Going, Sound, Leases
<1>4. Stays /\ (Lossy => Lossy')
  BY DEF Recovered, Stays, Lossy, stand, stopping, queue, wire, writes, Data, Going, Leases
<1> QED BY <1>1, <1>2, <1>3, <1>4, Quiet

LEMMA StoodDownKeeps == ASSUME Bounds, IInv, StoodDown PROVE IInv'
<1>1. ControlTyped'
  BY DEF StoodDown, IInv, Typed, TypeOK, ControlTyped, Stages, stand, stopping, queue, wire, writes, Data, Going, Leases
<1>2. Control'
  BY DEF StoodDown, IInv, Control, AuditOf, ThreadsOf, StopOf, LeaseOf, LastOf, Typed, TypeOK, stand, stopping, queue, wire, writes, Data, Going, Leases
<1>3. UNCHANGED <<Data, opened>> /\ (Fault \/ Sound)
  BY DEF StoodDown, stand, stopping, queue, wire, writes, Data, Going, Sound, Leases
<1>4. Stays /\ (Lossy => Lossy')
  BY DEF StoodDown, Stays, Lossy, stand, stopping, queue, wire, writes, Data, Going, Leases
<1> QED BY <1>1, <1>2, <1>3, <1>4, Quiet

LEMMA DrainReadsKeeps == ASSUME Bounds, IInv, DrainReads PROVE IInv'
<1>1. ControlTyped'
  BY DEF DrainReads, IInv, Typed, TypeOK, ControlTyped, Stages, stand, stopping, queue, wire, writes, Data, Going
<1>2. Control'
  BY DEF DrainReads, IInv, Control, AuditOf, ThreadsOf, StopOf, LeaseOf, LastOf, Typed, TypeOK, stand, stopping, queue, wire, writes, Data, Going
<1>3. UNCHANGED <<Data, opened>> /\ (Fault \/ Sound)
  BY DEF DrainReads, stand, stopping, queue, wire, writes, Data, Going, Sound
<1>4. Stays /\ (Lossy => Lossy')
  BY DEF DrainReads, Stays, Lossy, stand, stopping, queue, wire, writes, Data, Going
<1> QED BY <1>1, <1>2, <1>3, <1>4, Quiet

LEMMA DrainEmptyKeeps == ASSUME Bounds, IInv, DrainEmpty PROVE IInv'
<1>1. ControlTyped'
  BY DEF DrainEmpty, IInv, Typed, TypeOK, ControlTyped, Stages, stand, stopping, queue, wire, writes, Data, Going
<1>2. Control'
  BY DEF DrainEmpty, IInv, Control, AuditOf, ThreadsOf, StopOf, LeaseOf, LastOf, Typed, TypeOK, stand, stopping, queue, wire, writes, Data, Going
<1>3. UNCHANGED <<Data, opened>> /\ (Fault \/ Sound)
  BY DEF DrainEmpty, stand, stopping, queue, wire, writes, Data, Going, Sound
<1>4. Stays /\ (Lossy => Lossy')
  BY DEF DrainEmpty, Stays, Lossy, stand, stopping, queue, wire, writes, Data, Going
<1> QED BY <1>1, <1>2, <1>3, <1>4, Quiet

LEMMA DrainStopsKeeps == ASSUME Bounds, IInv, DrainStops PROVE IInv'
<1>1. ControlTyped'
  BY DEF DrainStops, IInv, Typed, TypeOK, ControlTyped, Stages, stand, stopping, queue, wire, writes, Data, Going
<1>2. Control'
  BY DEF DrainStops, IInv, Control, AuditOf, ThreadsOf, StopOf, LeaseOf, LastOf, Typed, TypeOK, stand, stopping, queue, wire, writes, Data, Going
<1>3. UNCHANGED <<Data, opened>> /\ (Fault \/ Sound)
  BY DEF DrainStops, stand, stopping, queue, wire, writes, Data, Going, Sound
<1>4. Stays /\ (Lossy => Lossy')
  BY DEF DrainStops, Stays, Lossy, stand, stopping, queue, wire, writes, Data, Going
<1> QED BY <1>1, <1>2, <1>3, <1>4, Quiet

LEMMA ReaderLoopsKeeps == ASSUME Bounds, IInv, ReaderLoops PROVE IInv'
<1>1. ControlTyped'
  BY DEF ReaderLoops, IInv, Typed, TypeOK, ControlTyped, Stages, stand, stopping, queue, wire, writes, Data, Going
<1>2. Control'
  BY DEF ReaderLoops, IInv, Control, AuditOf, ThreadsOf, StopOf, LeaseOf, LastOf, Typed, TypeOK, stand, stopping, queue, wire, writes, Data, Going
<1>3. UNCHANGED <<Data, opened>> /\ (Fault \/ Sound)
  BY DEF ReaderLoops, stand, stopping, queue, wire, writes, Data, Going, Sound
<1>4. Stays /\ (Lossy => Lossy')
  BY DEF ReaderLoops, Stays, Lossy, stand, stopping, queue, wire, writes, Data, Going
<1> QED BY <1>1, <1>2, <1>3, <1>4, Quiet

LEMMA ReaderWakesKeeps == ASSUME Bounds, IInv, ReaderWakes PROVE IInv'
<1>1. ControlTyped'
  BY DEF ReaderWakes, IInv, Typed, TypeOK, ControlTyped, Stages, stand, stopping, queue, wire, writes, Data, Going
<1>2. Control'
  BY DEF ReaderWakes, IInv, Control, AuditOf, ThreadsOf, StopOf, LeaseOf, LastOf, Typed, TypeOK, stand, stopping, queue, wire, writes, Data, Going
<1>3. UNCHANGED <<Data, opened>> /\ (Fault \/ Sound)
  BY DEF ReaderWakes, stand, stopping, queue, wire, writes, Data, Going, Sound
<1>4. Stays /\ (Lossy => Lossy')
  BY DEF ReaderWakes, Stays, Lossy, stand, stopping, queue, wire, writes, Data, Going
<1> QED BY <1>1, <1>2, <1>3, <1>4, Quiet

LEMMA ReaderTimesOutKeeps == ASSUME Bounds, IInv, ReaderTimesOut PROVE IInv'
<1>1. ControlTyped'
  BY DEF ReaderTimesOut, IInv, Typed, TypeOK, ControlTyped, Stages, stand, stopping, queue, wire, writes, Data, Going
<1>2. Control'
  BY DEF ReaderTimesOut, IInv, Control, AuditOf, ThreadsOf, StopOf, LeaseOf, LastOf, Typed, TypeOK, stand, stopping, queue, wire, writes, Data, Going
<1>3. UNCHANGED <<Data, opened>> /\ (Fault \/ Sound)
  BY DEF ReaderTimesOut, stand, stopping, queue, wire, writes, Data, Going, Sound
<1>4. Stays /\ (Lossy => Lossy')
  BY DEF ReaderTimesOut, Stays, Lossy, stand, stopping, queue, wire, writes, Data, Going
<1> QED BY <1>1, <1>2, <1>3, <1>4, Quiet

LEMMA ReaderLeavesKeeps == ASSUME Bounds, IInv, ReaderLeaves PROVE IInv'
<1>1. ControlTyped'
  BY DEF ReaderLeaves, IInv, Typed, TypeOK, ControlTyped, Stages, stand, stopping, queue, wire, writes, Data, Going
<1>2. Control'
  BY DEF ReaderLeaves, IInv, Control, AuditOf, ThreadsOf, StopOf, LeaseOf, LastOf, Typed, TypeOK, stand, stopping, queue, wire, writes, Data, Going
<1>3. UNCHANGED <<Data, opened>> /\ (Fault \/ Sound)
  BY DEF ReaderLeaves, stand, stopping, queue, wire, writes, Data, Going, Sound
<1>4. Stays /\ (Lossy => Lossy')
  BY DEF ReaderLeaves, Stays, Lossy, stand, stopping, queue, wire, writes, Data, Going
<1> QED BY <1>1, <1>2, <1>3, <1>4, Quiet

LEMMA StartReaderKeeps == ASSUME Bounds, IInv, StartReader PROVE IInv'
<1>1. ControlTyped'
  BY DEF StartReader, IInv, Typed, TypeOK, ControlTyped, Stages, stand, stopping, queue, wire, writes, Data, Going
<1>2. Control'
  BY DEF StartReader, IInv, Control, AuditOf, ThreadsOf, StopOf, LeaseOf, LastOf, Typed, TypeOK, stand, stopping, queue, wire, writes, Data, Going
<1>3. UNCHANGED <<Data, opened>> /\ (Fault \/ Sound)
  BY DEF StartReader, stand, stopping, queue, wire, writes, Data, Going, Sound
<1>4. Stays /\ (Lossy => Lossy')
  BY DEF StartReader, Stays, Lossy, Going, IInv, ThreadsOf
<1> QED BY <1>1, <1>2, <1>3, <1>4, Quiet

LEMMA WriteKeeps == ASSUME Bounds, IInv, Write PROVE IInv'
<1>1. ControlTyped'
  BY DEF Write, IInv, Typed, TypeOK, ControlTyped, Stages, stand, stopping, queue, wire, writes, Data, Going, Usable, Alive
<1>2. Control'
  BY DEF Write, IInv, Control, AuditOf, ThreadsOf, StopOf, LeaseOf, LastOf, Typed, TypeOK, stand, stopping, queue, wire, writes, Data, Going, Usable, Alive
<1>3. UNCHANGED <<Data, opened>> /\ (Fault \/ Sound)
  BY DEF Write, stand, stopping, queue, wire, writes, Data, Going, Sound, Usable, Alive
<1>4. Stays /\ (Lossy => Lossy')
  BY DEF Write, Stays, Lossy, stand, stopping, queue, wire, writes, Data, Going, Usable, Alive
<1> QED BY <1>1, <1>2, <1>3, <1>4, Quiet

LEMMA DrainFailsKeeps == ASSUME Bounds, IInv, DrainFails PROVE IInv'
<1>0. /\ session' \in [Flags -> BOOLEAN]
      /\ \A f \in {"registered", "open", "active", "broken", "closed"} : session'[f] = session[f]
  <2>1. session \in [Flags -> BOOLEAN]
    BY DEF IInv, Typed, TypeOK
  <2>2. CASE ~session["active"]
    BY <2>1, <2>2 DEF DrainFails
  <2>3. CASE session["active"]
    <3>1. session' = [session EXCEPT !["dead"] = TRUE, !["unread"] = TRUE]
      BY <2>3 DEF DrainFails
    <3> QED BY <2>1, <3>1 DEF Flags
  <2> QED BY <2>2, <2>3
<1>1. ControlTyped'
  BY <1>0 DEF DrainFails, IInv, Typed, TypeOK, ControlTyped, stand, stopping
<1>2. Control'
  BY <1>0 DEF DrainFails, IInv, Control, AuditOf, ThreadsOf, StopOf, LeaseOf, LastOf, stand, stopping, queue
<1>3. UNCHANGED <<Data, opened>> /\ (Fault \/ Sound)
  BY DEF DrainFails, queue, wire, writes, Data
<1>4. Stays /\ (Lossy => Lossy')
  BY <1>0 DEF DrainFails, Stays, Lossy
<1> QED BY <1>1, <1>2, <1>3, <1>4, Quiet

LEMMA ReaderBreaksKeeps == ASSUME Bounds, IInv, ReaderBreaks PROVE IInv'
<1>0. session \in [Flags -> BOOLEAN] /\ reader = "broken" /\ reader' = "leaving"
  BY DEF IInv, Typed, TypeOK, ReaderBreaks
<1>1. /\ session' \in [Flags -> BOOLEAN] /\ session'["broken"] = TRUE
      /\ session'["closed"] = session["closed"] /\ session'["open"] = session["open"]
      /\ session'["registered"] = session["registered"]
      /\ session'["active"] => session["active"]
  BY <1>0, BreakIs DEF ReaderBreaks
<1>2. /\ lease' \in Leases /\ halt' \in BOOLEAN
      /\ lease' \in {"none", "handed"} => lease \in {"none", "handed"}
  BY QuarantineIs DEF ReaderBreaks, IInv
<1>3. ControlTyped'
  BY <1>1, <1>2 DEF ReaderBreaks, IInv, Typed, TypeOK, ControlTyped, stopping
<1>4. Control'
  BY <1>0, <1>1, <1>2
  DEF ReaderBreaks, IInv, Control, AuditOf, ThreadsOf, StopOf, LeaseOf, LastOf, stopping, queue
<1>5. UNCHANGED <<Data, opened>> /\ (Fault \/ Sound)
  BY DEF ReaderBreaks, queue, wire, writes, Data, Sound
<1>6. Stays /\ (Lossy => Lossy')
  BY <1>1 DEF ReaderBreaks, Stays, Lossy
<1> QED BY <1>3, <1>4, <1>5, <1>6, Quiet

\* A call that found the audit broken goes on to its report.
LEMMA CallBreaks ==
    ASSUME Bounds, IInv, UNCHANGED <<stopping, drain, reader, ready, Data, opened>>, Fault \/ Sound,
           NEW also, also \cap {"closed", "open", "registered"} = {}, Break(also), Quarantine(TRUE),
           caller \notin {"idle", "opened", "clear", "start"}, caller' \in {"report", "idle"},
           audit' = IF audit = "caller" THEN "free" ELSE audit, batch = <<>> \/ caller # "flush"
    PROVE  IInv'
<1>0. session \in [Flags -> BOOLEAN]
  BY DEF IInv, Typed, TypeOK
<1>1. /\ session' \in [Flags -> BOOLEAN] /\ session'["broken"] = TRUE
      /\ session'["closed"] = session["closed"] /\ session'["open"] = session["open"]
      /\ session'["registered"] = session["registered"]
      /\ session'["active"] => session["active"]
  BY <1>0, BreakIs
<1>2. /\ lease' \in Leases /\ halt' \in BOOLEAN
      /\ lease' \in {"none", "handed"} => lease \in {"none", "handed"}
  BY QuarantineIs DEF IInv
<1>3. ControlTyped'
  BY <1>1, <1>2 DEF IInv, Typed, TypeOK, ControlTyped, stopping, Stages
<1>4. Control'
  BY <1>0, <1>1, <1>2
  DEF IInv, Typed, TypeOK, Control, AuditOf, ThreadsOf, StopOf, LeaseOf, LastOf, stopping, Data
<1>5. Stays /\ (Lossy => Lossy')
  BY <1>1 DEF Stays, Lossy
<1> QED BY <1>3, <1>4, <1>5, Quiet

\* A call that goes on to its report, and changes nothing else.
LEMMA CallReports ==
    ASSUME Bounds, IInv, UNCHANGED <<session, stand, stopping, drain, reader, audit, ready, Data, opened>>,
           Fault \/ Sound, caller \in {"report", "idle"}, caller' \in {"report", "idle"},
           caller' = "report" => lease \notin {"none", "handed"}
    PROVE  IInv'
<1>1. ControlTyped'
  BY DEF IInv, Typed, TypeOK, ControlTyped, stopping, stand, Stages
<1>2. Control'
  BY DEF IInv, Control, AuditOf, ThreadsOf, StopOf, LeaseOf, LastOf, stopping, stand, Data
<1>3. Stays /\ (Lossy => Lossy')
  BY DEF Stays, Lossy
<1> QED BY <1>1, <1>2, <1>3, Quiet

LEMMA ReportKeeps == ASSUME Bounds, IInv, Report PROVE IInv'
<1>1. UNCHANGED <<stopping, drain, reader, audit, ready, Data, opened>> /\ caller = "report" /\ caller' = "idle"
  BY DEF Report, queue, wire, writes, Data, Going
<1>2. CASE Sound /\ UNCHANGED <<session, stand>>
  BY <1>1, <1>2, CallReports
<1>3. CASE Fault /\ Break({}) /\ Quarantine(TRUE)
  <2>1. audit' = IF audit = "caller" THEN "free" ELSE audit
    BY <1>1 DEF IInv, AuditOf
  <2> QED BY <1>1, <1>3, <2>1, CallBreaks
<1> QED BY <1>2, <1>3 DEF Report

LEMMA WriteUnrecordedKeeps == ASSUME Bounds, IInv, WriteUnrecorded PROVE IInv'
<1>1. UNCHANGED <<stopping, drain, reader, audit, ready, Data, opened>> /\ Sound
      /\ caller = "unrecorded" /\ caller' = "report"
  BY DEF WriteUnrecorded, queue, wire, writes, Data, Going, Sound
<1>2. audit' = IF audit = "caller" THEN "free" ELSE audit
  BY <1>1 DEF IInv, AuditOf
<1> QED BY <1>1, <1>2, CallBreaks DEF WriteUnrecorded

-----------------------------------------------------------------------------
(* Stopping.                                                                *)

\* A stop step of the caller that leaves the log alone.
LEMMA StopStep ==
    ASSUME Bounds, IInv, UNCHANGED <<drain, reader, audit, ready, Data, opened>>, Fault \/ Sound,
           session' \in [Flags -> BOOLEAN], lease' \in Leases, halt' \in BOOLEAN, failed' \in BOOLEAN,
           why' \in {"requested", "replaced", "audit_failed", "clear_failed"},
           caller \in {"idle", "stopping", "joining", "stopped", "release"},
           caller' \in {"idle", "report", "stopping", "joining", "bye", "stopped", "release"},
           session["broken"] => session'["broken"], StopOf', LeaseOf', LastOf'
    PROVE  IInv'
<1>1. ControlTyped'
  BY DEF IInv, Typed, TypeOK, ControlTyped, Stages
<1>2. AuditOf' /\ ThreadsOf'
  BY DEF IInv, AuditOf, ThreadsOf, Data
<1>3. Stays /\ (Lossy => Lossy')
  BY DEF Stays, Lossy
<1> QED BY <1>1, <1>2, <1>3, Quiet DEF Control

LEMMA StopBeginsKeeps == ASSUME Bounds, IInv, StopBegins PROVE IInv'
<1>1. /\ UNCHANGED <<drain, reader, audit, ready, Data, opened>> /\ Sound
      /\ failed' = FALSE /\ caller = "idle" /\ session["registered"]
  BY DEF StopBegins, queue, wire, writes, Data, Sound
<1>2. why' \in {"requested", "replaced", "audit_failed", "clear_failed"}
  BY DEF StopBegins
<1>3. session \in [Flags -> BOOLEAN] /\ lease \in Leases /\ halt \in BOOLEAN
  BY DEF IInv, Typed, TypeOK
<1>4. lease \notin {"none", "handed"}
  BY <1>1 DEF IInv, LeaseOf
<1>5. CASE /\ ~session["closed"] /\ Going("stopping")
           /\ session' = [session EXCEPT !["active"] = FALSE] /\ UNCHANGED stand
  <2>1. /\ session' \in [Flags -> BOOLEAN] /\ session'["active"] = FALSE
        /\ \A f \in Flags \ {"active"} : session'[f] = session[f]
    BY <1>3, <1>5, FlagIs DEF Flags
  <2>2. session'["broken"] = session["broken"] /\ session'["closed"] = FALSE /\ session'["open"] = session["open"]
        /\ session'["registered"] = session["registered"]
    BY <1>5, <2>1, <1>3 DEF Flags
  <2>3. StopOf' /\ LeaseOf' /\ LastOf'
    BY <1>1, <1>4, <1>5, <2>1, <2>2 DEF StopOf, LeaseOf, LastOf, Going, stand
  <2> QED BY <1>1, <1>2, <1>3, <1>5, <2>1, <2>2, <2>3, StopStep DEF Going, stand
<1>6. CASE /\ session["closed"] /\ caller' \in {"release", "stopped", "report"} /\ UNCHANGED <<session, stand>>
  <2>1. StopOf' /\ LeaseOf' /\ LastOf'
    BY <1>1, <1>4, <1>6 DEF IInv, StopOf, LeaseOf, LastOf, stand, Data
  <2> QED BY <1>1, <1>2, <1>3, <1>6, <2>1, StopStep DEF stand
<1>7. CASE session["closed"] /\ Going("idle") /\ HandOver
  <2>1. /\ session' \in [Flags -> BOOLEAN] /\ session'["broken"] = TRUE /\ session'["registered"] = FALSE
        /\ session'["closed"] = session["closed"] /\ session'["open"] = session["open"]
        /\ session'["active"] = session["active"]
        /\ lease' = "handed" /\ halt' = TRUE /\ "handed" \in Leases
    BY <1>3, <1>7, HandOverIs
  <2>2. StopOf' /\ LeaseOf' /\ LastOf'
    BY <1>1, <1>7, <2>1 DEF IInv, StopOf, LeaseOf, LastOf, Going
  <2> QED BY <1>1, <1>2, <1>7, <2>1, <2>2, StopStep DEF Going
<1> QED BY <1>5, <1>6, <1>7 DEF StopBegins, Going

LEMMA StopClosesKeeps == ASSUME Bounds, IInv, StopCloses PROVE IInv'
<1>1. /\ UNCHANGED <<drain, reader, audit, ready, Data, opened, why, stand>> /\ (Fault \/ Sound)
      /\ caller = "stopping" /\ caller' = "joining"
  BY DEF StopCloses, queue, wire, writes, Data, Going
<1>2. session \in [Flags -> BOOLEAN] /\ lease \in Leases /\ halt \in BOOLEAN
      /\ why \in {"requested", "replaced", "audit_failed", "clear_failed"} /\ failed \in BOOLEAN
  BY DEF IInv, Typed, TypeOK
<1>3. PICK v \in BOOLEAN : /\ session' = [session EXCEPT !["open"] = v]
                           /\ failed' \in BOOLEAN /\ (v => failed')
  BY <1>2 DEF StopCloses
<1>4. /\ session' \in [Flags -> BOOLEAN] /\ session'["open"] = v
      /\ \A f \in Flags \ {"open"} : session'[f] = session[f]
  BY <1>2, <1>3, FlagIs DEF Flags
<1>5. /\ session'["broken"] = session["broken"] /\ session'["closed"] = session["closed"]
      /\ session'["active"] = session["active"]
  BY <1>4 DEF Flags
<1>6. StopOf' /\ LeaseOf' /\ LastOf'
  BY <1>1, <1>3, <1>4, <1>5 DEF IInv, StopOf, LeaseOf, LastOf, stand, Data
<1> QED BY <1>1, <1>2, <1>3, <1>4, <1>5, <1>6, StopStep DEF stand

LEMMA StopJoinsKeeps == ASSUME Bounds, IInv, StopJoins PROVE IInv'
<1>1. /\ UNCHANGED <<drain, reader, audit, ready, Data, opened, why, stand>> /\ (Fault \/ Sound)
      /\ caller = "joining" /\ caller' = "bye"
  BY DEF StopJoins, queue, wire, writes, Data, Going, Sound
<1>2. session \in [Flags -> BOOLEAN] /\ lease \in Leases /\ halt \in BOOLEAN
      /\ why \in {"requested", "replaced", "audit_failed", "clear_failed"} /\ failed \in BOOLEAN
  BY DEF IInv, Typed, TypeOK
<1>3. failed' \in BOOLEAN /\ (failed => failed') /\ (~failed' => reader = "off")
  BY <1>2 DEF StopJoins
<1>4. PICK v \in BOOLEAN : (v <=> ~failed') /\ session' = [session EXCEPT !["closed"] = v]
  BY <1>2, <1>3 DEF StopJoins
<1>5. /\ session' \in [Flags -> BOOLEAN] /\ session'["closed"] = v
      /\ \A f \in Flags \ {"closed"} : session'[f] = session[f]
  BY <1>2, <1>4, FlagIs DEF Flags
<1>6. /\ session'["broken"] = session["broken"] /\ session'["open"] = session["open"]
      /\ session'["active"] = session["active"]
  BY <1>5 DEF Flags
<1>7. StopOf' /\ LeaseOf' /\ LastOf'
  BY <1>1, <1>3, <1>4, <1>5, <1>6 DEF IInv, StopOf, LeaseOf, LastOf, stand
<1> QED BY <1>1, <1>2, <1>3, <1>5, <1>6, <1>7, StopStep DEF stand

LEMMA StopReportsKeeps == ASSUME Bounds, IInv, StopReports PROVE IInv'
<1>1. /\ UNCHANGED <<drain, reader, audit, ready, Data, opened, stopping>> /\ (Fault \/ Sound)
      /\ caller = "stopped"
  BY DEF StopReports, queue, wire, writes, Data
<1>2. session \in [Flags -> BOOLEAN] /\ lease \in Leases /\ halt \in BOOLEAN
      /\ why' \in {"requested", "replaced", "audit_failed", "clear_failed"} /\ failed' \in BOOLEAN
  BY <1>1 DEF IInv, Typed, TypeOK, stopping
<1>3. CASE Going("release") /\ UNCHANGED <<session, stand>>
  <2>1. StopOf' /\ LeaseOf' /\ LastOf'
    BY <1>1, <1>3 DEF IInv, StopOf, LeaseOf, LastOf, stand, Going, stopping, Data
  <2> QED BY <1>1, <1>2, <1>3, <2>1, StopStep DEF stand, Going
<1>4. CASE Going("idle") /\ HandOver
  <2>1. /\ session' \in [Flags -> BOOLEAN] /\ session'["broken"] = TRUE /\ session'["registered"] = FALSE
        /\ session'["closed"] = session["closed"] /\ session'["open"] = session["open"]
        /\ session'["active"] = session["active"]
        /\ lease' = "handed" /\ halt' = TRUE /\ "handed" \in Leases
    BY <1>2, <1>4, HandOverIs
  <2>2. StopOf' /\ LeaseOf' /\ LastOf'
    BY <1>1, <1>4, <2>1 DEF IInv, StopOf, LeaseOf, LastOf, Going
  <2> QED BY <1>1, <1>2, <1>4, <2>1, <2>2, StopStep DEF Going
<1>5. CASE Fault /\ Going("idle") /\ Break({}) /\ Quarantine(TRUE)
  <2>1. audit' = IF audit = "caller" THEN "free" ELSE audit
    BY <1>1 DEF IInv, AuditOf
  <2> QED BY <1>1, <1>5, <2>1, CallBreaks DEF Going
<1> QED BY <1>3, <1>4, <1>5 DEF StopReports

LEMMA StopReleasesKeeps == ASSUME Bounds, IInv, StopReleases PROVE IInv'
<1>1. /\ UNCHANGED <<drain, reader, audit, ready, Data, opened, stopping>> /\ (Fault \/ Sound)
      /\ caller = "release" /\ caller' = "idle"
  BY DEF StopReleases, queue, wire, writes, Data, Going
<1>2. session \in [Flags -> BOOLEAN] /\ lease \in Leases /\ halt \in BOOLEAN
      /\ why' \in {"requested", "replaced", "audit_failed", "clear_failed"} /\ failed' \in BOOLEAN
  BY <1>1 DEF IInv, Typed, TypeOK, stopping
<1>3. /\ session' = Gone \/ (UNCHANGED session /\ lease' \notin {"none", "handed"})
      /\ lease' \in {"none", "retry", "handed", "cleanup"} /\ halt' \in BOOLEAN
  BY <1>2 DEF StopReleases, Release
<1>4. /\ session' \in [Flags -> BOOLEAN] /\ (lease' \in {"none", "handed"} => ~session'["registered"])
      /\ \A f \in {"open", "active", "broken", "closed"} : session'[f] = session[f]
  <2>1. CASE UNCHANGED session /\ lease' \notin {"none", "handed"}
    BY <1>2, <2>1
  <2>2. CASE session' = Gone
    BY <1>2, <2>2 DEF Gone, Flags
  <2> QED BY <1>3, <2>1, <2>2
<1>5. lease' \in Leases
  BY <1>3 DEF Leases
<1>6. StopOf' /\ LeaseOf' /\ LastOf'
  BY <1>1, <1>4 DEF IInv, StopOf, LeaseOf, LastOf, stopping, Data
<1> QED BY <1>1, <1>2, <1>3, <1>4, <1>5, <1>6, StopStep

-----------------------------------------------------------------------------
(* Input.                                                                   *)

LEMMA Assemble ==
    ASSUME Bounds, IInv, ControlTyped', Control', Fault \/ Sound, opened' \in 0..MaxSessions,
           log' \in Seq(Entries), received' \in Seq(Nat), batch' \in Seq(Nat),
           line' \in Seq(Nat), arrived' \in Seq(Nat), Len(arrived') + Len(line') <= MaxChunks,
           sent' \in 0..MaxWrites, before' \in [1..MaxWrites -> 0..MaxChunks],
           QueueOf', WriteOf', LogOf', WholeOf'
    PROVE  IInv'
<1>1. faults' \in 0..MaxFaults
  BY FaultIs DEF IInv
<1> QED BY <1>1 DEF IInv, Typed, TypeOK, ControlTyped, Control

\* Only what is on its way in changes.
LEMMA LineChanges ==
    ASSUME Bounds, IInv, UNCHANGED <<received, batch, arrived, before, sent, log, opened>>, Fault \/ Sound,
           line' \in Seq(Nat), \A i \in 1..Len(line') : line'[i] <= sent,
           Len(arrived) + Len(line') <= MaxChunks, Stays, Lossy => Lossy', ControlTyped', Control'
    PROVE  IInv'
<1>1. Handed' = Handed
  BY DEF Handed
<1>2. QueueOf'
  BY <1>1 DEF IInv, QueueOf
<1>3. WriteOf'
  BY <1>1 DEF IInv, WriteOf, Stays
<1>4. LogOf'
  BY <1>1 DEF IInv, LogOf, EntryOf, PairOf
<1>5. WholeOf'
  BY <1>1 DEF IInv, WholeOf, Lossy
<1> QED BY <1>2, <1>3, <1>4, <1>5, Assemble DEF IInv, Typed, TypeOK

LEMMA BoardSendsKeeps == ASSUME Bounds, IInv, BoardSends PROVE IInv'
<1>1. /\ UNCHANGED <<received, batch, arrived, before, sent, log, opened, faults, session, stand, caller,
                     stopping, drain, reader, audit, ready>>
      /\ line' = Append(line, sent) /\ Len(arrived) + Len(line) < MaxChunks
  BY DEF BoardSends, queue, writes
<1>2. sent \in Nat /\ line \in Seq(Nat) /\ MaxChunks \in Nat /\ Len(arrived) \in Nat
  BY BeforeIs DEF IInv, Typed
<1>3. PICK m \in Nat : m = Len(line)
  BY <1>2
<1>4. /\ line' \in Seq(Nat) /\ Len(line') = m + 1 /\ line'[m + 1] = sent
      /\ \A i \in 1..m : line'[i] = line[i]
  BY <1>1, <1>2, <1>3, AppendProperties
<1>5. \A i \in 1..Len(line') : line'[i] <= sent
  <2>1. \A i \in 1..m : line[i] <= sent
    BY <1>3 DEF IInv, QueueOf
  <2>2. ASSUME NEW i \in 1..(m + 1) PROVE line'[i] <= sent
    <3>1. CASE i \in 1..m
      BY <1>4, <2>1, <3>1
    <3>2. CASE i = m + 1
      BY <1>2, <1>4, <3>2
    <3> QED BY <3>1, <3>2
  <2> QED BY <1>4, <2>2
<1>6. Len(arrived) + Len(line') <= MaxChunks
  BY <1>1, <1>2, <1>3, <1>4
<1>7. ControlTyped' /\ Control'
  BY <1>1 DEF IInv, Typed, TypeOK, ControlTyped, Control, AuditOf, ThreadsOf, StopOf, LeaseOf, LastOf, stand, stopping
<1>8. Stays /\ (Lossy => Lossy')
  BY <1>1 DEF Stays, Lossy
<1> QED BY <1>1, <1>4, <1>5, <1>6, <1>7, <1>8, LineChanges DEF Sound

\* What was on its way in is thrown away.
LEMMA LineCleared ==
    ASSUME Bounds, IInv, UNCHANGED <<received, batch, arrived, before, sent, log, opened>>, Fault \/ Sound,
           line' = <<>>, Stays, Lossy => Lossy', ControlTyped', Control'
    PROVE  IInv'
<1>1. line' \in Seq(Nat) /\ Len(line') = 0
  OBVIOUS
<1>2. Len(arrived) + Len(line') <= MaxChunks
  <2>1. Len(arrived) \in Nat /\ Len(line) \in Nat /\ Len(arrived) + Len(line) <= MaxChunks /\ MaxChunks \in Nat
    BY BeforeIs DEF IInv, Typed, TypeOK
  <2> QED BY <1>1, <2>1
<1> QED BY <1>1, <1>2, LineChanges

LEMMA DrainGotKeeps == ASSUME Bounds, IInv, DrainGot PROVE IInv'
<1>1. /\ UNCHANGED <<batch, before, sent, log, opened, faults, session, stand, caller, stopping, reader, audit>>
      /\ drain = "read" /\ drain' = "loop" /\ ready' = TRUE /\ line # <<>>
      /\ arrived' = Append(arrived, Head(line)) /\ line' = Tail(line)
      /\ received' = Append(received, Len(arrived) + 1)
  BY DEF DrainGot, writes
<1>2. PICK a \in Nat : a = Len(arrived)
  BY DEF IInv, Typed
<1>3. PICK r \in Nat : r = Len(received)
  BY DEF IInv, Typed
<1>4. PICK m \in Nat : m = Len(line)
  BY DEF IInv, Typed
<1>5. /\ Head(line) \in Nat /\ line' \in Seq(Nat) /\ Len(line') = m - 1
      /\ \A i \in 1..(m - 1) : line'[i] = line[i + 1]
  BY <1>1, <1>4, HeadTailProperties DEF IInv, Typed
<1>6. Head(line) <= sent /\ m >= 1
  <2>1. Head(line) = line[1] /\ m >= 1
    BY <1>1, <1>4, EmptySeq DEF IInv, Typed
  <2> QED BY <1>4, <2>1 DEF IInv, QueueOf
<1>7. /\ arrived' \in Seq(Nat) /\ Len(arrived') = a + 1 /\ arrived'[a + 1] = Head(line)
      /\ \A i \in 1..a : arrived'[i] = arrived[i]
  BY <1>1, <1>2, <1>5, AppendProperties DEF IInv, Typed
<1>8. /\ received' \in Seq(Nat) /\ Len(received') = r + 1 /\ received'[r + 1] = a + 1
      /\ \A i \in 1..r : received'[i] = received[i]
  BY <1>1, <1>2, <1>3, AppendProperties DEF IInv, Typed
<1>9. PICK b \in Nat : b = Len(batch) /\ Len(batch') = b
  BY <1>1 DEF IInv, Typed
<1>10. Handed' = Handed /\ Handed \in Nat /\ Handed + b + r = a
  BY <1>2, <1>3, <1>7, <1>8, <1>9 DEF Handed, IInv, QueueOf
<1>11. QueueOf'
  <2>1. \A i \in 1..Len(received') : received'[i] = Handed' + Len(batch') + i
    BY <1>3, <1>8, <1>9, <1>10 DEF IInv, QueueOf
  <2>2. \A i \in 1..Len(line') : line'[i] <= sent
    <3>1. \A i \in 1..(m - 1) : i + 1 \in 1..m
      OBVIOUS
    <3> QED BY <1>4, <1>5, <3>1 DEF IInv, QueueOf
  <2>3. \A c \in 1..Len(arrived') : arrived'[c] <= sent
    BY <1>2, <1>6, <1>7 DEF IInv, QueueOf
  <2> QED BY <1>1, <1>10, <2>1, <2>2, <2>3 DEF IInv, QueueOf
<1>12. \A i \in 1..Len(log) : log[i].kind = "rx" => arrived'[log[i].n] = arrived[log[i].n]
  BY <1>2, <1>7, <1>10 DEF IInv, LogOf, EntryOf
<1>13. WriteOf'
  BY <1>1, <1>10, <1>12 DEF IInv, WriteOf
<1>14. LogOf'
  BY <1>1, <1>10, <1>12 DEF IInv, LogOf, EntryOf, PairOf
<1>15. WholeOf'
  BY <1>1, <1>10 DEF IInv, WholeOf
<1>16. ControlTyped' /\ Control'
  BY <1>1
  DEF IInv, Typed, TypeOK, ControlTyped, Control, AuditOf, ThreadsOf, StopOf, LeaseOf, LastOf, stand, stopping
<1>17. Len(arrived') + Len(line') <= MaxChunks
  BY <1>2, <1>4, <1>5, <1>7, BeforeIs DEF IInv, Typed, TypeOK
<1> QED
  BY <1>1, <1>5, <1>7, <1>8, <1>11, <1>13, <1>14, <1>15, <1>16, <1>17, Assemble DEF IInv, Typed, TypeOK, Sound

-----------------------------------------------------------------------------
(* The log writer.                                                          *)

LEMMA ReaderTakesKeeps == ASSUME Bounds, IInv, ReaderTakes PROVE IInv'
<1>1. /\ UNCHANGED <<session, stand, caller, stopping, drain, ready, line, arrived, before, sent, log, opened, faults>>
      /\ reader \in {"take", "last"} /\ audit = "free"
  BY DEF ReaderTakes, wire, writes
<1>2. CASE received = <<>>
  <2>1. UNCHANGED <<received, batch, audit>> /\ reader' = (IF reader = "take" THEN "loop" ELSE "error")
    BY <1>2 DEF ReaderTakes, queue
  <2>2. ControlTyped' /\ Control'
    BY <1>1, <1>2, <2>1
    DEF IInv, Typed, TypeOK, ControlTyped, Control, AuditOf, ThreadsOf, StopOf, LeaseOf, LastOf, stand, stopping
  <2>3. Stays /\ (Lossy => Lossy')
    BY <1>1, <2>1 DEF Stays, Lossy
  <2> QED BY <1>1, <2>1, <2>2, <2>3, Quiet DEF Sound, Data
<1>3. CASE received # <<>>
  <2>1. /\ reader' = (IF reader = "take" THEN "write" ELSE "final")
        /\ audit' = "reader" /\ batch' = received /\ received' = <<>>
    BY <1>3 DEF ReaderTakes
  <2>2. batch = <<>>
    BY <1>1 DEF IInv, AuditOf
  <2>3. Lossy => Lossy'
    BY <1>1 DEF Lossy
  <2>4. QueueOf' /\ WriteOf' /\ LogOf' /\ WholeOf'
    BY <1>1, <2>1, <2>2, <2>3, TakeAll
  <2>5. ControlTyped' /\ Control'
    BY <1>1, <2>1
    DEF IInv, Typed, TypeOK, ControlTyped, Control, AuditOf, ThreadsOf, StopOf, LeaseOf, LastOf, stand, stopping
  <2> QED BY <1>1, <2>1, <2>4, <2>5, Assemble DEF IInv, Typed, TypeOK, Sound
<1> QED BY <1>2, <1>3

\* What is taken is lost to a log that breaks.
LEMMA BatchLost ==
    ASSUME Bounds, IInv, UNCHANGED <<received, line, arrived, before, sent, log>>, batch' = <<>>, Lossy',
           caller' \notin {"write", "flush", "send", "record", "error"} \/ (caller' = caller /\ caller # "flush")
    PROVE  QueueOf' /\ WriteOf' /\ LogOf' /\ WholeOf' /\ batch' \in Seq(Nat)
<1>1. PICK k \in Nat : k = Len(batch) /\ Len(batch') = 0
  BY DEF IInv, Typed
<1>2. PICK p \in Nat : p = Handed
  BY DEF IInv, QueueOf
<1>3. Handed' = p + k /\ p + k \in Nat
  BY <1>1, <1>2 DEF Handed, IInv, Typed
<1>4. QueueOf'
  BY <1>1, <1>2, <1>3 DEF IInv, QueueOf, Typed
<1>5. \A w \in 1..sent : before[w] \in Nat
  BY BeforeIs DEF IInv
<1>6. WriteOf'
  <2>1. caller = "send" => sent + 1 \in 1..MaxWrites
    BY BeforeIs DEF IInv, WriteOf
  <2>2. caller = "send" => before[sent + 1] \in Nat
    BY <2>1, BeforeIs DEF IInv
  <2>3. caller \in {"record", "error"} => before[sent] \in Nat
    BY <1>5, BeforeIs DEF IInv, WriteOf
  <2> QED BY <1>2, <1>3, <2>2, <2>3 DEF IInv, WriteOf
<1>7. LogOf'
  <2>1. ASSUME NEW i \in 1..Len(log) PROVE EntryOf(i)'
    <3>1. EntryOf(i) /\ (log[i].kind = "tx" => before[log[i].n] \in Nat)
      BY <1>5 DEF IInv, LogOf, EntryOf
    <3> QED BY <1>2, <1>3, <3>1 DEF EntryOf
  <2> QED BY <2>1 DEF IInv, LogOf, PairOf
<1>8. WholeOf'
  BY DEF WholeOf, Lossy
<1> QED BY <1>4, <1>6, <1>7, <1>8

LEMMA ReaderWritesKeeps == ASSUME Bounds, IInv, ReaderWrites PROVE IInv'
<1>1. /\ UNCHANGED <<session, stand, caller, stopping, drain, ready, received, line, arrived, before, sent, opened>>
      /\ reader \in {"write", "final"} /\ audit' = "free" /\ batch' = <<>> /\ (Fault \/ Sound)
  BY DEF ReaderWrites, wire, writes
<1>2. caller \notin {"flush", "send", "record", "error"} /\ reader # "broken"
  BY <1>1 DEF IInv, AuditOf
<1>3. PICK to \in {"loop", "error", "broken"} : reader' = to /\ (to = "error" => reader = "final")
  BY <1>1 DEF ReaderWrites
<1>4. CASE LoggedBatch /\ to # "broken"
  <2>1. Lossy => Lossy'
    BY <1>1, <1>2 DEF Lossy
  <2>2. QueueOf' /\ WriteOf' /\ LogOf' /\ WholeOf' /\ log' \in Seq(Entries) /\ batch' \in Seq(Nat)
    BY <1>1, <1>2, <1>4, <2>1, LogBatch
  <2>3. ControlTyped' /\ AuditOf' /\ ThreadsOf' /\ StopOf' /\ LeaseOf'
    BY <1>1, <1>2, <1>3
    DEF IInv, Typed, TypeOK, ControlTyped, AuditOf, ThreadsOf, StopOf, LeaseOf, stand, stopping
  <2>4. LastOf'
    BY <1>1 DEF IInv, LastOf, StopOf
  <2> QED BY <1>1, <2>2, <2>3, <2>4, Assemble DEF IInv, Typed, TypeOK, Control
<1>5. CASE UNCHANGED log /\ to = "broken"
  <2>1. QueueOf' /\ WriteOf' /\ LogOf' /\ WholeOf' /\ batch' \in Seq(Nat)
    BY <1>1, <1>2, <1>3, <1>5, BatchLost DEF Lossy
  <2>2. ControlTyped' /\ AuditOf' /\ ThreadsOf' /\ StopOf' /\ LeaseOf' /\ LastOf'
    BY <1>1, <1>2, <1>3, <1>5
    DEF IInv, Typed, TypeOK, ControlTyped, AuditOf, ThreadsOf, StopOf, LeaseOf, LastOf, stand, stopping
  <2> QED BY <1>1, <1>5, <2>1, <2>2, Assemble DEF IInv, Typed, TypeOK, Control
<1> QED BY <1>1, <1>3, <1>4, <1>5 DEF ReaderWrites

LEMMA ReaderErrsKeeps == ASSUME Bounds, IInv, ReaderErrs PROVE IInv'
<1>1. /\ UNCHANGED <<session, stand, caller, stopping, drain, audit, ready, received, batch, line, arrived, before, sent, opened>>
      /\ reader = "error" /\ reader' = "off" /\ (Fault \/ Sound) /\ audit = "free"
      /\ UNCHANGED log \/ Logged(Entry("error", 0))
  BY DEF ReaderErrs, queue, wire, writes
<1>2. Stays /\ (Lossy => Lossy')
  BY <1>1 DEF Stays, Lossy
<1>3. ControlTyped' /\ AuditOf' /\ ThreadsOf' /\ StopOf' /\ LeaseOf'
  BY <1>1 DEF IInv, Typed, TypeOK, ControlTyped, AuditOf, ThreadsOf, StopOf, LeaseOf, stand, stopping
<1>4. LastOf'
  BY <1>1 DEF IInv, LastOf, StopOf
<1>5. CASE UNCHANGED log
  BY <1>1, <1>2, <1>3, <1>4, <1>5, Quiet DEF Data, Control
<1>6. CASE Logged(Entry("error", 0))
  <2>1. Entry("error", 0) \in Entries /\ Entry("error", 0).kind = "error"
    BY DEF Entry, Entries
  <2>2. caller' \notin {"record", "error"}
    BY <1>1 DEF IInv, AuditOf
  <2>3. QueueOf' /\ WriteOf' /\ LogOf' /\ WholeOf' /\ log' \in Seq(Entries)
    BY <1>1, <1>2, <1>6, <2>1, <2>2, LogOne DEF Logged
  <2> QED BY <1>1, <1>3, <1>4, <2>3, Assemble DEF IInv, Typed, TypeOK, Control
<1> QED BY <1>1, <1>5, <1>6

-----------------------------------------------------------------------------
(* The caller: starting.                                                    *)

LEMMA OpenKeeps == ASSUME Bounds, IInv, Open PROVE IInv'
<1>1. /\ UNCHANGED <<halt, stopping, drain, reader, audit, batch, faults>> /\ caller = "idle" /\ caller' = "opened"
      /\ lease = "none" /\ lease' = "active" /\ opened' = opened + 1 /\ opened < MaxSessions
      /\ received' = <<>> /\ line' = <<>> /\ arrived' = <<>> /\ log' = <<>> /\ sent' = 0
      /\ before' = [w \in 1..MaxWrites |-> 0] /\ ready' = FALSE
  BY DEF Open, Going
<1>2. reader = "off" /\ drain = "off" /\ batch = <<>>
  BY <1>1 DEF IInv, LeaseOf, ThreadsOf, AuditOf
<1>3. PICK readable \in BOOLEAN :
         session' = [f \in Flags |-> f \in {"registered", "open", "active"} \/ (f = "readable" /\ readable)]
  BY DEF Open
<1>4. /\ session' \in [Flags -> BOOLEAN]
      /\ ~session'["closed"] /\ ~session'["broken"]
  BY <1>3 DEF Flags
<1>5. ControlTyped'
  BY <1>1, <1>4 DEF IInv, Typed, TypeOK, ControlTyped, stopping, Stages, Leases
<1>6. Control'
  BY <1>1, <1>2, <1>4 DEF IInv, Control, AuditOf, ThreadsOf, StopOf, LeaseOf, LastOf
<1>7. Len(received') = 0 /\ Len(batch') = 0 /\ Len(line') = 0 /\ Len(arrived') = 0 /\ Len(log') = 0
  BY <1>1, <1>2
<1>8. QueueOf' /\ WriteOf' /\ LogOf' /\ WholeOf'
  <2>1. Handed' = 0
    BY <1>7 DEF Handed
  <2> QED BY <1>1, <1>7, <2>1 DEF QueueOf, WriteOf, LogOf, WholeOf
<1>9. /\ before' \in [1..MaxWrites -> 0..MaxChunks] /\ sent' \in 0..MaxWrites
      /\ opened' \in 0..MaxSessions /\ Len(arrived') + Len(line') <= MaxChunks
  BY <1>1, <1>7 DEF Bounds, IInv, Typed, TypeOK
<1>10. /\ received' \in Seq(Nat) /\ batch' \in Seq(Nat) /\ line' \in Seq(Nat) /\ arrived' \in Seq(Nat)
       /\ log' \in Seq(Entries)
  BY <1>1, <1>2
<1> QED BY <1>1, <1>5, <1>6, <1>8, <1>9, <1>10, Assemble DEF Sound

LEMMA StartEntryKeeps == ASSUME Bounds, IInv, StartEntry PROVE IInv'
<1>1. /\ UNCHANGED <<lease, halt, drain, reader, audit, ready, received, batch, line, arrived, before, sent, opened>>
      /\ caller = "opened" /\ (Fault \/ Sound)
  BY DEF StartEntry, stand, queue, wire, writes
<1>2. /\ session \in [Flags -> BOOLEAN] /\ lease \notin {"none", "handed"} /\ reader = "off" /\ ~session["closed"]
  BY <1>1 DEF IInv, Typed, TypeOK, LeaseOf, ThreadsOf, StopOf
<1>3. CASE Logged(Entry("start", 0)) /\ caller' \in {"clear", "start"} /\ UNCHANGED <<session, stopping>>
  <2>1. Entry("start", 0) \in Entries /\ Entry("start", 0).kind = "start"
    BY DEF Entry, Entries
  <2>2. Stays /\ (Lossy => Lossy')
    BY <1>1, <1>3 DEF Stays, Lossy
  <2>3. QueueOf' /\ WriteOf' /\ LogOf' /\ WholeOf' /\ log' \in Seq(Entries)
    BY <1>1, <1>3, <2>1, <2>2, LogOne DEF Logged
  <2>4. ControlTyped' /\ Control'
    BY <1>1, <1>2, <1>3
    DEF IInv, Typed, TypeOK, ControlTyped, Control, AuditOf, ThreadsOf, StopOf, LeaseOf, LastOf, stopping, Stages
  <2> QED BY <1>1, <2>3, <2>4, Assemble DEF IInv, Typed, TypeOK
<1>4. CASE /\ UNCHANGED log /\ Break({"active"}) /\ caller' = "stopping"
           /\ why' = "audit_failed" /\ failed' = FALSE
  <2>1. /\ session' \in [Flags -> BOOLEAN] /\ session'["broken"] = TRUE /\ session'["active"] = FALSE
        /\ session'["closed"] = session["closed"] /\ session'["open"] = session["open"]
    BY <1>2, <1>4, BreakIs
  <2>2. Stays /\ (Lossy => Lossy')
    BY <1>1, <1>4, <2>1 DEF Stays, Lossy
  <2>3. ControlTyped' /\ Control'
    BY <1>1, <1>2, <1>4, <2>1
    DEF IInv, Typed, TypeOK, ControlTyped, Control, AuditOf, ThreadsOf, StopOf, LeaseOf, LastOf, Stages
  <2> QED BY <1>1, <1>4, <2>2, <2>3, Quiet DEF Data
<1> QED BY <1>3, <1>4 DEF StartEntry, Going

LEMMA ClearKeeps == ASSUME Bounds, IInv, Clear PROVE IInv'
<1>1. /\ UNCHANGED <<drain, reader, audit, ready, received, batch, arrived, before, sent, log, opened>>
      /\ caller = "clear" /\ (Fault \/ Sound)
  BY DEF Clear, queue, writes
<1>2. /\ session \in [Flags -> BOOLEAN] /\ lease \notin {"none", "handed"} /\ reader = "off" /\ ~session["closed"]
  BY <1>1 DEF IInv, Typed, TypeOK, LeaseOf, ThreadsOf, StopOf
<1>3. CASE line' = <<>> /\ caller' = "start" /\ UNCHANGED <<session, stand, stopping>>
  <2>1. Stays /\ (Lossy => Lossy')
    BY <1>1, <1>3 DEF Stays, Lossy
  <2>2. ControlTyped' /\ Control'
    BY <1>1, <1>2, <1>3
    DEF IInv, Typed, TypeOK, ControlTyped, Control, AuditOf, ThreadsOf, StopOf, LeaseOf, LastOf, stand, stopping, Stages
  <2> QED BY <1>1, <1>3, <2>1, <2>2, LineCleared
<1>4. CASE /\ UNCHANGED line /\ caller' = "stopping" /\ session' = [session EXCEPT !["active"] = FALSE]
           /\ Quarantine(FALSE) \/ UNCHANGED stand
           /\ why' = "clear_failed" /\ failed' = FALSE
  <2>1. /\ session' \in [Flags -> BOOLEAN] /\ session'["active"] = FALSE
        /\ \A f \in Flags \ {"active"} : session'[f] = session[f]
    BY <1>2, <1>4, FlagIs DEF Flags
  <2>2. /\ session'["broken"] = session["broken"] /\ session'["closed"] = session["closed"]
        /\ session'["open"] = session["open"]
    BY <2>1 DEF Flags
  <2>3. /\ lease' \in Leases /\ halt' \in BOOLEAN /\ lease' \notin {"none", "handed"}
    <3>1. CASE Quarantine(FALSE)
      BY <1>2, <3>1, QuarantineIs DEF IInv
    <3>2. CASE UNCHANGED stand
      BY <1>2, <3>2 DEF stand, IInv, Typed, TypeOK
    <3> QED BY <1>4, <3>1, <3>2
  <2>4. Stays /\ (Lossy => Lossy')
    BY <1>1, <1>4, <2>2 DEF Stays, Lossy
  <2>5. ControlTyped' /\ Control'
    BY <1>1, <1>2, <1>4, <2>1, <2>2, <2>3
    DEF IInv, Typed, TypeOK, ControlTyped, Control, AuditOf, ThreadsOf, StopOf, LeaseOf, LastOf, Stages
  <2> QED BY <1>1, <1>4, <2>4, <2>5, Quiet DEF Data
<1> QED BY <1>3, <1>4 DEF Clear, Going

LEMMA StartAgainKeeps == ASSUME Bounds, IInv, StartAgain PROVE IInv'
<1>1. /\ UNCHANGED <<session, stopping, drain, reader, audit, ready, received, batch, arrived, before, sent, log, opened>>
      /\ caller = "idle" /\ caller' = "report" /\ session["registered"] /\ (Fault \/ Sound)
      /\ line' = <<>> \/ UNCHANGED line
  BY DEF StartAgain, queue, writes, Going
<1>2. lease \notin {"none", "handed"}
  BY <1>1 DEF IInv, LeaseOf
<1>3. lease' \in Leases /\ halt' \in BOOLEAN /\ lease' \notin {"none", "handed"}
  <2>1. CASE Quarantine(FALSE)
    BY <1>2, <2>1, QuarantineIs DEF IInv
  <2>2. CASE UNCHANGED stand
    BY <1>2, <2>2 DEF stand, IInv, Typed, TypeOK
  <2> QED BY <2>1, <2>2 DEF StartAgain
<1>4. Stays /\ (Lossy => Lossy')
  BY <1>1 DEF Stays, Lossy
<1>5. ControlTyped' /\ Control'
  BY <1>1, <1>3
  DEF IInv, Typed, TypeOK, ControlTyped, Control, AuditOf, ThreadsOf, StopOf, LeaseOf, LastOf, stopping, Stages
<1>6. CASE line' = <<>>
  BY <1>1, <1>4, <1>5, <1>6, LineCleared
<1>7. CASE UNCHANGED line
  BY <1>1, <1>4, <1>5, <1>7, Quiet DEF Data
<1> QED BY <1>1, <1>6, <1>7

-----------------------------------------------------------------------------
(* The caller: writing.                                                     *)

LEMMA WriteLocksKeeps == ASSUME Bounds, IInv, WriteLocks PROVE IInv'
<1>1. /\ UNCHANGED <<session, stand, stopping, drain, reader, ready, line, arrived, sent, log, opened, faults>>
      /\ caller = "write" /\ audit = "free" /\ audit' = "caller"
      /\ before' = [before EXCEPT ![sent + 1] = Len(arrived)]
      /\ batch' = received /\ received' = <<>> /\ caller' = (IF received = <<>> THEN "send" ELSE "flush")
  BY DEF WriteLocks, Going, wire
<1>2. batch = <<>> /\ reader \notin {"write", "final"}
  BY <1>1 DEF IInv, AuditOf
<1>3. Lossy => Lossy'
  BY <1>1 DEF Lossy
<1>4. QueueOf' /\ WriteOf' /\ LogOf' /\ WholeOf'
  BY <1>1, <1>2, <1>3, TakeAll
<1>5. ControlTyped'
  BY <1>1 DEF IInv, Typed, TypeOK, ControlTyped, stand, stopping, Stages
<1>6. lease \notin {"none", "handed"} /\ ~session["closed"]
  BY <1>1 DEF IInv, LeaseOf, StopOf
<1>7. Control'
  BY <1>1, <1>2, <1>6
  DEF IInv, Control, AuditOf, ThreadsOf, StopOf, LeaseOf, LastOf, stand, stopping
<1>8. before' \in [1..MaxWrites -> 0..MaxChunks]
  <2>1. Len(arrived) \in Nat /\ Len(line) \in Nat /\ Len(arrived) + Len(line) <= MaxChunks /\ MaxChunks \in Nat
    BY BeforeIs DEF IInv, Typed, TypeOK
  <2>2. Len(arrived) \in 0..MaxChunks
    BY <2>1
  <2> QED BY <1>1, <2>2, BeforeIs DEF IInv
<1> QED BY <1>1, <1>4, <1>5, <1>7, <1>8, Assemble DEF IInv, Typed, TypeOK, Sound

LEMMA WriteFlushesKeeps == ASSUME Bounds, IInv, WriteFlushes PROVE IInv'
<1>1. /\ UNCHANGED <<stopping, drain, reader, ready, received, line, arrived, before, sent, opened>>
      /\ caller = "flush" /\ batch' = <<>> /\ (Fault \/ Sound)
  BY DEF WriteFlushes, wire, writes
<1>2. /\ session \in [Flags -> BOOLEAN] /\ lease \notin {"none", "handed"} /\ ~session["closed"]
      /\ audit = "caller" /\ reader \notin {"write", "final"}
  BY <1>1 DEF IInv, Typed, TypeOK, LeaseOf, StopOf, AuditOf
<1>3. CASE LoggedBatch /\ caller' = "send" /\ UNCHANGED <<session, stand, audit>>
  <2>1. Lossy => Lossy'
    BY <1>1, <1>3 DEF Lossy
  <2>2. QueueOf' /\ WriteOf' /\ LogOf' /\ WholeOf' /\ log' \in Seq(Entries) /\ batch' \in Seq(Nat)
    BY <1>1, <1>3, <2>1, LogBatch
  <2>3. ControlTyped' /\ Control'
    BY <1>1, <1>2, <1>3
    DEF IInv, Typed, TypeOK, ControlTyped, Control, AuditOf, ThreadsOf, StopOf, LeaseOf, LastOf, stand, stopping, Stages
  <2> QED BY <1>1, <2>2, <2>3, Assemble DEF IInv, Typed, TypeOK
<1>4. CASE UNCHANGED log /\ caller' = "report" /\ audit' = "free" /\ Break({"dead", "active"}) /\ Quarantine(TRUE)
  <2>1. /\ session' \in [Flags -> BOOLEAN] /\ session'["broken"] = TRUE
        /\ session'["closed"] = session["closed"] /\ session'["open"] = session["open"]
        /\ session'["registered"] = session["registered"]
        /\ session'["active"] => session["active"]
    BY <1>2, <1>4, BreakIs
  <2>2. /\ lease' \in Leases /\ halt' \in BOOLEAN /\ lease' \notin {"none", "handed"}
    BY <1>2, <1>4, QuarantineIs DEF IInv
  <2>3. QueueOf' /\ WriteOf' /\ LogOf' /\ WholeOf' /\ batch' \in Seq(Nat)
    BY <1>1, <1>4, <2>1, BatchLost DEF Lossy
  <2>4. ControlTyped' /\ Control'
    BY <1>1, <1>2, <1>4, <2>1, <2>2
    DEF IInv, Typed, TypeOK, ControlTyped, Control, AuditOf, ThreadsOf, StopOf, LeaseOf, LastOf, stopping, Stages
  <2> QED BY <1>1, <1>4, <2>3, <2>4, Assemble DEF IInv, Typed, TypeOK
<1> QED BY <1>3, <1>4 DEF WriteFlushes, Going

LEMMA WriteSendsKeeps == ASSUME Bounds, IInv, WriteSends PROVE IInv'
<1>1. /\ UNCHANGED <<session, stopping, drain, reader, audit, ready, received, batch, line, arrived, before, log, opened>>
      /\ caller = "send" /\ caller' \in {"record", "error"} /\ sent' = sent + 1 /\ (Fault \/ Sound)
  BY DEF WriteSends, Going, queue, wire
<1>2. /\ lease \notin {"none", "handed"} /\ ~session["closed"] /\ sent < MaxWrites /\ before[sent + 1] <= Handed
  BY <1>1 DEF IInv, LeaseOf, StopOf, WriteOf
<1>3. lease' \in Leases /\ halt' \in BOOLEAN /\ lease' \notin {"none", "handed"}
  <2>1. CASE Quarantine(FALSE)
    BY <1>2, <2>1, QuarantineIs DEF IInv
  <2>2. CASE UNCHANGED stand
    BY <1>2, <2>2 DEF stand, IInv, Typed, TypeOK
  <2> QED BY <2>1, <2>2 DEF WriteSends
<1>4. ControlTyped' /\ Control'
  <2>1. ControlTyped'
    BY <1>1, <1>3 DEF IInv, Typed, TypeOK, ControlTyped, stopping, Stages
  <2>2. AuditOf' /\ ThreadsOf'
    BY <1>1 DEF IInv, AuditOf, ThreadsOf
  <2>3. StopOf' /\ LeaseOf' /\ LastOf'
    BY <1>1, <1>2, <1>3 DEF IInv, StopOf, LeaseOf, LastOf, stopping
  <2> QED BY <2>1, <2>2, <2>3 DEF Control
<1>5. sent \in Nat /\ MaxWrites \in Nat /\ sent' \in 0..MaxWrites /\ Handed' = Handed /\ Handed \in Nat
  BY <1>1, <1>2, BeforeIs DEF IInv, Handed, QueueOf
<1>6. /\ \A c \in 1..Len(arrived) : arrived[c] \in Nat /\ arrived[c] <= sent
      /\ \A c \in 1..Len(line) : line[c] \in Nat /\ line[c] <= sent
  BY DEF IInv, Typed, QueueOf
<1>7. QueueOf'
  <2>1. /\ \A c \in 1..Len(arrived) : arrived[c] <= sent + 1
        /\ \A c \in 1..Len(line) : line[c] <= sent + 1
    BY <1>5, <1>6
  <2> QED BY <1>1, <1>5, <2>1 DEF IInv, QueueOf
<1>8. WriteOf'
  <2>1. ASSUME NEW i \in 1..Len(log), log[i].kind = "rx" PROVE arrived[log[i].n] < sent + 1
    <3>1. log[i].n \in 1..Handed /\ Handed <= Len(arrived)
      BY <2>1 DEF IInv, LogOf, EntryOf, Handed, Typed
    <3>2. log[i].n \in 1..Len(arrived)
      <4>1. Len(arrived) \in Nat
        BY DEF IInv, Typed
      <4> QED BY <1>5, <3>1, <4>1
    <3> QED BY <1>5, <1>6, <3>2
  <2> QED BY <1>1, <1>2, <1>5, <2>1 DEF WriteOf
<1>9. LogOf'
  <2>1. ASSUME NEW i \in 1..Len(log) PROVE EntryOf(i)'
    <3>1. EntryOf(i)
      BY DEF IInv, LogOf
    <3> QED BY <1>1, <1>5, <3>1 DEF EntryOf
  <2>2. ASSUME NEW i \in 1..Len(log), NEW j \in 1..Len(log), i < j PROVE PairOf(i, j)'
    BY <1>1, <2>2 DEF IInv, LogOf, PairOf
  <2> QED BY <1>1, <2>1, <2>2 DEF LogOf
<1>10. WholeOf'
  BY <1>1, <1>5 DEF IInv, WholeOf
<1> QED BY <1>1, <1>4, <1>5, <1>7, <1>8, <1>9, <1>10, Assemble DEF IInv, Typed, TypeOK

\* The entry of a write.
LEMMA TxIs ==
    ASSUME Bounds, IInv, caller \in {"record", "error"}, caller' \in {"report", "unrecorded"}, Lossy => Lossy',
           UNCHANGED <<received, batch, line, arrived, before, sent>>, Logged(Entry("tx", sent))
    PROVE  QueueOf' /\ WriteOf' /\ LogOf' /\ WholeOf' /\ log' \in Seq(Entries)
<1>1. Entry("tx", sent) \in Entries /\ Entry("tx", sent).kind = "tx" /\ Entry("tx", sent).n = sent
  BY BeforeIs DEF Entry, Entries, IInv
<1>2. Stays
  BY DEF Stays
<1> QED BY <1>1, <1>2, LogOne DEF Logged

LEMMA WriteErrsKeeps == ASSUME Bounds, IInv, WriteErrs PROVE IInv'
<1>1. /\ UNCHANGED <<stopping, drain, reader, ready, received, batch, line, arrived, before, sent, opened>>
      /\ caller = "error" /\ caller' = "report" /\ audit' = "free" /\ (Fault \/ Sound)
  BY DEF WriteErrs, Going, queue, wire, writes
<1>2. /\ lease \notin {"none", "handed"} /\ ~session["closed"] /\ audit = "caller" /\ batch = <<>>
      /\ reader \notin {"write", "final"}
  BY <1>1 DEF IInv, LeaseOf, StopOf, AuditOf
<1>3. CASE Logged(Entry("tx", sent)) /\ UNCHANGED <<session, stand>>
  <2>1. Lossy => Lossy'
    BY <1>1, <1>3 DEF Lossy
  <2>2. QueueOf' /\ WriteOf' /\ LogOf' /\ WholeOf' /\ log' \in Seq(Entries)
    BY <1>1, <1>3, <2>1, TxIs
  <2>3. ControlTyped' /\ Control'
    BY <1>1, <1>2, <1>3
    DEF IInv, Typed, TypeOK, ControlTyped, Control, AuditOf, ThreadsOf, StopOf, LeaseOf, LastOf, stand, stopping, Stages
  <2> QED BY <1>1, <2>2, <2>3, Assemble DEF IInv, Typed, TypeOK
<1>4. CASE UNCHANGED log /\ Break({}) /\ Quarantine(TRUE)
  <2>1. audit' = IF audit = "caller" THEN "free" ELSE audit
    BY <1>1, <1>2
  <2> QED BY <1>1, <1>4, <2>1, CallBreaks DEF Data
<1> QED BY <1>3, <1>4 DEF WriteErrs

LEMMA WriteRecordsKeeps == ASSUME Bounds, IInv, WriteRecords PROVE IInv'
<1>1. /\ UNCHANGED <<session, stand, stopping, drain, reader, ready, received, batch, line, arrived, before, sent, opened>>
      /\ caller = "record" /\ caller' \in {"report", "unrecorded"} /\ audit' = "free" /\ (Fault \/ Sound)
      /\ Logged(Entry("tx", sent)) \/ UNCHANGED log
  BY DEF WriteRecords, Going, queue, wire, writes
<1>2. /\ lease \notin {"none", "handed"} /\ ~session["closed"] /\ audit = "caller" /\ batch = <<>>
      /\ reader \notin {"write", "final"}
  BY <1>1 DEF IInv, LeaseOf, StopOf, AuditOf
<1>3. Stays /\ (Lossy => Lossy')
  BY <1>1 DEF Stays, Lossy
<1>4. ControlTyped' /\ Control'
  BY <1>1, <1>2
  DEF IInv, Typed, TypeOK, ControlTyped, Control, AuditOf, ThreadsOf, StopOf, LeaseOf, LastOf, stand, stopping, Stages
<1>5. CASE Logged(Entry("tx", sent))
  <2>1. QueueOf' /\ WriteOf' /\ LogOf' /\ WholeOf' /\ log' \in Seq(Entries)
    BY <1>1, <1>3, <1>5, TxIs
  <2> QED BY <1>1, <1>4, <2>1, Assemble DEF IInv, Typed, TypeOK
<1>6. CASE UNCHANGED log
  BY <1>1, <1>3, <1>4, <1>6, Quiet DEF Data
<1> QED BY <1>1, <1>5, <1>6

\* The stop entry, or none: what the call does next says what it found.
LEMMA StopEntryIs ==
    ASSUME Bounds, IInv, StopEntry
    PROVE  /\ UNCHANGED <<stopping, drain, reader, audit, ready, received, batch, line, arrived, before, sent, opened>>
           /\ Fault \/ Sound
           /\ caller = "bye" /\ caller' \in {"report", "idle", "release", "stopped"}
           /\ session' \in [Flags -> BOOLEAN] /\ lease' \in Leases /\ halt' \in BOOLEAN
           /\ session'["closed"] = session["closed"] /\ session'["open"] = session["open"]
           /\ session'["active"] => session["active"]
           /\ session["broken"] => session'["broken"]
           /\ caller' \in {"release", "stopped"} => session["closed"]
           /\ lease' \in {"none", "handed"} => caller' = "idle" /\ session["closed"] /\ ~session'["registered"]
           /\ Logged(Entry("stop", 0)) \/ (UNCHANGED log /\ session'["broken"])
<1>1. /\ UNCHANGED <<stopping, drain, reader, audit, ready, received, batch, line, arrived, before, sent, opened>>
      /\ caller = "bye" /\ (Fault \/ Sound)
  BY DEF StopEntry, queue, wire, writes
<1>2. /\ session \in [Flags -> BOOLEAN] /\ lease \in Leases /\ halt \in BOOLEAN
      /\ lease \notin {"none", "handed"} /\ (session["closed"] <=> ~failed)
  BY <1>1 DEF IInv, Typed, TypeOK, LeaseOf, StopOf
<1>3. CASE /\ caller' = "report" \/ (session["closed"] /\ caller' \in {"release", "stopped"})
           /\ UNCHANGED <<session, stand>> /\ Logged(Entry("stop", 0))
  BY <1>1, <1>2, <1>3 DEF stand
<1>4. CASE /\ session["closed"] /\ caller' = "idle" /\ HandOver
           /\ Logged(Entry("stop", 0)) \/ UNCHANGED log
  BY <1>1, <1>2, <1>4, HandOverIs
<1>5. CASE /\ caller' = "report" /\ Break({}) /\ Quarantine(TRUE)
           /\ Logged(Entry("stop", 0)) \/ UNCHANGED log
  <2>1. /\ session' \in [Flags -> BOOLEAN] /\ session'["broken"] = TRUE
        /\ session'["closed"] = session["closed"] /\ session'["open"] = session["open"]
        /\ session'["active"] => session["active"]
    BY <1>2, <1>5, BreakIs
  <2>2. lease' \in Leases /\ halt' \in BOOLEAN /\ lease' \notin {"none", "handed"}
    BY <1>2, <1>5, QuarantineIs DEF IInv
  <2> QED BY <1>1, <1>5, <2>1, <2>2
<1> QED BY <1>2, <1>3, <1>4, <1>5 DEF StopEntry, Going

LEMMA StopEntryKeeps == ASSUME Bounds, IInv, StopEntry PROVE IInv'
<1>1. /\ UNCHANGED <<stopping, drain, reader, audit, ready, received, batch, line, arrived, before, sent, opened>>
      /\ Fault \/ Sound
      /\ caller = "bye" /\ caller' \in {"report", "idle", "release", "stopped"}
      /\ session' \in [Flags -> BOOLEAN] /\ lease' \in Leases /\ halt' \in BOOLEAN
      /\ session'["closed"] = session["closed"] /\ session'["open"] = session["open"]
      /\ session'["active"] => session["active"]
      /\ session["broken"] => session'["broken"]
      /\ caller' \in {"release", "stopped"} => session["closed"]
      /\ lease' \in {"none", "handed"} => caller' = "idle" /\ session["closed"] /\ ~session'["registered"]
      /\ Logged(Entry("stop", 0)) \/ (UNCHANGED log /\ session'["broken"])
  BY StopEntryIs
<1>2. Stays /\ (Lossy => Lossy')
  BY <1>1 DEF Stays, Lossy
<1>3. ControlTyped'
  BY <1>1 DEF IInv, Typed, TypeOK, ControlTyped, stopping, Stages
<1>4. AuditOf' /\ ThreadsOf'
  BY <1>1 DEF IInv, AuditOf, ThreadsOf
<1>5. StopOf' /\ LeaseOf'
  BY <1>1 DEF IInv, StopOf, LeaseOf, stopping
<1>6. CASE Logged(Entry("stop", 0))
  <2>1. Entry("stop", 0) \in Entries /\ Entry("stop", 0).kind = "stop"
    BY DEF Entry, Entries
  <2>2. /\ QueueOf' /\ WriteOf' /\ LogOf' /\ WholeOf' /\ log' \in Seq(Entries)
        /\ Len(log') = Len(log) + 1 /\ log'[Len(log')] = Entry("stop", 0)
    BY <1>1, <1>2, <1>6, <2>1, LogOne DEF Logged
  <2>3. LastOf'
    <3>1. Len(log) \in Nat
      BY DEF IInv, Typed
    <3> QED BY <2>1, <2>2, <3>1 DEF LastOf
  <2> QED BY <1>1, <1>3, <1>4, <1>5, <2>2, <2>3, Assemble DEF IInv, Typed, TypeOK, Control
<1>7. CASE UNCHANGED log /\ session'["broken"]
  <2>1. LastOf'
    BY <1>7 DEF LastOf
  <2> QED BY <1>1, <1>2, <1>3, <1>4, <1>5, <1>7, <2>1, Quiet DEF Data, Control
<1> QED BY <1>1, <1>6, <1>7

-----------------------------------------------------------------------------
(* The invariant.                                                           *)

LEMMA InitHolds == Bounds /\ Init => IInv
<1> SUFFICES ASSUME Bounds, Init PROVE IInv
  OBVIOUS
<1>1. received = <<>> /\ batch = <<>> /\ line = <<>> /\ arrived = <<>> /\ log = <<>> /\ sent = 0
  BY DEF Init
<1>2. Len(received) = 0 /\ Len(batch) = 0 /\ Len(line) = 0 /\ Len(arrived) = 0 /\ Len(log) = 0
  BY <1>1
<1>3. Handed = 0
  BY <1>2 DEF Handed
<1>4. ~session["closed"] /\ ~session["open"] /\ ~session["registered"] /\ session \in [Flags -> BOOLEAN]
  BY DEF Init, Flags
<1>5. Typed
  <2>1. /\ {MaxChunks, MaxWrites, MaxSessions, MaxFaults} \subseteq Nat
        /\ sent = 0 /\ opened = 0 /\ faults = 0 /\ before = [w \in 1..MaxWrites |-> 0]
    BY DEF Init, Bounds
  <2>2. /\ sent \in 0..MaxWrites /\ before \in [1..MaxWrites -> 0..MaxChunks]
        /\ opened \in 0..MaxSessions /\ faults \in 0..MaxFaults
    BY <2>1
  <2>3. Len(arrived) + Len(line) <= MaxChunks
    BY <1>2, <2>1
  <2>4. /\ lease \in Leases /\ halt \in BOOLEAN /\ caller \in Stages /\ failed \in BOOLEAN
        /\ why = "requested" /\ drain = "off" /\ reader = "off" /\ audit = "free" /\ ready \in BOOLEAN
    BY DEF Init, Stages, Leases
  <2>5. TypeOK
    BY <1>4, <2>2, <2>3, <2>4 DEF TypeOK
  <2>6. /\ log \in Seq(Entries) /\ received \in Seq(Nat) /\ batch \in Seq(Nat)
        /\ line \in Seq(Nat) /\ arrived \in Seq(Nat)
    BY <1>1
  <2> QED BY <2>5, <2>6 DEF Typed
<1>6. AuditOf /\ ThreadsOf /\ StopOf /\ LeaseOf /\ LastOf
  BY <1>4 DEF Init, AuditOf, ThreadsOf, StopOf, LeaseOf, LastOf
<1>7. QueueOf /\ WriteOf /\ LogOf /\ WholeOf
  BY <1>1, <1>2, <1>3 DEF Init, QueueOf, WriteOf, LogOf, WholeOf
<1> QED BY <1>5, <1>6, <1>7 DEF IInv

LEMMA StutterKeeps == ASSUME Bounds, IInv, UNCHANGED vars PROVE IInv'
<1>1. UNCHANGED <<Data, opened>> /\ Sound /\ Stays /\ (Lossy => Lossy')
  BY DEF vars, queue, wire, writes, Data, Sound, Stays, Lossy
<1>2. ControlTyped' /\ Control'
  BY DEF vars, stand, stopping, queue, IInv, Typed, TypeOK, ControlTyped, Control, AuditOf, ThreadsOf, StopOf, LeaseOf, LastOf
<1> QED BY <1>1, <1>2, Quiet

LEMMA NextKeeps == ASSUME Bounds, IInv, Next PROVE IInv'
<1>1. CASE BoardSends \/ OthersHalt \/ Recovered \/ StoodDown
  BY <1>1, BoardSendsKeeps, OthersHaltKeeps, RecoveredKeeps, StoodDownKeeps
<1>2. CASE Drain
  BY <1>2, DrainReadsKeeps, DrainGotKeeps, DrainEmptyKeeps, DrainFailsKeeps, DrainStopsKeeps DEF Drain
<1>3. CASE Reader \/ ReaderTimesOut
  BY <1>3, ReaderLoopsKeeps, ReaderWakesKeeps, ReaderTakesKeeps, ReaderWritesKeeps, ReaderBreaksKeeps,
     ReaderLeavesKeeps, ReaderErrsKeeps, ReaderTimesOutKeeps DEF Reader
<1>4. CASE Open \/ StartAgain \/ Write \/ StopBegins
  BY <1>4, OpenKeeps, StartAgainKeeps, WriteKeeps, StopBeginsKeeps
<1>5. CASE StartEntry \/ Clear \/ StartReader \/ Report
  BY <1>5, StartEntryKeeps, ClearKeeps, StartReaderKeeps, ReportKeeps
<1>6. CASE WriteLocks \/ WriteFlushes \/ WriteSends \/ WriteErrs \/ WriteRecords \/ WriteUnrecorded
  BY <1>6, WriteLocksKeeps, WriteFlushesKeeps, WriteSendsKeeps, WriteErrsKeeps, WriteRecordsKeeps, WriteUnrecordedKeeps
<1>7. CASE StopCloses \/ StopJoins \/ StopEntry \/ StopReports \/ StopReleases
  BY <1>7, StopClosesKeeps, StopJoinsKeeps, StopEntryKeeps, StopReportsKeeps, StopReleasesKeeps
<1> QED BY <1>1, <1>2, <1>3, <1>4, <1>5, <1>6, <1>7 DEF Next, Continues

\* What the proofs stand on: who holds the audit lock, which threads are left,
\* what a stop has done, and what is on the log.
THEOREM AlwaysIInv == Bounds => (Spec => []IInv)
<1> SUFFICES ASSUME Bounds PROVE Spec => []IInv
  OBVIOUS
<1>1. Init => IInv
  BY InitHolds
<1>2. IInv /\ [Next]_vars => IInv'
  BY NextKeeps, StutterKeeps
<1> QED BY <1>1, <1>2, PTL DEF Spec

\* The session's state is typed, and the bounds are kept.
THEOREM TypesHold == Bounds => (Spec => []TypeOK)
<1> SUFFICES ASSUME Bounds PROVE Spec => []TypeOK
  OBVIOUS
<1>1. Spec => []IInv
  BY AlwaysIInv
<1>2. IInv => TypeOK
  BY DEF IInv, Typed
<1> QED BY <1>1, <1>2, PTL

\* The invariant speaks of each of a session's properties.
LEMMA OrderIsTold == Bounds /\ IInv => LogTellsOrder
<1> SUFFICES ASSUME Bounds, IInv, NEW w \in 1..sent, NEW c \in 1..Len(arrived),
                    NEW i \in PlacesOf(Entry("tx", w)), NEW j \in PlacesOf(Entry("rx", c))
             PROVE  (c <= before[w] => j < i) /\ (arrived[c] >= w => i < j)
  BY DEF LogTellsOrder
<1>1. PICK m \in Nat : m = Len(log) /\ DOMAIN log = 1..m
  BY DEF IInv, Typed
<1>2. /\ i \in 1..m /\ log[i].kind = "tx" /\ log[i].n = w
      /\ j \in 1..m /\ log[j].kind = "rx" /\ log[j].n = c
  BY <1>1 DEF PlacesOf, Entry
<1>3. before[w] \in Nat /\ arrived[c] \in Nat /\ w \in Nat /\ c \in Nat
  BY BeforeIs DEF IInv, Typed
<1>4. i < j => before[w] < c
  BY <1>1, <1>2 DEF IInv, LogOf, PairOf
<1>5. j < i => arrived[c] < w
  BY <1>1, <1>2 DEF IInv, LogOf, PairOf
<1>6. i # j
  BY <1>2
<1> QED BY <1>2, <1>3, <1>4, <1>5, <1>6

LEMMA AllIsLogged == Bounds /\ IInv => LogHasAll
<1> SUFFICES ASSUME Bounds, IInv, session["closed"], ~session["broken"], caller = "idle"
             PROVE  /\ log[Len(log)].kind = "stop"
                    /\ \A c \in 1..Len(arrived) : \E i \in PlacesOf(Entry("rx", c)) : PlacesOf(Entry("rx", c)) = {i}
                    /\ \A i, j \in DOMAIN log :
                          log[i].kind = "rx" /\ log[j].kind = "rx" /\ i < j => log[i].n < log[j].n
  BY DEF LogHasAll
<1>1. log[Len(log)].kind = "stop"
  BY DEF IInv, LastOf
<1>2. PICK m \in Nat : m = Len(log) /\ DOMAIN log = 1..m
  BY DEF IInv, Typed
<1>3. \A i, j \in 1..m : log[i].kind = "rx" /\ log[j].kind = "rx" /\ i < j => log[i].n < log[j].n
  BY <1>2 DEF IInv, LogOf, PairOf
<1>4. reader = "off" /\ received = <<>> /\ batch = <<>>
  BY DEF IInv, StopOf, ThreadsOf, AuditOf
<1>5. Handed = Len(arrived)
  BY <1>4 DEF Handed, IInv, Typed
<1>6. ASSUME NEW c \in 1..Len(arrived) PROVE \E i \in PlacesOf(Entry("rx", c)) : PlacesOf(Entry("rx", c)) = {i}
  <2>1. PICK i \in 1..m : log[i] = Entry("rx", c)
    BY <1>2, <1>4, <1>5 DEF IInv, WholeOf
  <2>2. i \in PlacesOf(Entry("rx", c))
    BY <1>2, <2>1 DEF PlacesOf
  <2>3. ASSUME NEW j \in PlacesOf(Entry("rx", c)) PROVE j = i
    <3>1. j \in 1..m /\ log[j] = Entry("rx", c)
      BY <1>2 DEF PlacesOf
    <3>2. log[i].kind = "rx" /\ log[j].kind = "rx" /\ log[i].n = c /\ log[j].n = c /\ c \in Nat
      BY <2>1, <3>1 DEF Entry
    <3> QED BY <1>3, <3>1, <3>2
  <2> QED BY <2>2, <2>3
<1> QED BY <1>1, <1>2, <1>3, <1>6

LEMMA PortIsHeld == IInv => PortHeld
<1> SUFFICES ASSUME IInv, lease \in {"none", "handed"}
             PROVE  ~session["open"] /\ reader = "off" /\ drain = "off" /\ audit = "free"
  BY DEF PortHeld
<1>1. caller = "idle" /\ reader = "off" /\ ~session["open"]
  BY DEF IInv, LeaseOf
<1>2. drain = "off"
  BY <1>1 DEF IInv, ThreadsOf
<1>3. audit = "free"
  BY <1>1 DEF IInv, AuditOf, Typed, TypeOK
<1> QED BY <1>1, <1>2, <1>3

\* For any bounds: the log tells the order on the line, is whole and closed by
\* its stop entry when the session closed well, and a port given back, or handed
\* to the incident, has neither a handle nor a thread left (comports.py:1315-1331,
\* 855-859, 1850-1913).
THEOREM SessionIsHonest == Bounds => (Spec => []SessionHonest)
<1> SUFFICES ASSUME Bounds PROVE Spec => []SessionHonest
  OBVIOUS
<1>1. Spec => []IInv
  BY AlwaysIInv
<1>2. IInv => SessionHonest
  BY OrderIsTold, AllIsLogged, PortIsHeld DEF SessionHonest, LogHonest
<1> QED BY <1>1, <1>2, PTL
=============================================================================
