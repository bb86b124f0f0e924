---------------------------- MODULE SerialSession ----------------------------
(***************************************************************************)
(* One COM port of comports.py: its session, the thread that drains the    *)
(* port, the thread that writes what was drained to the session's log, and *)
(* the one caller, which writes to the port, logs what it sent and stops   *)
(* the session.                                                            *)
(*                                                                         *)
(* Input is counted in chunks, numbered as the drain receives them.  A     *)
(* step is what a thread does between two points where another thread can  *)
(* act: a lock, a port operation or a file operation.  The buffer that     *)
(* com_read empties is left out, the log is not.                           *)
(***************************************************************************)
EXTENDS SerialPromise

CONSTANTS
    MaxChunks,    \* bound: chunks the board sends in a session
    MaxWrites,    \* bound: writes that reach the line in a session
    MaxSessions,  \* bound: sessions opened
    MaxFaults     \* bound: operations that fail

VARIABLES
    halt,     \* incident_stands: an audit incident of this server
    why,      \* why a session is being stopped
    failed,   \* did a step of this stop fail?
    ready,    \* received_ready
    received, \* drained and in nobody's hands
    batch,    \* taken by log_received and not yet on the log
    line,     \* chunks on their way in, each the writes sent before it
    opened,   \* sessions opened
    faults    \* operations that failed

stand == <<lease, halt>>
stopping == <<why, failed>>
queue == <<received, batch>>
wire == <<line, arrived>>
writes == <<before, sent>>
vars == <<session, stand, caller, stopping, drain, reader, audit, ready, queue, wire, writes, log, opened, faults>>

\* dead: reader_error is set.  broken: audit_broken.  closed: handle_closed.
\* readable: com_read_allowed.  unread: read_failure is set.
Flags == {"registered", "open", "active", "dead", "broken", "closed", "readable", "unread"}
Stages == {"idle", "opened", "clear", "start", "write", "flush", "send", "error", "record", "unrecorded",
          "report", "stopping", "joining", "bye", "stopped", "release"}
Leases == {"none", "active", "cleanup", "retry", "halted", "handed"}

TypeOK ==
    /\ session \in [Flags -> BOOLEAN] /\ lease \in Leases /\ halt \in BOOLEAN
    /\ caller \in Stages /\ failed \in BOOLEAN
    /\ why \in {"requested", "replaced", "audit_failed", "clear_failed"}
    /\ drain \in {"off", "loop", "read"}
    /\ reader \in {"off", "loop", "wait", "take", "write", "broken", "leaving", "last", "final", "error"}
    /\ audit \in {"free", "caller", "reader"} /\ ready \in BOOLEAN
    /\ Len(arrived) + Len(line) <= MaxChunks
    /\ sent \in 0..MaxWrites /\ before \in [1..MaxWrites -> 0..MaxChunks]
    /\ opened \in 0..MaxSessions /\ faults \in 0..MaxFaults

Init ==
    /\ session = [f \in Flags |-> FALSE] /\ lease = "none" /\ halt = FALSE
    /\ caller = "idle" /\ why = "requested" /\ failed = FALSE
    /\ drain = "off" /\ reader = "off" /\ audit = "free" /\ ready = FALSE
    /\ received = <<>> /\ batch = <<>> /\ line = <<>> /\ arrived = <<>>
    /\ before = [w \in 1..MaxWrites |-> 0] /\ sent = 0 /\ log = <<>>
    /\ opened = 0 /\ faults = 0

-----------------------------------------------------------------------------
Fault == faults < MaxFaults /\ faults' = faults + 1
Sound == UNCHANGED faults
Going(step) == caller' = step
Logged(entry) == log' = Append(log, entry)

\* A chunk is an `rx` of its own, though a batch is one line of the log.
LoggedBatch == log' = log \o [i \in DOMAIN batch |-> Entry("rx", batch[i])]

\* quarantine, of a lease that is still this owner's.
Quarantine(broken) ==
    IF lease \in {"none", "handed"} THEN UNCHANGED stand
    ELSE /\ lease' = IF broken \/ lease = "halted" THEN "halted" ELSE "cleanup"
         /\ halt' = (halt \/ broken)

Break(also) == session' = [f \in Flags |-> IF f = "broken" THEN TRUE ELSE IF f \in also THEN f = "dead" ELSE session[f]]

\* release, whose record writes may fail; hand_over_to_incident.
Release(is) == lease \in {"active", "retry"} /\ lease' = is /\ UNCHANGED halt
MayHandOver == halt /\ lease \in {"cleanup", "retry", "halted"}
Gone == [session EXCEPT !["registered"] = FALSE]
HandOver == lease' = "handed" /\ halt' = TRUE /\ session' = [Gone EXCEPT !["broken"] = TRUE]

\* _session_is_active and _active_session.
Alive == session["active"] /\ ~session["dead"] /\ session["open"]
Usable == session["registered"] /\ ~halt /\ ~session["broken"] /\ lease = "active" /\ Alive

-----------------------------------------------------------------------------
(* The board and the rest of the server.                                   *)

BoardSends ==
    /\ session["open"] /\ Len(arrived) + Len(line) < MaxChunks
    /\ line' = Append(line, sent)
    /\ UNCHANGED <<session, stand, caller, stopping, drain, reader, audit, ready, queue, arrived, writes, log, opened, faults>>

\* Another session breaks its audit; the operator signs; an incident without a
\* broken audit is stood down by the next call.
OthersHalt ==
    /\ ~halt /\ Fault /\ halt' = TRUE
    /\ UNCHANGED <<session, lease, caller, stopping, drain, reader, audit, ready, queue, wire, writes, log, opened>>
Recovered ==
    /\ halt /\ lease \in {"none", "handed"} /\ halt' = FALSE /\ lease' = "none"
    /\ UNCHANGED <<session, caller, stopping, drain, reader, audit, ready, queue, wire, writes, log, opened, faults>>
StoodDown ==
    /\ caller = "idle" /\ ~halt /\ lease \in {"cleanup", "retry"} /\ lease' = "active"
    /\ UNCHANGED <<session, halt, caller, stopping, drain, reader, audit, ready, queue, wire, writes, log, opened, faults>>

-----------------------------------------------------------------------------
(* The drain: the port's one reader, which never waits for the log.        *)

DrainReads ==
    /\ drain = "loop" /\ session["active"] /\ drain' = "read"
    /\ UNCHANGED <<session, stand, caller, stopping, reader, audit, ready, queue, wire, writes, log, opened, faults>>

\* A read ends with a chunk, with nothing, or with the port's error.
DrainGot ==
    /\ drain = "read" /\ line # <<>> /\ drain' = "loop" /\ ready' = TRUE
    /\ arrived' = Append(arrived, Head(line)) /\ line' = Tail(line)
    /\ received' = Append(received, Len(arrived) + 1)
    /\ UNCHANGED <<session, stand, caller, stopping, reader, audit, batch, writes, log, opened, faults>>
DrainEmpty ==
    /\ drain = "read" /\ line = <<>> /\ drain' = "loop"
    /\ UNCHANGED <<session, stand, caller, stopping, reader, audit, ready, queue, wire, writes, log, opened, faults>>
DrainFails ==
    /\ drain = "read" /\ (Fault \/ (~session["open"] /\ Sound))
    /\ drain' = "off" /\ ready' = TRUE
    /\ session' = IF session["active"] THEN [session EXCEPT !["dead"] = TRUE, !["unread"] = TRUE] ELSE session
    /\ UNCHANGED <<stand, caller, stopping, reader, audit, queue, wire, writes, log, opened>>
DrainStops ==
    /\ drain = "loop" /\ ~session["active"] /\ drain' = "off" /\ ready' = TRUE
    /\ UNCHANGED <<session, stand, caller, stopping, reader, audit, queue, wire, writes, log, opened, faults>>

Drain == DrainReads \/ DrainGot \/ DrainEmpty \/ DrainFails \/ DrainStops

-----------------------------------------------------------------------------
(* The log writer: one entry per batch until the drain has ended, and one   *)
(* more after it.                                                           *)

ReaderLoops ==
    /\ reader = "loop" /\ reader' = IF drain = "off" THEN "last" ELSE "wait"
    /\ UNCHANGED <<session, stand, caller, stopping, drain, audit, ready, queue, wire, writes, log, opened, faults>>
ReaderWakes ==
    /\ reader = "wait" /\ ready /\ ready' = FALSE /\ reader' = "take"
    /\ UNCHANGED <<session, stand, caller, stopping, drain, audit, queue, wire, writes, log, opened, faults>>

\* The wait's timeout.  It is not fair: it bounds how late an ended drain is
\* noticed, never how late input is logged.
ReaderTimesOut ==
    /\ reader = "wait" /\ ready' = FALSE /\ reader' = "take"
    /\ UNCHANGED <<session, stand, caller, stopping, drain, audit, queue, wire, writes, log, opened, faults>>

\* log_received: the queue is emptied and written under audit_lock.
ReaderTakes ==
    /\ reader \in {"take", "last"} /\ audit = "free"
    /\ IF received = <<>>
       THEN reader' = (IF reader = "take" THEN "loop" ELSE "error") /\ UNCHANGED <<audit, queue>>
       ELSE /\ reader' = IF reader = "take" THEN "write" ELSE "final"
            /\ audit' = "reader" /\ batch' = received /\ received' = <<>>
    /\ UNCHANGED <<session, stand, caller, stopping, drain, ready, wire, writes, log, opened, faults>>

\* Mutation: the event is cleared once more, after the entry.
MReaderWrites ==
    /\ reader \in {"write", "final"} /\ audit' = "free" /\ batch' = <<>>
    /\ \/ Sound /\ LoggedBatch /\ ready' = FALSE /\ reader' = IF reader = "write" THEN "loop" ELSE "error"
       \/ Fault /\ UNCHANGED <<log, ready>> /\ reader' = "broken"
    /\ UNCHANGED <<session, stand, caller, stopping, drain, received, wire, writes, opened>>

ReaderWrites ==
    /\ reader \in {"write", "final"} /\ audit' = "free" /\ batch' = <<>>
    /\ \/ Sound /\ LoggedBatch /\ reader' = IF reader = "write" THEN "loop" ELSE "error"
       \/ Fault /\ UNCHANGED log /\ reader' = "broken"
    /\ UNCHANGED <<session, stand, caller, stopping, drain, ready, received, wire, writes, opened>>

\* The lock is free before the session is told its log is broken.
ReaderBreaks ==
    /\ reader = "broken" /\ reader' = "leaving"
    /\ Break({"dead", "active"}) /\ Quarantine(TRUE)
    /\ UNCHANGED <<caller, stopping, drain, audit, ready, queue, wire, writes, log, opened, faults>>
ReaderLeaves ==
    /\ reader = "leaving" /\ drain = "off" /\ reader' = "off"
    /\ UNCHANGED <<session, stand, caller, stopping, drain, audit, ready, queue, wire, writes, log, opened, faults>>

\* The port's error is the last entry; one that cannot be written is lost.
ReaderErrs ==
    /\ reader = "error" /\ audit = "free" /\ reader' = "off"
    /\ \/ session["unread"] /\ Sound /\ Logged(Entry("error", 0))
       \/ session["unread"] /\ Fault /\ UNCHANGED log
       \/ ~session["unread"] /\ Sound /\ UNCHANGED log
    /\ UNCHANGED <<session, stand, caller, stopping, drain, audit, ready, queue, wire, writes, opened>>

Reader == ReaderLoops \/ ReaderWakes \/ ReaderTakes \/ ReaderWrites \/ ReaderBreaks \/ ReaderLeaves \/ ReaderErrs

-----------------------------------------------------------------------------
(* The caller: session_start.                                              *)

\* A fresh session, its threads not yet started.
Open ==
    /\ caller = "idle" /\ ~session["registered"] /\ ~halt /\ lease = "none"
    /\ opened < MaxSessions /\ opened' = opened + 1
    /\ Going("opened") /\ lease' = "active"
    /\ \E readable \in BOOLEAN :
          session' = [f \in Flags |-> f \in {"registered", "open", "active"} \/ (f = "readable" /\ readable)]
    /\ received' = <<>> /\ line' = <<>> /\ arrived' = <<>> /\ log' = <<>> /\ sent' = 0
    /\ before' = [w \in 1..MaxWrites |-> 0] /\ ready' = FALSE
    /\ UNCHANGED <<halt, stopping, drain, reader, audit, batch, faults>>
StartEntry ==
    /\ caller = "opened"
    /\ \/ /\ Sound /\ Logged(Entry("start", 0)) /\ Going(IF session["readable"] THEN "clear" ELSE "start")
          /\ UNCHANGED <<session, stopping>>
       \/ /\ Fault /\ UNCHANGED log /\ Break({"active"}) /\ Going("stopping")
          /\ why' = "audit_failed" /\ failed' = FALSE
    /\ UNCHANGED <<stand, drain, reader, audit, ready, queue, wire, writes, opened>>

\* _clear_buffers: what the port had not delivered is thrown away.
Clear ==
    /\ caller = "clear"
    /\ \/ Sound /\ line' = <<>> /\ Going("start") /\ UNCHANGED <<session, stand, stopping>>
       \/ /\ Fault /\ UNCHANGED line /\ Going("stopping")
          /\ session' = [session EXCEPT !["active"] = FALSE]
          /\ Quarantine(FALSE) \/ UNCHANGED stand
          /\ why' = "clear_failed" /\ failed' = FALSE
    /\ UNCHANGED <<drain, reader, audit, ready, queue, arrived, writes, log, opened>>
StartReader ==
    /\ caller = "start" /\ Going("report")
    /\ IF session["readable"] THEN reader' = "loop" /\ drain' = "loop" ELSE UNCHANGED <<reader, drain>>
    /\ UNCHANGED <<session, stand, stopping, audit, ready, queue, wire, writes, log, opened, faults>>

\* session_start on a session that runs: its buffers are cleared, beside the
\* drain but never under a read of it.
StartAgain ==
    /\ caller = "idle" /\ session["registered"] /\ Alive /\ session["readable"] /\ drain # "read"
    /\ Going("report")
    /\ \/ Sound /\ line' = <<>> /\ UNCHANGED stand
       \/ Fault /\ UNCHANGED line /\ Quarantine(FALSE)
    /\ UNCHANGED <<session, stopping, drain, reader, audit, ready, queue, arrived, writes, log, opened>>

\* _write_report of a call the session is still registered for.
Report ==
    /\ caller = "report" /\ Going("idle")
    /\ \/ Sound /\ UNCHANGED <<session, stand>>
       \/ Fault /\ Break({}) /\ Quarantine(TRUE)
    /\ UNCHANGED <<stopping, drain, reader, audit, ready, queue, wire, writes, log, opened>>

-----------------------------------------------------------------------------
(* The caller: write_bytes.                                                *)

Write ==
    /\ caller = "idle" /\ Usable /\ sent < MaxWrites /\ Going("write")
    /\ UNCHANGED <<session, stand, stopping, drain, reader, audit, ready, queue, wire, writes, log, opened, faults>>

\* Mutation: what was received is left to the reader's next turn.
MWriteLocks ==
    /\ caller = "write" /\ audit = "free" /\ audit' = "caller" /\ Going("send")
    /\ before' = [before EXCEPT ![sent + 1] = Len(arrived)]
    /\ UNCHANGED <<session, stand, stopping, drain, reader, ready, queue, wire, sent, log, opened, faults>>

\* The lock is held until the write is on the log; what had been received is
\* logged first.
WriteLocks ==
    /\ caller = "write" /\ audit = "free" /\ audit' = "caller"
    /\ before' = [before EXCEPT ![sent + 1] = Len(arrived)]
    /\ batch' = received /\ received' = <<>>
    /\ Going(IF received = <<>> THEN "send" ELSE "flush")
    /\ UNCHANGED <<session, stand, stopping, drain, reader, ready, wire, sent, log, opened, faults>>
WriteFlushes ==
    /\ caller = "flush" /\ batch' = <<>>
    /\ \/ Sound /\ LoggedBatch /\ Going("send") /\ UNCHANGED <<session, stand, audit>>
       \/ /\ Fault /\ UNCHANGED log /\ Going("report") /\ audit' = "free"
          /\ Break({"dead", "active"}) /\ Quarantine(TRUE)
    /\ UNCHANGED <<stopping, drain, reader, ready, received, wire, writes, opened>>

\* The bytes go out, or as many of them as nobody can tell.
WriteSends ==
    /\ caller = "send" /\ sent' = sent + 1
    /\ \/ Sound /\ Going("record") /\ UNCHANGED stand
       \/ Fault /\ Going("error") /\ Quarantine(FALSE)
    /\ UNCHANGED <<session, stopping, drain, reader, audit, ready, queue, wire, before, log, opened>>
WriteErrs ==
    /\ caller = "error" /\ Going("report") /\ audit' = "free"
    /\ \/ Sound /\ Logged(Entry("tx", sent)) /\ UNCHANGED <<session, stand>>
       \/ Fault /\ UNCHANGED log /\ Break({}) /\ Quarantine(TRUE)
    /\ UNCHANGED <<stopping, drain, reader, ready, queue, wire, writes, opened>>
WriteRecords ==
    /\ caller = "record" /\ audit' = "free"
    /\ \/ Sound /\ Logged(Entry("tx", sent)) /\ Going("report")
       \/ Fault /\ UNCHANGED log /\ Going("unrecorded")
    /\ UNCHANGED <<session, stand, stopping, drain, reader, ready, queue, wire, writes, opened>>
WriteUnrecorded ==
    /\ caller = "unrecorded" /\ Going("report") /\ Break({}) /\ Quarantine(TRUE)
    /\ UNCHANGED <<stopping, drain, reader, audit, ready, queue, wire, writes, log, opened, faults>>

-----------------------------------------------------------------------------
(* The caller: session_stop, and the stop of a session that is replaced.   *)

\* A session whose handle an earlier stop closed has only its lease left.
StopBegins ==
    /\ caller = "idle" /\ session["registered"]
    /\ \E reason \in {"requested"} \cup (IF Alive THEN {} ELSE {"replaced"}) :
          /\ why' = reason
          /\ IF ~session["closed"]
             THEN Going("stopping") /\ session' = [session EXCEPT !["active"] = FALSE] /\ UNCHANGED stand
             ELSE IF ~session["broken"]
             THEN Going(IF reason = "replaced" THEN "release" ELSE "stopped") /\ UNCHANGED <<session, stand>>
             ELSE IF MayHandOver
             THEN Going("idle") /\ HandOver
             ELSE Going("report") /\ UNCHANGED <<session, stand>>
    /\ failed' = FALSE
    /\ UNCHANGED <<drain, reader, audit, ready, queue, wire, writes, log, opened, faults>>

\* The handle is closed, whether or not the call that does it raises.
StopCloses ==
    /\ caller = "stopping" /\ Going("joining")
    /\ \/ Sound /\ session' = [session EXCEPT !["open"] = FALSE] /\ UNCHANGED failed
       \/ /\ Fault /\ failed' = TRUE
          /\ \E open \in BOOLEAN : session' = [session EXCEPT !["open"] = open /\ @]
    /\ UNCHANGED <<stand, why, drain, reader, audit, ready, queue, wire, writes, log, opened>>

\* Mutation: the stop entry does not wait for the reader.
MStopJoins ==
    /\ caller = "joining" /\ Going("bye") /\ Sound
    /\ session' = [session EXCEPT !["closed"] = ~failed]
    /\ UNCHANGED <<failed, stand, why, drain, reader, audit, ready, queue, wire, writes, log, opened>>

\* Mutation: a reader that does not end in time is taken for one that ended.
MStopJoinsLate ==
    /\ caller = "joining" /\ Going("bye")
    /\ IF reader = "off" THEN Sound ELSE Fault
    /\ UNCHANGED failed
    /\ session' = [session EXCEPT !["closed"] = ~failed]
    /\ UNCHANGED <<stand, why, drain, reader, audit, ready, queue, wire, writes, log, opened>>

\* The reader is waited for, a while.
StopJoins ==
    /\ caller = "joining" /\ Going("bye")
    /\ IF reader = "off" THEN Sound /\ UNCHANGED failed ELSE Fault /\ failed' = TRUE
    /\ session' = [session EXCEPT !["closed"] = ~failed']
    /\ UNCHANGED <<stand, why, drain, reader, audit, ready, queue, wire, writes, log, opened>>

\* The stop entry, and what _audit_broken_close makes of a stop that failed.
StopEntry ==
    LET fails(broken) ==
            IF ~broken THEN Going("report") /\ UNCHANGED <<session, stand>>
            ELSE IF session["closed"] /\ why \in {"requested", "replaced"} /\ lease # "none"
            THEN Going("idle") /\ HandOver
            ELSE Going("report") /\ Break({}) /\ Quarantine(TRUE)
    IN
    /\ caller = "bye" /\ audit = "free"
    /\ \/ /\ Sound /\ Logged(Entry("stop", 0))
          /\ IF failed \/ session["broken"] THEN fails(session["broken"])
             ELSE Going(IF why = "replaced" THEN "release" ELSE "stopped") /\ UNCHANGED <<session, stand>>
       \/ Fault /\ UNCHANGED log /\ fails(TRUE)
    /\ UNCHANGED <<stopping, drain, reader, audit, ready, queue, wire, writes, opened>>

\* The report of a stop whose handle is closed.
StopReports ==
    /\ caller = "stopped"
    /\ \/ Sound /\ Going("release") /\ UNCHANGED <<session, stand>>
       \/ /\ Fault /\ Going("idle")
          /\ IF why = "requested" /\ lease # "none"
             THEN HandOver
             ELSE Break({}) /\ Quarantine(TRUE)
    /\ UNCHANGED <<stopping, drain, reader, audit, ready, queue, wire, writes, log, opened>>

\* _end_session_lease; a clear that failed is settled by the close first, which
\* may end an incident no other lease is blocked for.
StopReleases ==
    /\ caller = "release" /\ Going("idle")
    /\ \/ Sound /\ Release("none") /\ session' = Gone
       \/ /\ Fault /\ Release("retry") /\ UNCHANGED session
       \/ /\ Sound /\ why = "clear_failed" /\ lease = "cleanup" /\ lease' = "none" /\ session' = Gone
          /\ halt' \in {halt, FALSE}
       \/ /\ Sound /\ why # "clear_failed" /\ lease = "cleanup"
          /\ IF halt THEN lease' = "handed" /\ session' = Gone ELSE UNCHANGED <<lease, session>>
          /\ UNCHANGED halt
    /\ UNCHANGED <<stopping, drain, reader, audit, ready, queue, wire, writes, log, opened>>

\* What a call does once it has begun.
Continues ==
    \/ StartEntry \/ Clear \/ StartReader \/ Report
    \/ WriteLocks \/ WriteFlushes \/ WriteSends \/ WriteErrs \/ WriteRecords \/ WriteUnrecorded
    \/ StopCloses \/ StopJoins \/ StopEntry \/ StopReports \/ StopReleases

Next ==
    \/ BoardSends \/ OthersHalt \/ Recovered \/ StoodDown
    \/ Drain \/ Reader \/ ReaderTimesOut
    \/ Open \/ StartAgain \/ Write \/ StopBegins \/ Continues

Fairness == WF_vars(Drain) /\ WF_vars(Reader) /\ WF_vars(Continues)
Spec == Init /\ [][Next]_vars
FairSpec == Spec /\ Fairness

-----------------------------------------------------------------------------
(* The safety properties are those of SerialPromise; what must happen in    *)
(* the end, and what a document says and the code does not keep.            *)

\* No bytes are sent once the session's log was found broken
\* (docs/safety-model.md:12).
BrokenAuditStopsWrites == [][sent' # sent => reader # "broken" /\ ~session["broken"]]_vars

\* Every chunk drained is taken to the log, however long no other follows, unless
\* the log broke; every call ends (comports.py:751-755, 841-875).
SerialSettles ==
    /\ received # <<>> ~> (received = <<>> \/ session["broken"])
    /\ caller # "idle" ~> caller = "idle"
=============================================================================
