------------------------- MODULE DebugSessionPromise -------------------------
(* What a debug session promises of the core, of a start that failed and of *)
(* the processes it runs, over the part of DebugSession's state that the    *)
(* promises are about.                                                      *)

VARIABLES
    kind,     \* the debug server of this bench
    session,  \* GdbDebugSessions.session: what the code keeps in it
    server,   \* its process
    gdb,      \* the GDB process: is it up, and connected to the server
    core,     \* the core: is it halted, are breakpoints on it, and does the server keep it
              \* halted when its client leaves
    call,     \* the call being served
    lease,    \* _debug_lease: its state and its cleanup reasons
    answer,   \* the last call's answer
    doubt,    \* an answer left the target or a failed start open, nothing settled it since
    reached   \* what of the present start has reached the target

Idle == [tool |-> "none", step |-> "none", res |-> "", resets |-> FALSE,
         halted |-> TRUE, removed |-> TRUE, pinned |-> TRUE, attempts |-> 0]

Connected == gdb.up /\ gdb.linked /\ server = "up"

\* What debug_stop_session claims of the target: the core is halted, nobody is on
\* it, and no breakpoint is on it where its server was ended first.
StopClaimsBacked ==
    answer.tool = "stop" /\ answer.safe =>
        core.halted /\ server # "up" /\ ~gdb.up /\ (kind = "ended" => ~core.armed)

\* A stop whose claims are wrong had an earlier answer that left the target open
\* (gdbdebug.py:624-706).
StopHonest == doubt \/ call # Idle \/ StopClaimsBacked

\* A session that says halted has a halted core, as long as its GDB and its
\* server are there and no answer left it open (gdbdebug.py:708-717).
HaltedMeansHalted == call = Idle /\ ~doubt /\ session.status = "halted" /\ Connected => core.halted

\* What the code says of the halt holds, after a stop and before it: late stops,
\* lost answers, a GDB or a server that dies in between.
HaltHonest == StopHonest /\ HaltedMeansHalted

\* A start that names no effect, and lets its caller retry, sent GDB nothing that
\* reached the target, in any of its attempts (gdbdebug.py:404-470, 1308-1340).
FailedStartHonest == answer.tool = "start" /\ answer.effect = "none" /\ call = Idle => "gdb" \notin reached

\* No process of a session outlives what the next call could end it with
\* (gdbdebug.py:1919-1966): whoever finds GDB or the server up between two calls
\* finds the session and the lease that name it.
ProcessesHeld == call = Idle /\ (gdb.up \/ server = "up") => session.status # "none" /\ lease.state # "none"

\* What a failed start says of the target, and the clean-up of the processes.
FailuresTold == FailedStartHonest /\ ProcessesHeld
=============================================================================
