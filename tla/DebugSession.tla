---------------------------- MODULE DebugSession ----------------------------
(***************************************************************************)
(* A typed debug session of gdbdebug.py over gdbmi.py, and the lease        *)
(* tools.py keeps for it: one service whose calls come one after another,  *)
(* the GDB process with the commands it has not taken yet, the pipe it     *)
(* writes to, the thread that reads the pipe, the debug server and the     *)
(* core.                                                                   *)
(*                                                                         *)
(* A command the caller gave up on is still carried out.  Removing the     *)
(* breakpoints is one command here, the three of                           *)
(* _remove_backend_breakpoints in the code.  Symbols, memory reads, the    *)
(* download of mode load, the audit latch, companions and the closing of   *)
(* the service are left out.                                               *)
(***************************************************************************)
EXTENDS DebugSessionPromise, Naturals, Sequences

CONSTANTS
    Kinds,        \* debug servers: "command" (OpenOCD) has a detach guard
                  \* command and halts or resets the core as it starts, "ended"
                  \* (pyOCD, ST-LINK_gdbserver) is ended as its guard
    MaxAttempts,  \* ATTACH_CONNECT_ATTEMPTS
    MaxCalls,     \* bound: calls made
    MaxFaults     \* bound: operations that fail or are not answered in time

VARIABLES
    todo,     \* commands written to GDB that it has not taken yet
    pipe,     \* its output that the reader thread has not taken yet
    last,     \* last_stop_line is set
    calls,    \* calls made
    faults    \* operations that failed

target == <<server, gdb, core>>
stream == <<todo, pipe, last>>
said == <<answer, doubt, reached>>
counts == <<calls, faults>>
vars == <<kind, session, target, stream, call, lease, said, counts>>

Commands == {"setup", "connect", "reset", "continue", "interrupt", "insert", "remove", "guard"}
\* The waits for a stop: of a new session, of a resumed core, of an interrupt.
StopWaits == {"poll", "stop", "halted"}
Results == {"", "ok", "refused", "dropped", "timeout", "dead", "stop"}
BeforeConnect == {"server_spawned", "server_ready"}
CleanupReasons == {"start", "cleanup", "breakpoint", "state"}

NoSession == [status |-> "none", phase |-> "not_started", resets |-> FALSE, reason |-> "none",
              breakpoints |-> FALSE, unconfirmed |-> FALSE]
NoAnswer == [tool |-> "none", ok |-> TRUE, effect |-> "none", safe |-> FALSE]

TypeOK ==
    /\ kind \in Kinds
    /\ session \in [status : {"none", "starting", "halted", "running", "error", "cleanup_required"},
                    phase : BeforeConnect \cup {"not_started", "connect_started", "connected", "reset_started"},
                    resets : BOOLEAN, reason : {"none", "stop", "debugger_error", "timeout"},
                    breakpoints : BOOLEAN, unconfirmed : BOOLEAN]
    /\ server \in {"none", "up", "gone"}
    /\ gdb \in [up : BOOLEAN, linked : BOOLEAN]
    /\ todo \in Seq([command : Commands, live : BOOLEAN])
    /\ pipe \in Seq([record : {"stop"} \cup Results, live : BOOLEAN])
    /\ last \in BOOLEAN
    /\ core \in [halted : BOOLEAN, armed : BOOLEAN, guarded : BOOLEAN]
    /\ call.res \in Results /\ call.attempts \in 0..MaxAttempts
    /\ lease \in [state : {"none", "active", "cleanup_required"}, why : SUBSET CleanupReasons]
    /\ doubt \in BOOLEAN /\ reached \subseteq {"server", "gdb"}
    /\ calls \in 0..MaxCalls /\ faults \in 0..MaxFaults

Init ==
    /\ kind \in Kinds /\ session = NoSession /\ server = "none"
    /\ gdb = [up |-> FALSE, linked |-> FALSE]
    /\ todo = <<>> /\ pipe = <<>> /\ last = FALSE
    /\ core = [halted |-> FALSE, armed |-> FALSE, guarded |-> FALSE]
    /\ call = Idle /\ lease = [state |-> "none", why |-> {}]
    /\ answer = NoAnswer /\ doubt = FALSE /\ reached = {}
    /\ calls = 0 /\ faults = 0

-----------------------------------------------------------------------------
(* GDB, its reader thread, the debug server and the core.                  *)

Fault == faults < MaxFaults /\ faults' = faults + 1
Stop == [record |-> "stop", live |-> TRUE]
Printed(records) == pipe' = pipe \o records

\* The core stops by itself or for an interrupt, and GDB says so.
CoreStops ==
    /\ Connected /\ ~core.halted
    /\ core' = [core EXCEPT !.halted = TRUE] /\ Printed(<<Stop>>)
    /\ UNCHANGED <<kind, session, server, gdb, todo, last, call, lease, said, counts>>

\* What the server does with the core when its last client leaves.
LetGo(c) == [c EXCEPT !.halted = @ /\ (server # "up" \/ ~gdb.linked \/ c.guarded)]

\* GDB takes its next command and answers it.
Takes(class) ==
    /\ gdb.up /\ todo # <<>>
    /\ todo' = Tail(todo)
    /\ LET c == Head(todo).command
           result == [record |-> class, live |-> Head(todo).live] IN
       /\ \/ /\ class = "ok" /\ (c \in {"setup", "connect"} \/ Connected) /\ UNCHANGED faults
             /\ c = "connect" => (server = "up" /\ (kind = "command" => "server" \in reached))
             /\ c = "continue" => core.halted
          \/ class = "refused" /\ c # "setup" /\ ~Connected /\ UNCHANGED faults
          \/ class = "refused" /\ c = "continue" /\ ~core.halted /\ UNCHANGED faults
          \/ class = "refused" /\ Fault
          \/ class = "dropped" /\ c = "connect" /\ Fault
       /\ gdb' = [gdb EXCEPT !.linked = @ \/ (c = "connect" /\ class = "ok")]
       /\ reached' = reached \cup (IF c \in {"connect", "reset"} /\ server = "up" THEN {"gdb"} ELSE {})
       /\ Printed(IF c = "connect" /\ class = "ok" THEN <<Stop, result>> ELSE <<result>>)
       /\ IF class # "ok" THEN UNCHANGED core
          ELSE core' = [halted |-> CASE c \in {"connect", "reset"} -> TRUE [] c = "continue" -> FALSE [] OTHER -> core.halted,
                        armed |-> (core.armed \/ c = "insert") /\ c # "remove",
                        guarded |-> core.guarded \/ c = "guard"]
    /\ UNCHANGED <<kind, session, server, last, call, lease, answer, doubt, calls>>

\* _handle_line: a stop goes to whoever waits for one and is kept otherwise, a
\* result goes to the command it answers if that is still waited for.
Reads ==
    /\ pipe # <<>> /\ pipe' = Tail(pipe)
    /\ LET waiting == call.res = "" /\ call.step \in (IF Head(pipe).record = "stop" THEN StopWaits ELSE Commands) IN
       /\ last' = (last \/ (Head(pipe).record = "stop" /\ ~waiting))
       /\ call' = IF waiting /\ Head(pipe).live THEN [call EXCEPT !.res = Head(pipe).record] ELSE call
    /\ UNCHANGED <<kind, session, target, todo, lease, said, counts>>

\* GDB dies: its server sees the client leave.
GdbDies ==
    /\ gdb.up /\ Fault
    /\ gdb' = [up |-> FALSE, linked |-> FALSE] /\ todo' = <<>> /\ core' = LetGo(core)
    /\ UNCHANGED <<kind, session, server, pipe, last, call, lease, said, calls>>

\* The server halts or resets the core as it starts (openocd.py:851-852).
ServerHalts ==
    /\ kind = "command" /\ server = "up" /\ call.tool = "start" /\ "server" \notin reached
    /\ core' = [core EXCEPT !.halted = TRUE] /\ reached' = reached \cup {"server"}
    /\ UNCHANGED <<kind, session, server, gdb, stream, call, lease, answer, doubt, counts>>

ServerDies ==
    /\ server = "up" /\ Fault /\ server' = "gone"
    /\ UNCHANGED <<kind, session, gdb, core, stream, call, lease, said, calls>>

\* _handle_exit, for whoever waits on a GDB that is gone.
LearnsExit ==
    /\ ~gdb.up /\ pipe = <<>> /\ call.res = "" /\ call.step \in Commands \cup StopWaits
    /\ call' = [call EXCEPT !.res = "dead"]
    /\ UNCHANGED <<kind, session, target, stream, lease, said, counts>>

\* A command or a stop that is not there in time.  That no stop comes is no
\* fault where none is owed.
GivesUp ==
    /\ call.res = "" /\ call.step \in Commands \cup StopWaits
    /\ IF call.step \in {"poll", "stop"} \/ (call.step = "halted" /\ (core.halted \/ ~Connected) /\ pipe = <<>>)
       THEN UNCHANGED faults ELSE Fault
    /\ call' = [call EXCEPT !.res = "timeout"]
    /\ todo' = [i \in DOMAIN todo |-> [todo[i] EXCEPT !.live = FALSE]]
    /\ pipe' = [i \in DOMAIN pipe |-> [pipe[i] EXCEPT !.live = @ /\ pipe[i].record = "stop"]]
    /\ UNCHANGED <<kind, session, target, last, lease, said, calls>>

Environment == CoreStops \/ ServerHalts \/ Reads \/ GdbDies \/ ServerDies \/ LearnsExit \/ GivesUp
               \/ \E class \in {"ok", "refused", "dropped"} : Takes(class)

-----------------------------------------------------------------------------
(* What the calls are made of.                                             *)

\* command(): written to GDB if it is there to read it (gdbmi.py:112-160).
Ask(k, c) ==
    /\ todo' = IF gdb.up THEN Append(todo, [command |-> c, live |-> TRUE]) ELSE todo
    /\ call' = [k EXCEPT !.step = c, !.res = IF gdb.up THEN "" ELSE "dead"]
    /\ UNCHANGED <<pipe, target>>

\* wait_for_stop(): a stop kept from before is the answer.
Await(k, wait) ==
    /\ call' = [k EXCEPT !.step = wait, !.res = IF last THEN "stop" ELSE ""]
    /\ last' = FALSE /\ UNCHANGED <<todo, pipe, target>>

\* The call goes on with a step of its own.
Turns(k, step) == call' = [k EXCEPT !.step = step, !.res = ""]

At(tool, step) == call.tool = tool /\ call.step = step
Answered(tool, step) == At(tool, step) /\ call.res # ""

\* _refresh_session_stop, without a wait.
Refreshed == IF last THEN [session EXCEPT !.status = "halted", !.reason = "stop"] ELSE session

\* _gdb_command: a command nobody answered leaves a debugger error as the stop.
Poisoned(s) == IF call.res \in {"timeout", "dead"} THEN [s EXCEPT !.reason = "debugger_error"] ELSE s

\* _require_session.
Usable == session.status \in {"halted", "running"} /\ gdb.up

\* A call begins.
Called == call = Idle /\ calls < MaxCalls /\ calls' = calls + 1

\* The call's answer, and what _coordinated_debug_call makes of it: an effect
\* nobody can account for is a reason to hold the lease.
Held(reason) == [state |-> "cleanup_required", why |-> lease.why \cup {reason}]
Resolved(reason) == IF lease.why = {reason} THEN [state |-> "active", why |-> {}] ELSE lease
Answers(k, ok, effect, reason) ==
    /\ call' = Idle /\ answer' = [tool |-> k.tool, ok |-> ok, effect |-> effect, safe |-> FALSE]
    /\ lease' = IF effect = "unknown" THEN Held(reason) ELSE lease
    /\ doubt' = (doubt \/ effect = "unknown")

\* The processes are ended, in the order their server calls for; `ended` says
\* whether the server is gone after it.  An orderly exit takes GDB's
\* breakpoints off a server that is still there.
CleanUp(ended) ==
    /\ server' = IF ended THEN "gone" ELSE server
    /\ gdb' = [up |-> FALSE, linked |-> FALSE]
    /\ core' = IF kind = "ended" /\ ended THEN core
               ELSE LetGo([core EXCEPT !.armed = @ /\ ~(Connected /\ todo = <<>>)])
    /\ todo' = <<>> /\ pipe' = <<>> /\ last' = FALSE
Cleans(ended) == CleanUp(ended) /\ IF ended THEN UNCHANGED faults ELSE server = "up" /\ Fault

-----------------------------------------------------------------------------
(* debug_start_session.                                                    *)

NoLease == [state |-> "none", why |-> {}]

StartSession(resets) ==
    /\ Called /\ session.status = "none"
    /\ call' = [Idle EXCEPT !.tool = "start", !.step = "spawn", !.resets = resets]
    /\ lease' = IF lease = NoLease THEN [lease EXCEPT !.state = "active"] ELSE lease
    /\ reached' = {}
    /\ UNCHANGED <<kind, session, target, stream, answer, doubt, faults>>

\* Mutation: the last attempt speaks for the ones before it.
MFailsWith(effect, kept) ==
    /\ session' = kept /\ call' = Idle
    /\ answer' = [tool |-> "start", ok |-> FALSE, effect |-> effect, safe |-> FALSE]
    /\ doubt' = (doubt \/ kept # NoSession)
    /\ lease' = IF kept # NoSession THEN Held("start") ELSE IF lease.state = "active" THEN NoLease ELSE lease

\* What a failed start answers and keeps.  An earlier attempt that reached the
\* target makes the answer unknown and leaves its session on file.
FailsWith(effect, kept) ==
    LET dropped == [NoSession EXCEPT !.status = "cleanup_required", !.phase = "connect_started"]
        told == IF call.attempts > 0 THEN "unknown" ELSE effect
        left == IF kept = NoSession /\ call.attempts > 0 THEN dropped ELSE kept IN
    /\ session' = left /\ call' = Idle
    /\ answer' = [tool |-> "start", ok |-> FALSE, effect |-> told, safe |-> FALSE]
    /\ doubt' = (doubt \/ left # NoSession)
    /\ lease' = IF left # NoSession THEN Held("start") ELSE IF lease.state = "active" THEN NoLease ELSE lease

\* _startup_effect_fields.  The refusal of a GDB without asynchronous MI, one
\* of the setup commands, does not ask whether the server reset the core; what
\* a server that ended by itself did is read from its last words.
StartEffects ==
    IF session.phase \notin BeforeConnect THEN {"unknown"}
    ELSE {IF session.resets /\ kind = "command" THEN "unknown" ELSE "none"}
         \cup {e \in {"none"} : call.step = "setup" /\ call.res = "refused"}
         \cup {e \in {"unknown"} : call.step = "ready" /\ server = "gone"}

\* _dropped_connect: an attach whose connect GDB saw dropped may try again.
TriesAgain == call.step = "connect" /\ call.res = "dropped" /\ ~session.resets /\ call.attempts + 1 < MaxAttempts

\* Mutation: a start that did nothing is forgotten with what it started.
MStartFails ==
    \E ended \in BOOLEAN, named \in StartEffects :
        /\ Cleans(ended)
        /\ IF ended /\ TriesAgain
           THEN /\ call' = [Idle EXCEPT !.tool = "start", !.step = "spawn", !.attempts = call.attempts + 1]
                /\ session' = NoSession /\ UNCHANGED <<lease, answer, doubt>>
           ELSE FailsWith(named, IF named = "none" THEN NoSession ELSE [session EXCEPT !.status = "cleanup_required"])
        /\ UNCHANGED <<kind, reached, calls>>

\* A start that got as far as its server and not to its end.  The effect of one
\* whose cleanup failed is named only where GDB was asked something.
StartFails ==
    \E ended \in BOOLEAN, named \in StartEffects :
        LET effect == IF ended \/ call.step \in Commands THEN named ELSE "unknown" IN
        /\ Cleans(ended)
        /\ IF ended /\ TriesAgain
           THEN /\ call' = [Idle EXCEPT !.tool = "start", !.step = "spawn", !.attempts = call.attempts + 1]
                /\ session' = NoSession /\ UNCHANGED <<lease, answer, doubt>>
           ELSE FailsWith(effect, IF ended /\ effect = "none" THEN NoSession ELSE [session EXCEPT !.status = "cleanup_required"])
        /\ UNCHANGED <<kind, reached, calls>>

\* The server is started, or cannot be.
Spawn ==
    /\ At("start", "spawn")
    /\ \/ /\ server' = "up" /\ core' = [core EXCEPT !.guarded = FALSE, !.armed = FALSE] /\ Turns(call, "ready")
          /\ session' = [NoSession EXCEPT !.status = "starting", !.phase = "server_spawned", !.resets = call.resets]
          /\ UNCHANGED <<lease, answer, doubt, faults>>
       \/ Fault /\ FailsWith("none", NoSession) /\ UNCHANGED <<server, core>>
    /\ UNCHANGED <<kind, gdb, stream, reached, calls>>

\* The server is ready and GDB is started, or one of the two is not.
ServerReady ==
    /\ At("start", "ready") /\ server = "up"
    /\ session' = [session EXCEPT !.phase = "server_ready"]
    /\ gdb' = [up |-> TRUE, linked |-> FALSE]
    /\ todo' = <<[command |-> "setup", live |-> TRUE]>> /\ pipe' = <<>> /\ last' = FALSE
    /\ call' = [call EXCEPT !.step = "setup", !.res = ""]
    /\ UNCHANGED <<kind, server, core, lease, said, counts>>

NotReady == At("start", "ready") /\ StartFails

SetUp ==
    /\ Answered("start", "setup") /\ call.res = "ok"
    /\ session' = [session EXCEPT !.phase = "connect_started"]
    /\ Ask(call, "connect")
    /\ UNCHANGED <<kind, last, lease, said, counts>>

\* Connected: an attach is done, a reset mode resets, and throws away the stop
\* of the connect where it happened before the reset.
ConnectedNow ==
    /\ Answered("start", "connect") /\ call.res = "ok"
    /\ IF session.resets
       THEN /\ session' = [session EXCEPT !.phase = "reset_started"] /\ Ask(call, "reset")
            /\ last' = (last /\ kind = "command")
       ELSE /\ session' = [session EXCEPT !.phase = "connected", !.status = "halted"]
            /\ Await(call, "poll")
    /\ UNCHANGED <<kind, lease, said, counts>>

ResetDone ==
    /\ Answered("start", "reset") /\ call.res = "ok"
    /\ session' = [session EXCEPT !.phase = "connected", !.status = "halted"]
    /\ Await(call, "poll")
    /\ UNCHANGED <<kind, lease, said, counts>>

NotSetUp == call.tool = "start" /\ call.step \in {"setup", "connect", "reset"} /\ call.res \notin {"", "ok"} /\ StartFails

\* The stop a new session starts with, if one comes.
Started ==
    /\ Answered("start", "poll")
    /\ session' = CASE call.res = "stop" -> [session EXCEPT !.reason = "stop"]
                    [] call.res = "dead" -> [session EXCEPT !.reason = "debugger_error", !.status = "error"]
                    [] OTHER -> session
    /\ call' = Idle /\ doubt' = FALSE
    /\ answer' = [tool |-> "start", ok |-> TRUE, effect |-> "committed", safe |-> FALSE]
    /\ UNCHANGED <<kind, target, stream, lease, reached, counts>>

Starting == (\E resets \in BOOLEAN : StartSession(resets)) \/ Spawn \/ ServerReady \/ NotReady \/ SetUp
            \/ ConnectedNow \/ ResetDone \/ NotSetUp \/ Started

-----------------------------------------------------------------------------
(* Calls on a session.                                                     *)

\* A fresh stop settles what an earlier answer left open.
Settled(k, ok, fresh) ==
    /\ call' = Idle /\ answer' = [tool |-> k.tool, ok |-> ok, effect |-> "committed", safe |-> FALSE]
    /\ lease' = IF ok /\ k.tool = "halt" THEN Resolved("state") ELSE lease
    /\ doubt' = (doubt /\ ~fresh)

Status ==
    /\ Called /\ session.status \in {"halted", "running"}
    /\ session' = Refreshed /\ last' = FALSE
    /\ UNCHANGED <<kind, target, todo, pipe, call, lease, said, faults>>

SetBreakpoint ==
    /\ Called /\ Usable /\ Ask([Idle EXCEPT !.tool = "set"], "insert")
    /\ UNCHANGED <<kind, session, last, lease, said, faults>>

\* A breakpoint whose answer was lost is kept as one that may exist.
BreakpointSet ==
    /\ Answered("set", "insert")
    /\ session' = Poisoned([session EXCEPT !.breakpoints = @ \/ call.res \in {"ok", "timeout"}])
    /\ Answers(call, call.res = "ok", CASE call.res = "ok" -> "committed" [] call.res = "refused" -> "none" [] OTHER -> "unknown", "breakpoint")
    /\ UNCHANGED <<kind, target, stream, reached, counts>>

ClearBreakpoints ==
    /\ Called /\ Usable /\ Ask([Idle EXCEPT !.tool = "clear"], "remove")
    /\ UNCHANGED <<kind, session, last, lease, said, faults>>

BreakpointsCleared ==
    /\ Answered("clear", "remove")
    /\ IF call.res = "ok"
       THEN /\ session' = [session EXCEPT !.breakpoints = FALSE] /\ call' = Idle
            /\ answer' = [tool |-> "clear", ok |-> TRUE, effect |-> "committed", safe |-> FALSE]
            /\ lease' = Resolved("breakpoint") /\ UNCHANGED doubt
       ELSE session' = Poisoned(session) /\ Answers(call, FALSE, "unknown", "breakpoint")
    /\ UNCHANGED <<kind, target, stream, reached, counts>>

\* Not where the last stop says the core is not to go on: a debugger error, or
\* a fault among the stops.
Continue ==
    /\ Called /\ Usable /\ last' = FALSE
    /\ LET k == [Idle EXCEPT !.tool = "continue"] IN
       \/ /\ Refreshed.reason # "debugger_error"
          /\ session' = [Refreshed EXCEPT !.status = "running"] /\ Ask(k, "continue")
          /\ UNCHANGED <<lease, said>>
       \/ /\ Refreshed.reason \in {"debugger_error", "stop"}
          /\ session' = Refreshed /\ Settled(k, FALSE, FALSE)
          /\ UNCHANGED <<target, todo, pipe, reached>>
    /\ UNCHANGED <<kind, faults>>

Resumed ==
    /\ Answered("continue", "continue")
    /\ IF call.res = "ok"
       THEN session' = [session EXCEPT !.reason = "none"] /\ Await(call, "stop") /\ UNCHANGED <<lease, answer, doubt>>
       ELSE /\ session' = [Poisoned(session) EXCEPT !.status = "error"]
            /\ Answers(call, FALSE, IF call.res = "refused" THEN "none" ELSE "unknown", "state")
            /\ UNCHANGED <<target, stream>>
    /\ UNCHANGED <<kind, reached, counts>>

\* No stop in time: the core is interrupted.
Stopped ==
    /\ Answered("continue", "stop")
    /\ CASE call.res = "stop" -> /\ session' = [session EXCEPT !.status = "halted", !.reason = "stop"]
                                 /\ Settled(call, TRUE, FALSE) /\ UNCHANGED <<target, todo, pipe>>
         [] call.res = "dead" -> /\ session' = [session EXCEPT !.status = "error", !.reason = "debugger_error"]
                                 /\ Answers(call, FALSE, "unknown", "state") /\ UNCHANGED <<target, todo, pipe>>
         [] call.res = "timeout" -> Ask(call, "interrupt") /\ UNCHANGED <<session, lease, answer, doubt>>
    /\ UNCHANGED <<kind, last, reached, counts>>

Halt ==
    /\ Called /\ Usable /\ session' = Refreshed /\ last' = FALSE
    /\ LET k == [Idle EXCEPT !.tool = "halt"] IN
       IF Refreshed.status = "halted" THEN Settled(k, Refreshed.reason # "debugger_error", last) /\ UNCHANGED <<target, todo, pipe, reached>>
       ELSE Ask(k, "interrupt") /\ UNCHANGED <<lease, said>>
    /\ UNCHANGED <<kind, faults>>

\* An interrupt that was taken: its stop is waited for.
Interrupted ==
    /\ Answered(call.tool, "interrupt") /\ call.res = "ok"
    /\ Await(call, "halted")
    /\ UNCHANGED <<kind, session, lease, said, counts>>

\* What became of the halt continue and halt asked for.
HaltDone ==
    /\ call.tool \in {"continue", "halt"} /\ call.res \notin {"", "ok"} /\ call.step \in {"interrupt", "halted"}
    /\ IF call.res = "stop"
       THEN session' = [session EXCEPT !.status = "halted", !.reason = "stop"] /\ Settled(call, call.tool = "halt", call.tool = "halt")
       ELSE /\ session' = IF call.tool = "continue" \/ (call.step = "halted" /\ call.res = "timeout")
                         THEN [session EXCEPT !.status = "running", !.reason = "timeout"]
                         ELSE IF call.step = "interrupt" THEN Poisoned(session)
                         ELSE [session EXCEPT !.status = "error", !.reason = "debugger_error"]
            /\ Answers(call, FALSE, IF call.tool = "halt" /\ call.res = "refused" THEN "none" ELSE "unknown", "state")
    /\ UNCHANGED <<kind, target, stream, reached, counts>>

Using == Status \/ SetBreakpoint \/ BreakpointSet \/ ClearBreakpoints \/ BreakpointsCleared \/ Continue \/ Resumed
         \/ Stopped \/ Halt \/ Interrupted \/ HaltDone

-----------------------------------------------------------------------------
(* debug_stop_session: the halt is confirmed, the breakpoints are taken off, *)
(* the core is kept from running on, and the processes are ended.            *)

\* A session left for its processes is believed proved, one left for its target
\* keeps what it lacked.
StopSession ==
    /\ Called /\ session.status # "none"
    /\ LET k == [Idle EXCEPT !.tool = "stop"] IN
       IF session.status = "cleanup_required"
       THEN Turns([k EXCEPT !.halted = ~session.unconfirmed], "end") /\ UNCHANGED <<session, target, stream>>
       ELSE IF ~gdb.up THEN Turns([k EXCEPT !.halted = FALSE], "removal") /\ UNCHANGED <<session, target, stream>>
       ELSE /\ session' = Refreshed /\ last' = FALSE
            /\ IF Refreshed.status = "halted" THEN Turns(k, "removal") /\ UNCHANGED <<target, todo, pipe>>
               ELSE Ask(k, "interrupt")
    /\ UNCHANGED <<kind, lease, said, faults>>

Confirmed ==
    /\ call.tool = "stop" /\ call.res \notin {"", "ok"} /\ call.step \in {"interrupt", "halted"}
    /\ session' = CASE call.res = "stop" -> [session EXCEPT !.status = "halted", !.reason = "stop"]
                   [] call.step = "interrupt" -> Poisoned(session)
                   [] OTHER -> [session EXCEPT !.status = "running", !.reason = "timeout"]
    /\ Turns([call EXCEPT !.halted = (call.res = "stop")], "removal")
    /\ UNCHANGED <<kind, target, stream, lease, said, counts>>

RemoveBreakpoints ==
    /\ At("stop", "removal")
    /\ IF kind = "ended" /\ session.breakpoints THEN Ask(call, "remove") ELSE Turns(call, "pin") /\ UNCHANGED <<target, todo, pipe>>
    /\ UNCHANGED <<kind, session, last, lease, said, counts>>

Removed ==
    /\ Answered("stop", "remove")
    /\ session' = [session EXCEPT !.breakpoints = @ /\ call.res # "ok"]
    /\ Turns([call EXCEPT !.removed = (call.res = "ok")], "pin")
    /\ UNCHANGED <<kind, target, stream, lease, said, counts>>

\* The guard: a command, or the end of the server while GDB is still connected.
Pin ==
    /\ At("stop", "pin")
    /\ \/ kind = "command" /\ Ask(call, "guard") /\ UNCHANGED faults
       \/ kind = "ended" /\ ~gdb.up /\ Turns([call EXCEPT !.pinned = FALSE], "end") /\ UNCHANGED <<target, todo, pipe, faults>>
       \/ kind = "ended" /\ gdb.up /\ server' = "gone" /\ Turns(call, "end") /\ UNCHANGED <<gdb, core, todo, pipe, faults>>
       \/ kind = "ended" /\ gdb.up /\ server = "up" /\ Fault /\ Turns([call EXCEPT !.pinned = FALSE], "end") /\ UNCHANGED <<target, todo, pipe>>
    /\ UNCHANGED <<kind, session, last, lease, said, calls>>

\* Mutation: a guard that was not taken is taken for one that was.
MPinned ==
    /\ Answered("stop", "guard") /\ Turns(call, "end")
    /\ UNCHANGED <<kind, session, target, stream, lease, said, counts>>

Pinned ==
    /\ Answered("stop", "guard") /\ Turns([call EXCEPT !.pinned = (call.res = "ok")], "end")
    /\ UNCHANGED <<kind, session, target, stream, lease, said, counts>>

End ==
    /\ At("stop", "end")
    /\ \E ended \in BOOLEAN :
       LET proved == call.halted /\ call.removed /\ call.pinned
           over == ended /\ proved
           released == over /\ lease.why \subseteq {"cleanup"} IN
       /\ Cleans(ended)
       /\ session' = IF over THEN NoSession
                     ELSE [session EXCEPT !.status = "cleanup_required", !.unconfirmed = @ \/ ~proved]
       /\ lease' = IF released THEN NoLease ELSE IF over THEN lease ELSE Held("cleanup")
       /\ call' = Idle /\ answer' = [tool |-> "stop", ok |-> released, effect |-> "committed", safe |-> over]
    /\ UNCHANGED <<kind, doubt, reached, calls>>

Stopping == StopSession \/ Confirmed \/ RemoveBreakpoints \/ Removed \/ Pin \/ Pinned \/ End

-----------------------------------------------------------------------------
(* The recovery ahead of a call the incident would meet: the processes are  *)
(* reaped, and for an unconfirmed start the target is reset into halt.      *)
Recovers(works) ==
    /\ call = Idle /\ lease.state = "cleanup_required" /\ \E reason \in CleanupReasons : lease.why = {reason}
    /\ server' = (IF server = "none" THEN "none" ELSE "gone") /\ gdb' = [up |-> FALSE, linked |-> FALSE]
    /\ todo' = <<>> /\ pipe' = <<>> /\ last' = FALSE
    /\ \E c \in {core, LetGo(core)} : core' = [c EXCEPT !.halted = @ \/ (works /\ lease.why = {"start"})]
    /\ IF works THEN session' = NoSession /\ lease' = NoLease /\ doubt' = FALSE /\ UNCHANGED faults
       ELSE Fault /\ UNCHANGED <<session, lease, doubt>>
    /\ answer' = NoAnswer
    /\ UNCHANGED <<kind, call, reached, calls>>

Recovering == \E works \in BOOLEAN : Recovers(works)

Next == Environment \/ Starting \/ Using \/ Stopping \/ Recovering
Spec == Init /\ [][Next]_vars
=============================================================================
