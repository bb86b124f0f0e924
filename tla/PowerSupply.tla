----------------------------- MODULE PowerSupply -----------------------------
(***************************************************************************)
(* A bench power supply: one call of power_supply.py at a time, over the    *)
(* conversation of backends/rs3005p.py with the unit.                       *)
(*                                                                         *)
(* The unit holds two set points and an output.  A call asks for the unit's *)
(* identity, reads the channel, writes and reads back, one command after    *)
(* the other; an operator at the unit may turn a knob between two of them.  *)
(* A reply carries nothing that says which command it answers, and one that *)
(* comes too late stays on the line for the next call.  Set points are      *)
(* small numbers; the grants, the missing limits, this server's own         *)
(* sessions, a second channel and protection, which the RS-3005P has none   *)
(* of, are left out.                                                        *)
(***************************************************************************)
EXTENDS PowerSupplyPromise, Sequences

CONSTANTS
    MaxLate,    \* bound: replies late at the same time
    MaxFaults   \* bound: what goes wrong

VARIABLES
    line,      \* replies on their way, in order
    hold,      \* its lease, and with it the bench
    inRun,     \* is a run declared around the calls?
    owed,      \* history: read back above the limit, and not changed since
    mishaps    \* what went wrong

vars == <<unit, line, task, hold, inRun, owed, mishaps>>

Tools == {"status", "set", "output", "cycle"}
\* channel_status, in the order it asks.
ChannelStatus == <<"v", "i", "measured v", "measured i", "status">>
Numbers == {"v", "i", "measured v", "measured i"}
Commands == {"identity", "status"} \cup Numbers
Replies == [to : Commands, says : Points \cup {1}]
Reasons == {"unconfirmed", "above", "exception"}

\* ended: the conversation is over and the result is there.
Stages == {"idle", "identity", "before", "write", "check", "ended"}
Idle == [at |-> "idle", tool |-> "status", wants |-> <<>>, steps |-> <<>>, todo |-> <<>>, last |-> Unread,
         reading |-> Unread, sent |-> {}, touched |-> FALSE, wild |-> FALSE, ok |-> FALSE, why |-> {}, start |-> Unread]

TaskType ==
    /\ task.at \in Stages /\ task.tool \in Tools
    /\ task.last \in Units \cup {Unread} /\ task.start \in Units \cup {Unread}
    /\ task.sent \subseteq Quantities \cup {"on"} /\ task.why \subseteq Reasons
    /\ task.touched \in BOOLEAN /\ task.wild \in BOOLEAN /\ task.ok \in BOOLEAN
    /\ \A n \in DOMAIN task.todo : task.todo[n] \in Commands

TypeOK ==
    /\ unit \in Units /\ TaskType
    /\ Len(line) <= MaxLate /\ \A n \in DOMAIN line : line[n] \in Replies
    /\ hold \in {"free", "held", "incident", "standing"}
    /\ inRun \in BOOLEAN /\ owed \in BOOLEAN
    /\ mishaps \in 0..MaxFaults

Init ==
    /\ unit \in Units /\ line = <<>> /\ task = Idle /\ hold = "free"
    /\ inRun = FALSE /\ owed = FALSE /\ mishaps = 0

-----------------------------------------------------------------------------
Fault == mishaps < MaxFaults /\ mishaps' = mishaps + 1
Sound == UNCHANGED mishaps
Ended(ok, why) == [task EXCEPT !.at = "ended", !.ok = ok, !.todo = <<>>, !.steps = <<>>, !.reading = Unread, !.why = why]

\* Mutation: only the first step is looked at, and a cycle's switches off.
MHeldToLimits ==
    IF task.tool = "set" THEN Quantities \ DOMAIN task.wants
    ELSE IF Head(task.steps).to THEN Quantities ELSE {}

\* The quantities a set leaves, both before an output is switched on.
HeldToLimits ==
    IF task.tool = "set" THEN Quantities \ DOMAIN task.wants
    ELSE IF [q |-> "on", to |-> TRUE] \in {task.steps[n] : n \in DOMAIN task.steps} THEN Quantities ELSE {}

Ordered(qs) == (IF "v" \in qs THEN <<"v">> ELSE <<>>) \o (IF "i" \in qs THEN <<"i">> ELSE <<>>)
\* Mutation: always the voltage first.
MWriteOrder(wants, before) == Ordered(DOMAIN wants)

\* _write_order: what lowers its stored value, before what raises it.
WriteOrder(wants, before) ==
    LET lowers == {q \in DOMAIN wants : wants[q] < before[q]} IN
    Ordered(lowers) \o Ordered(DOMAIN wants \ lowers)

-----------------------------------------------------------------------------
(* The line.                                                                *)

Reply(asked) ==
    [to |-> asked, says |-> CASE asked \in Quantities -> unit[asked]
                              [] asked = "status" /\ unit.on -> 1
                              [] OTHER -> 0]

\* parse_identity, _number, _status_byte: what a reply may be read as.
ReadsAs(asked, reply) == IF asked \in Numbers THEN reply.to \in Numbers ELSE reply.to = asked

Reading(asked, reply) ==
    CASE asked \in Quantities -> [task.reading EXCEPT ![asked] = reply.says]
      [] asked = "status" -> [task.reading EXCEPT !.on = reply.says = 1]
      [] OTHER -> task.reading

\* Mutation: nothing is in doubt.
MNoReply == Ended(FALSE, {})

\* _no_reply of either module: in doubt once anything was sent that changes the
\* supply.
NoReply == Ended(FALSE, IF task.sent = {} THEN {} ELSE {"unconfirmed"})

Heard(asked, reply) ==
    task' = IF ~ReadsAs(asked, reply) THEN IF asked = "identity" THEN Ended(FALSE, {}) ELSE NoReply
            ELSE LET read == Reading(asked, reply) IN
                 [task EXCEPT !.todo = Tail(@),
                              !.reading = IF asked = "status" THEN Unread ELSE read,
                              !.last = IF asked = "status" THEN read ELSE @]

\* One query.  What is read is the oldest reply on the line, in time or not at all.
Exchange ==
    /\ task.todo # <<>>
    /\ LET asked == Head(task.todo)
           coming == Append(line, Reply(asked)) IN
       \/ /\ Sound /\ Heard(asked, Head(coming)) /\ line' = Tail(coming)
       \/ /\ Fault /\ task' = NoReply
          /\ \/ UNCHANGED line
             \/ Len(line) < MaxLate /\ line' = coming
    /\ UNCHANGED <<unit, hold, inRun, owed>>

-----------------------------------------------------------------------------
(* What the caller asks for; each takes the lease, or is refused by it.  The *)
(* port is opened with what had arrived on it thrown away.                   *)
Called(tool, wants, steps) ==
    /\ task.at = "idle" /\ hold = "free"
    /\ \A q \in DOMAIN wants : Within(q, wants[q])
    /\ task' = [Idle EXCEPT !.at = "identity", !.tool = tool, !.wants = wants, !.steps = steps,
                            !.todo = <<"identity">>, !.start = unit]
    /\ \E arrived \in 0..Len(line) : line' = SubSeq(line, arrived + 1, Len(line))
    /\ hold' = "held"
    /\ UNCHANGED <<unit, inRun, owed, mishaps>>

Switch(on) == [q |-> "on", to |-> on]
Status == Called("status", <<>>, <<>>)
Set == \E qs \in (SUBSET Quantities) \ {{}} : \E wants \in [qs -> Points] : Called("set", wants, <<>>)
Output == \E on \in BOOLEAN : Called("output", <<>>, <<Switch(on)>>)
Cycle == Called("cycle", <<>>, <<Switch(FALSE), Switch(TRUE)>>)

-----------------------------------------------------------------------------
(* The conversation, from one reading to the next.                          *)
Reached(stage) == task.at = stage /\ task.todo = <<>>
Here == UNCHANGED <<unit, line, hold, inRun, owed, mishaps>>

Identified ==
    /\ Reached("identity")
    /\ task' = [task EXCEPT !.at = "before", !.todo = ChannelStatus]
    /\ Here

\* _status, and _write as far as its first write.
ReadBefore ==
    /\ Reached("before")
    /\ task' = IF task.tool = "status" THEN Ended(TRUE, {})
               ELSE IF \E q \in HeldToLimits : ~Within(q, task.last[q]) THEN Ended(FALSE, {})
               ELSE LET order == WriteOrder(task.wants, task.last) IN
                    [task EXCEPT !.at = "write", !.steps = IF task.tool = "set"
                         THEN [n \in DOMAIN order |-> [q |-> order[n], to |-> task.wants[order[n]]]] ELSE @]
    /\ Here

\* A setter, after which its own query is asked, or OUT0 or OUT1.  The unit does
\* as told, or something else; a line that fails may have carried the command.
Write ==
    /\ Reached("write")
    /\ LET step == Head(task.steps)
           sends == [task EXCEPT !.at = "check", !.sent = @ \cup {step.q},
                                 !.todo = (IF step.q = "on" THEN <<>> ELSE <<step.q>>) \o ChannelStatus] IN
       \/ /\ Sound /\ unit' = [unit EXCEPT ![step.q] = step.to] /\ task' = sends
       \/ /\ Fault /\ \E does \in IF step.q = "on" THEN BOOLEAN ELSE Points :
                         unit' = [unit EXCEPT ![step.q] = does]
          /\ task' = [sends EXCEPT !.wild = TRUE]
       \/ /\ Fault /\ unit' \in {unit, [unit EXCEPT ![step.q] = step.to]}
          /\ task' = [Ended(FALSE, {"unconfirmed"}) EXCEPT !.sent = @ \cup {step.q}]
    /\ UNCHANGED <<line, hold, inRun, owed>>

\* The value read back against the one written.
Check ==
    /\ Reached("check")
    /\ LET step == Head(task.steps)
           read == task.last[step.q] IN
       task' = IF read # step.to
               THEN Ended(FALSE, IF step.q \in Quantities /\ ~Within(step.q, read) THEN {"above"} ELSE {})
               ELSE IF Len(task.steps) = 1 THEN Ended(TRUE, {})
               ELSE [task EXCEPT !.at = "write", !.steps = Tail(@)]
    /\ Here

\* Any other error of the backend, or of closing its port.
Breaks ==
    /\ task.at # "idle" /\ "exception" \notin task.why /\ Fault
    /\ task' = Ended(FALSE, task.why \cup {"exception"} \cup IF task.sent = {} \/ task.at = "ended" THEN {} ELSE {"unconfirmed"})
    /\ UNCHANGED <<unit, line, hold, inRun, owed>>

-----------------------------------------------------------------------------
(* The end of a call.                                                       *)

\* _stand_down_after_call: an incident whose evidence is whole ends with the call,
\* unless a run is open, or the ledger cannot be written.
MayStandDown(after) ==
    \/ after = "incident" /\ ~inRun /\ Sound /\ hold' = "free"
    \/ after = "incident" /\ ~inRun /\ Fault /\ hold' = after
    \/ ~(after = "incident" /\ ~inRun) /\ Sound /\ hold' = after

Over == task' = Idle /\ owed' = (owed \/ "above" \in task.why) /\ UNCHANGED <<unit, line, inRun>>

\* _commit: the report, then the lease, which an incident keeps.
Commit ==
    /\ task.at = "ended" /\ "exception" \notin task.why
    /\ \/ MayStandDown(IF task.why = {} THEN "free" ELSE "incident")
       \/ Fault /\ hold' = "standing"
       \/ task.why = {} /\ Fault /\ hold' = "incident"
    /\ Over

\* An exception goes through the dispatch: an incident, and a broken audit if it is
\* the operating system's.
Raised ==
    /\ task.at = "ended" /\ "exception" \in task.why
    /\ \/ MayStandDown("incident")
       \/ Sound /\ hold' = "standing"
    /\ Over

\* Any other call of this server, which takes no lease of the supply: it ends as
\* every call does.
OtherCall ==
    /\ task.at = "idle" /\ hold = "incident" /\ ~inRun /\ hold' = "free"
    /\ UNCHANGED <<unit, line, task, inRun, owed, mishaps>>

RunStart ==
    /\ task.at = "idle" /\ ~inRun /\ hold # "standing" /\ inRun' = TRUE
    /\ UNCHANGED <<unit, line, task, hold, owed, mishaps>>
RunStop ==
    /\ task.at = "idle" /\ inRun /\ inRun' = FALSE
    /\ hold' = IF hold = "incident" THEN "free" ELSE hold
    /\ UNCHANGED <<unit, line, task, owed, mishaps>>

-----------------------------------------------------------------------------
(* What the operator does, and the end of the process.                      *)
Panel ==
    /\ \/ \E q \in Quantities : \E point \in Points \ {unit[q]} : unit' = [unit EXCEPT ![q] = point]
       \/ unit' = [unit EXCEPT !.on = ~@]
    /\ owed' = FALSE
    /\ \/ task.at = "idle" /\ Sound /\ UNCHANGED task
       \/ task.at # "idle" /\ Fault /\ task' = [task EXCEPT !.touched = TRUE]
    /\ UNCHANGED <<line, hold, inRun>>
Recover ==
    /\ task.at = "idle" /\ hold = "standing" /\ hold' = "free" /\ owed' = FALSE
    /\ UNCHANGED <<unit, line, task, inRun, mishaps>>

\* What a dead owner leaves is adopted by the next lease and ends with its call
\* (Coordination), so the next process may go on.
Crash ==
    /\ Fault /\ task' = Idle /\ inRun' = FALSE
    /\ hold' = IF hold = "standing" THEN hold ELSE "free"
    /\ UNCHANGED <<unit, line, owed>>

Calls == Status \/ Set \/ Output \/ Cycle
Conversation == Exchange \/ Identified \/ ReadBefore \/ Write \/ Check \/ Breaks
Ends == Commit \/ Raised \/ OtherCall \/ RunStart \/ RunStop
Next == Calls \/ Conversation \/ Ends \/ Panel \/ Recover \/ Crash

Spec == Init /\ [][Next]_vars

-----------------------------------------------------------------------------
(* The properties that hold are those of PowerSupplyPromise.                *)

\* No next call proceeds from a set point read back above the limit until the owner
\* has brought the unit back (power_supply.py:914-917, docs/power-supplies.md:73).
HeldAboveLimit == owed => task.at = "idle" \/ task.tool = "status"
=============================================================================
