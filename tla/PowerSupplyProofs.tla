-------------------------- MODULE PowerSupplyProofs --------------------------
(* What TLAPS proves of PowerSupply, for any set points, any limits and any *)
(* number of mishaps: what a call answers is so, a set leaves no pair above *)
(* both ends, and no output is switched on above the limits, as long as     *)
(* fewer replies are late than a conversation asks before it believes one.  *)
EXTENDS PowerSupply, SequenceTheorems, TLAPS

Bounds == Top \in Nat \ {0} /\ LimitV \in Nat /\ LimitI \in Nat /\ MaxLate \in Nat /\ MaxFaults \in Nat

\* A conversation asks for the identity and for the five values of the channel.
FewLate == MaxLate < 6

-----------------------------------------------------------------------------
(* Types.                                                                   *)
Requests == {<<>>} \cup UNION {[qs -> Points] : qs \in SUBSET Quantities}
StepsOf == [q : Quantities, to : Points] \cup [q : {"on"}, to : BOOLEAN]
Readings == [v : 0..Top + 1, i : 0..Top + 1, on : BOOLEAN]

Tasks ==
    [at : Stages, tool : Tools, wants : Requests, steps : Seq(StepsOf), todo : Seq(Commands),
     last : Units \cup {Unread}, reading : Readings, sent : SUBSET (Quantities \cup {"on"}),
     touched : BOOLEAN, wild : BOOLEAN, ok : BOOLEAN, why : SUBSET Reasons, start : Units \cup {Unread}]

Typed ==
    /\ unit \in Units /\ task \in Tasks
    /\ line \in Seq(Replies) /\ Len(line) <= MaxLate
    /\ hold \in {"free", "held", "incident", "standing"}
    /\ inRun \in BOOLEAN /\ owed \in BOOLEAN /\ mishaps \in 0..MaxFaults

-----------------------------------------------------------------------------
(* Where a conversation stands.                                             *)

\* What is left to ask is the end of channel_status, after a set point's own query
\* as well.
OfStatus(s) ==
    /\ Len(s) <= 6
    /\ Len(s) = 6 => s[1] \in Quantities
    /\ \A n \in 1..Len(s) : n + 5 > Len(s) => s[n] = ChannelStatus[n + 5 - Len(s)]

Asking ==
    /\ task.at \in {"idle", "write", "ended"} => task.todo = <<>>
    /\ task.at = "identity" => task.todo \in {<<>>, <<"identity">>}
    /\ task.at = "before" => OfStatus(task.todo) /\ Len(task.todo) < 6
    /\ task.at = "check" => OfStatus(task.todo)

\* The reply to the identity query is on a line that is not empty, with those to the
\* `asked` queries after it behind it.
Marked(asked) == line = <<>> \/ (asked < Len(line) /\ line[Len(line) - asked].to = "identity")

\* A line that was behind when the unit was identified never makes a status whole.
Aligned ==
    /\ task.at = "identity" /\ task.todo = <<>> => Marked(0)
    /\ task.at = "before" => Marked(5 - Len(task.todo))
    /\ task.at \in {"write", "check"} => line = <<>>

\* As long as nobody is at the panel and nothing is behind on the line.
PartialTrue ==
    task.at \in {"before", "check"} /\ line = <<>> /\ ~task.touched =>
        /\ 0 < Len(task.todo) /\ Len(task.todo) < 5 => task.reading.v = unit.v
        /\ 0 < Len(task.todo) /\ Len(task.todo) < 4 => task.reading.i = unit.i

\* What has been read of the channel is a set point, and the one the unit holds.
Partial ==
    /\ task.at \in {"before", "check"} =>
          /\ 0 < Len(task.todo) /\ Len(task.todo) < 5 => task.reading.v \in Points
          /\ 0 < Len(task.todo) /\ Len(task.todo) < 4 => task.reading.i \in Points
    /\ PartialTrue

\* The whole reading is there, at the end of a status.
Whole == task.at = "write" \/ (task.at \in {"before", "check"} /\ task.todo = <<>>)

Truth ==
    /\ Partial
    /\ Whole => task.last \in Units /\ (task.touched \/ task.last = unit)
    /\ task.at \in {"identity", "before"} =>
          /\ task.sent = {} /\ (task.touched \/ task.start = unit)
          /\ ~Whole => task.last = Unread
    /\ task.at # "idle" => task.start \in Units
    /\ AnswerTrue

-----------------------------------------------------------------------------
(* What a call may write, and has written.                                  *)
Switches == \E n \in 1..Len(task.steps) : task.steps[n].to = TRUE
AllWithin == \A q \in Quantities : Within(q, unit[q])

Requested ==
    /\ \A q \in DOMAIN task.wants : q \in Quantities /\ task.wants[q] \in Points /\ Within(q, task.wants[q])
    /\ task.tool = "set" => "on" \notin task.sent
    /\ task.tool # "set" => task.sent \subseteq {"on"}
    /\ \A n \in 1..Len(task.steps) :
          IF task.tool = "set" THEN /\ task.steps[n].q \in DOMAIN task.wants
                                    /\ task.steps[n].to = task.wants[task.steps[n].q]
          ELSE task.steps[n].q = "on"
    /\ task.at \in {"write", "check"} => task.steps # <<>> /\ task.tool # "status"
    /\ task.at \in {"identity", "before"} =>
          /\ task.tool = "set" => DOMAIN task.wants # {} /\ task.steps = <<>>
          /\ task.tool \in {"output", "cycle"} => task.steps # <<>>
    /\ task.at = "check" => task.steps[1].q \in task.sent

Limits ==
    /\ task.at \in {"write", "check"} /\ ~task.touched =>
          /\ \A q \in task.sent \ {"on"} : Within(q, unit[q]) \/ (task.at = "check" /\ q = task.steps[1].q)
          /\ task.tool # "set" /\ Switches => AllWithin
    /\ WrittenWithinLimits

-----------------------------------------------------------------------------
(* The two writes of a set.                                                 *)

\* The pair of the write of d and then of r is beneath one end.
InOrder(d, r) == task.wants[d] < task.start[d] \/ task.start[r] <= task.wants[r]

\* What is not written yet, with the step at hand, or without it once it is sent.
Due == {task.steps[n].q : n \in (IF task.at = "check" THEN 2 ELSE 1)..Len(task.steps)}

HalfWay ==
    /\ Len(task.steps) = 1 \/ Len(task.steps) = 2
    /\ Len(task.steps) = 2 =>
          /\ task.steps[1].q # task.steps[2].q
          /\ InOrder(task.steps[1].q, task.steps[2].q)
    /\ Len(task.steps) = 1 => \A d \in DOMAIN task.wants \ {task.steps[1].q} : InOrder(d, task.steps[1].q)
    /\ \A q \in Quantities : unit[q] = IF q \in DOMAIN task.wants \ Due THEN task.wants[q] ELSE task.start[q]

Pairs ==
    /\ task.at \in {"write", "check"} /\ task.tool = "set" /\ ~task.touched /\ ~task.wild => HalfWay
    /\ PairKept

IInv == Typed /\ Asking /\ Aligned /\ Truth /\ Requested /\ Limits /\ Pairs

-----------------------------------------------------------------------------
(* The operators the calls are built from.                                  *)

LEMMA IdleIs == Bounds => Idle \in Tasks
<1> SUFFICES ASSUME Bounds PROVE Idle \in Tasks
  OBVIOUS
<1>1. Unread \in Readings
  BY DEF Bounds, Unread, Readings
<1>2. <<>> \in Seq(StepsOf) /\ <<>> \in Seq(Commands) /\ <<>> \in Requests
  BY DEF Requests
<1> QED BY <1>1, <1>2 DEF Idle, Tasks, Stages, Tools

LEMMA InitIInv == Bounds /\ Init => IInv
<1> SUFFICES ASSUME Bounds, Init PROVE IInv
  OBVIOUS
<1>1. Typed
  <2>1. line \in Seq(Replies) /\ Len(line) <= MaxLate
    BY DEF Bounds, Init
  <2>2. mishaps \in 0..MaxFaults
    BY DEF Bounds, Init
  <2>3. task \in Tasks /\ unit \in Units /\ hold = "free" /\ inRun = FALSE /\ owed = FALSE
    BY IdleIs DEF Init
  <2> QED BY <2>1, <2>2, <2>3 DEF Typed
<1>2. task.at = "idle" /\ task.tool = "status" /\ task.todo = <<>> /\ task.steps = <<>>
      /\ task.sent = {} /\ task.wants = <<>>
  BY DEF Init, Idle
<1>3. DOMAIN task.wants = {} /\ Len(task.steps) = 0
  BY <1>2
<1>4. Asking /\ Aligned /\ Truth
  BY <1>2 DEF Asking, Aligned, Truth, Partial, PartialTrue, Whole, AnswerTrue
<1>5. Requested
  BY <1>2, <1>3 DEF Requested
<1>6. Limits /\ Pairs
  BY <1>2 DEF Limits, Pairs, WrittenWithinLimits, PairKept
<1> QED BY <1>1, <1>4, <1>5, <1>6 DEF IInv

\* A set point or the switch of the unit, moved.
LEMMA UnitMoved ==
    ASSUME Bounds, unit \in Units, NEW q \in Quantities, NEW to \in Points
    PROVE  LET u == [unit EXCEPT ![q] = to] IN
           /\ u \in Units /\ u.on = unit.on /\ u[q] = to
           /\ \A p \in Quantities \ {q} : u[p] = unit[p]
BY DEF Units, Quantities

LEMMA UnitSwitched ==
    ASSUME Bounds, unit \in Units, NEW q \in {"on"}, NEW to \in BOOLEAN
    PROVE  LET u == [unit EXCEPT ![q] = to] IN
           /\ u \in Units /\ u.on = to
           /\ \A p \in Quantities : u[p] = unit[p]
BY DEF Units, Quantities

\* What the unit answers.
LEMMA ReplyIs ==
    ASSUME Bounds, unit \in Units, NEW asked \in Commands
    PROVE  /\ Reply(asked) \in Replies /\ Reply(asked).to = asked
           /\ asked \in Quantities => Reply(asked).says = unit[asked]
           /\ asked = "status" => (Reply(asked).says = 1) = unit.on
<1>1. asked = "identity" => Reply(asked) = [to |-> asked, says |-> 0]
  BY DEF Reply, Quantities
<1>2. asked \in Quantities => Reply(asked) = [to |-> asked, says |-> unit[asked]] /\ unit[asked] \in Points
  BY DEF Reply, Units, Quantities
<1>3. asked \in {"measured v", "measured i"} => Reply(asked) = [to |-> asked, says |-> 0]
  BY DEF Reply, Quantities
<1>4. asked = "status" => Reply(asked) = [to |-> asked, says |-> IF unit.on THEN 1 ELSE 0]
  BY DEF Reply, Quantities
<1>5. 0 \in Points /\ 1 \in Points /\ Quantities \subseteq Commands
  <2>1. 0 \in Points /\ 1 \in Points
    BY DEF Bounds, Points
  <2> QED BY <2>1 DEF Commands, Numbers, Quantities
<1>6. \A says \in Points : [to |-> asked, says |-> says] \in Replies
  BY DEF Replies
<1>7. CASE asked \in Quantities
  BY <1>2, <1>6, <1>7 DEF Quantities
<1>8. CASE asked = "status"
  BY <1>4, <1>5, <1>6, <1>8 DEF Quantities, Units
<1>9. CASE asked \in {"identity", "measured v", "measured i"}
  <2>1. asked \notin Quantities /\ asked # "status"
    BY <1>9 DEF Quantities
  <2>2. Reply(asked) = [to |-> asked, says |-> 0]
    BY <1>1, <1>3, <1>9
  <2> QED BY <1>5, <1>6, <2>1, <2>2
<1> QED BY <1>7, <1>8, <1>9 DEF Commands, Numbers, Quantities

\* The status left to ask, less its first query.
LEMMA StatusGoesOn ==
    ASSUME NEW s \in Seq(Commands), OfStatus(s), s # <<>>
    PROVE  /\ OfStatus(Tail(s)) /\ 1 <= Len(s) /\ Len(s) <= 6 /\ Len(Tail(s)) = Len(s) - 1 /\ Tail(s) \in Seq(Commands)
           /\ Len(s) = 6 => Head(s) \in Quantities
           /\ Len(s) = 5 => Head(s) = "v"
           /\ Len(s) = 4 => Head(s) = "i"
           /\ Len(s) = 3 => Head(s) = "measured v"
           /\ Len(s) = 2 => Head(s) = "measured i"
           /\ Len(s) = 1 => Head(s) = "status"
           /\ (Tail(s) = <<>>) = (Len(s) = 1)
<1>1. Len(s) \in Nat /\ 1 <= Len(s) /\ Len(s) <= 6 /\ Head(s) = s[1]
  <2>1. Len(s) \in Nat \ {0}
    BY EmptySeq
  <2>2. Len(s) <= 6
    BY DEF OfStatus
  <2>3. Head(s) = s[1]
    OBVIOUS
  <2>4. 1 <= Len(s)
    BY <2>1
  <2> QED BY <2>1, <2>2, <2>3, <2>4
<1>2. /\ Tail(s) \in Seq(Commands) /\ Len(Tail(s)) = Len(s) - 1
      /\ \A n \in 1..Len(Tail(s)) : Tail(s)[n] = s[n + 1]
  BY HeadTailProperties
<1>3. ASSUME NEW n \in 1..Len(Tail(s)), n + 5 > Len(Tail(s))
      PROVE  Tail(s)[n] = ChannelStatus[n + 5 - Len(Tail(s))]
  <2>1. n + 1 \in 1..Len(s) /\ (n + 1) + 5 > Len(s)
    BY <1>1, <1>2, <1>3
  <2>2. s[n + 1] = ChannelStatus[(n + 1) + 5 - Len(s)]
    BY <2>1 DEF OfStatus
  <2>3. (n + 1) + 5 - Len(s) = n + 5 - Len(Tail(s))
    BY <1>1, <1>2
  <2> QED BY <1>2, <2>2, <2>3
<1>4. OfStatus(Tail(s))
  <2> DEFINE r == Tail(s)
             m == Len(r)
  <2>1. m < 6 /\ m \in Nat
    BY <1>1, <1>2
  <2>2. \A n \in 1..m : n + 5 > m => r[n] = ChannelStatus[n + 5 - m]
    BY <1>3
  <2> HIDE DEF m
  <2>3. m <= 6 /\ ~(m = 6)
    BY <2>1
  <2> USE DEF m
  <2> QED BY <2>2, <2>3 DEF OfStatus
<1>5. Len(s) < 6 => Head(s) = ChannelStatus[6 - Len(s)]
  BY <1>1 DEF OfStatus
<1>6. /\ ChannelStatus[1] = "v" /\ ChannelStatus[2] = "i" /\ ChannelStatus[3] = "measured v"
      /\ ChannelStatus[4] = "measured i" /\ ChannelStatus[5] = "status"
  BY DEF ChannelStatus
<1>7. Len(s) = 6 => Head(s) \in Quantities
  BY <1>1 DEF OfStatus
<1>8. (Tail(s) = <<>>) = (Len(s) = 1)
  BY <1>1, <1>2, EmptySeq
<1>9. /\ Len(s) = 5 => Head(s) = "v"
      /\ Len(s) = 4 => Head(s) = "i"
      /\ Len(s) = 3 => Head(s) = "measured v"
      /\ Len(s) = 2 => Head(s) = "measured i"
      /\ Len(s) = 1 => Head(s) = "status"
  <2> DEFINE m == Len(s)
  <2>1. m \in Nat /\ (m < 6 => Head(s) = ChannelStatus[6 - m])
    BY <1>1, <1>5
  <2> HIDE DEF m
  <2>2. /\ m = 5 => Head(s) = "v"
        /\ m = 4 => Head(s) = "i"
        /\ m = 3 => Head(s) = "measured v"
        /\ m = 2 => Head(s) = "measured i"
        /\ m = 1 => Head(s) = "status"
    <3>1. /\ m = 5 => Head(s) = ChannelStatus[1]
          /\ m = 4 => Head(s) = ChannelStatus[2]
          /\ m = 3 => Head(s) = ChannelStatus[3]
          /\ m = 2 => Head(s) = ChannelStatus[4]
          /\ m = 1 => Head(s) = ChannelStatus[5]
      BY <2>1
    <3> QED BY <1>6, <3>1
  <2> QED BY <2>2 DEF m
<1> QED BY <1>1, <1>2, <1>4, <1>7, <1>8, <1>9

\* channel_status from its beginning, and after a set point's own query.
LEMMA StatusStarts ==
    /\ ChannelStatus \in Seq(Commands) /\ Len(ChannelStatus) = 5 /\ OfStatus(ChannelStatus)
    /\ <<>> \o ChannelStatus = ChannelStatus
    /\ \A q \in Quantities : /\ <<q>> \o ChannelStatus \in Seq(Commands) /\ Len(<<q>> \o ChannelStatus) = 6
                             /\ OfStatus(<<q>> \o ChannelStatus)
<1>1. ChannelStatus \in Seq(Commands) /\ Len(ChannelStatus) = 5
  BY DEF ChannelStatus, Commands, Numbers
<1>2. OfStatus(ChannelStatus)
  BY <1>1 DEF OfStatus
<1>3. <<>> \o ChannelStatus = ChannelStatus
  BY <1>1, ConcatEmptySeq
<1>4. ASSUME NEW q \in Quantities
      PROVE  /\ <<q>> \o ChannelStatus \in Seq(Commands) /\ Len(<<q>> \o ChannelStatus) = 6
             /\ OfStatus(<<q>> \o ChannelStatus)
  <2> DEFINE s == <<q>> \o ChannelStatus
  <2>1. <<q>> \in Seq(Commands) /\ Len(<<q>>) = 1 /\ <<q>>[1] = q
    <3>1. q \in Commands
      BY DEF Commands, Numbers, Quantities
    <3> QED BY <3>1
  <2>2. /\ s \in Seq(Commands) /\ Len(s) = Len(<<q>>) + Len(ChannelStatus)
        /\ \A n \in 1..Len(<<q>>) + Len(ChannelStatus) :
               s[n] = IF n <= Len(<<q>>) THEN <<q>>[n] ELSE ChannelStatus[n - Len(<<q>>)]
    BY <1>1, <2>1, ConcatProperties
  <2>3. Len(s) = 6 /\ s[1] = q /\ \A n \in 2..6 : s[n] = ChannelStatus[n - 1]
    BY <1>1, <2>1, <2>2
  <2> HIDE DEF s
  <2>4. OfStatus(s)
    BY <2>3 DEF OfStatus
  <2> QED BY <2>2, <2>3, <2>4 DEF s
<1> QED BY <1>1, <1>2, <1>3, <1>4

\* A result that is there.
LEMMA EndedTyped ==
    ASSUME Bounds, task \in Tasks, NEW ok \in BOOLEAN, NEW why \in SUBSET Reasons,
           NEW sent \in SUBSET (Quantities \cup {"on"})
    PROVE  /\ Ended(ok, why) \in Tasks
           /\ [Ended(ok, why) EXCEPT !.sent = sent] \in Tasks
           /\ [Ended(ok, why) EXCEPT !.sent = task.sent] = Ended(ok, why)
<1>1. Unread \in Readings
  BY DEF Bounds, Unread, Readings
<1>2. <<>> \in Seq(StepsOf) /\ <<>> \in Seq(Commands)
  OBVIOUS
<1>3. "ended" \in Stages
  BY DEF Stages
<1> HIDE DEF Bounds
<1> QED BY <1>1, <1>2, <1>3 DEF Ended, Tasks

\* What is left to show of a call whose result is there.
LEMMA EndedIInv ==
    ASSUME Bounds, IInv, Typed', task.at # "idle",
           NEW ok \in BOOLEAN, NEW why \in SUBSET Reasons, NEW sent \in SUBSET (Quantities \cup {"on"}),
           IF task.tool = "set" THEN "on" \notin sent ELSE sent \subseteq {"on"},
           task' = [Ended(ok, why) EXCEPT !.sent = sent],
           AnswerTrue', WrittenWithinLimits', PairKept'
    PROVE  IInv'
<1>0. task \in Tasks
  BY DEF IInv, Typed
<1>1. /\ task'.at = "ended" /\ task'.todo = <<>> /\ task'.steps = <<>> /\ task'.sent = sent
      /\ task'.tool = task.tool /\ task'.wants = task.wants /\ task'.start = task.start
  BY <1>0 DEF Ended, Tasks
<1>2. Asking' /\ Aligned' /\ Truth'
  BY <1>1 DEF IInv, Asking, Aligned, Truth, Partial, PartialTrue, Whole
<1>3. Requested'
  <2>1. Len(task'.steps) = 0
    BY <1>1
  <2> QED BY <1>1, <2>1 DEF IInv, Requested
<1>4. Limits' /\ Pairs'
  BY <1>1 DEF Limits, Pairs
<1> QED BY <1>2, <1>3, <1>4 DEF IInv

-----------------------------------------------------------------------------
(* A query.                                                                 *)

\* Nothing of the call but what it reads.
SameCall ==
    /\ task'.at = task.at /\ task'.tool = task.tool /\ task'.wants = task.wants /\ task'.steps = task.steps
    /\ task'.sent = task.sent /\ task'.touched = task.touched /\ task'.wild = task.wild
    /\ task'.ok = task.ok /\ task'.why = task.why /\ task'.start = task.start

LEMMA SameCallKeeps ==
    ASSUME IInv, SameCall, UNCHANGED unit, task.at # "ended"
    PROVE  Requested' /\ Limits' /\ Pairs'
<1>1. Requested'
  BY DEF SameCall, IInv, Requested
<1>2. Limits'
  BY DEF SameCall, IInv, Limits, WrittenWithinLimits, Switches, AllWithin, Within
<1>3. Due' = Due
  BY DEF SameCall, Due
<1>4. HalfWay => HalfWay'
  BY <1>3 DEF SameCall, HalfWay, InOrder
<1>5. PairKept'
  BY DEF SameCall, IInv, Pairs, PairKept
<1>6. Pairs'
  BY <1>4, <1>5 DEF SameCall, IInv, Pairs
<1> QED BY <1>1, <1>2, <1>6

\* A query that is not answered, or wrongly, ends the call before anything was sent
\* or with the supply in doubt.
LEMMA QueryFails ==
    ASSUME Bounds, IInv, task.todo # <<>>, UNCHANGED <<unit, hold, inRun, owed>>,
           line' \in Seq(Replies), Len(line') <= MaxLate, mishaps' \in 0..MaxFaults,
           task' = NoReply \/ (task.sent = {} /\ task' = Ended(FALSE, {}))
    PROVE  IInv'
<1>0. task \in Tasks /\ unit \in Units
  BY DEF IInv, Typed
<1>1. task.at \in {"identity", "before", "check"}
  BY <1>0 DEF IInv, Asking, Tasks, Stages
<1>2. PICK why \in {{}, {"unconfirmed"}} :
         /\ task' = Ended(FALSE, why) /\ (why = {} => task.sent = {})
  BY DEF NoReply
<1>3. why \in SUBSET Reasons /\ task.sent \in SUBSET (Quantities \cup {"on"})
  BY <1>0 DEF Reasons, Tasks
<1>4. Ended(FALSE, why) \in Tasks /\ [Ended(FALSE, why) EXCEPT !.sent = task.sent] = Ended(FALSE, why)
  BY <1>0, <1>3, EndedTyped
<1>5. /\ task'.at = "ended" /\ task'.why = why /\ task'.sent = task.sent
      /\ task'.last = task.last /\ task'.start = task.start /\ task'.touched = task.touched
      /\ task'.tool = task.tool /\ task'.wants = task.wants /\ task'.wild = task.wild /\ task'.ok = FALSE
  BY <1>0, <1>2 DEF Ended, Tasks
<1>6. why = {} => task.last = Unread /\ (task.touched \/ task.start = unit) /\ task.sent = {}
  <2>1. task.at = "check" => task.sent # {}
    BY DEF IInv, Requested
  <2>2. ~Whole
    BY <1>1 DEF Whole
  <2> QED BY <1>1, <1>2, <2>1, <2>2 DEF IInv, Truth
<1>7. Typed'
  BY <1>0, <1>2, <1>4 DEF IInv, Typed
<1>8. AnswerTrue'
  BY <1>2, <1>5, <1>6 DEF AnswerTrue
<1>9. WrittenWithinLimits'
  BY <1>5, <1>6 DEF WrittenWithinLimits
<1>10. PairKept'
  BY <1>1, <1>5 DEF IInv, Pairs, PairKept
<1>11. IF task.tool = "set" THEN "on" \notin task.sent ELSE task.sent \subseteq {"on"}
  BY DEF IInv, Requested
<1>12. task' = [Ended(FALSE, why) EXCEPT !.sent = task.sent]
  BY <1>2, <1>4
<1> QED BY <1>1, <1>3, <1>7, <1>8, <1>9, <1>10, <1>11, <1>12, EndedIInv

\* The line after a query: what was behind moves up, and the reply comes last.
LEMMA LineMoves ==
    ASSUME line \in Seq(Replies), NEW r \in Replies
    PROVE  /\ Append(line, r) \in Seq(Replies) /\ Head(Append(line, r)) \in Replies
           /\ Len(Append(line, r)) = Len(line) + 1
           /\ Tail(Append(line, r)) \in Seq(Replies) /\ Len(Tail(Append(line, r))) = Len(line)
           /\ Head(Append(line, r)) = IF line = <<>> THEN r ELSE line[1]
           /\ \A n \in 1..Len(line) :
                 Tail(Append(line, r))[n] = IF n = Len(line) THEN r ELSE line[n + 1]
<1> DEFINE coming == Append(line, r)
           m == Len(line)
<1>1. /\ coming \in Seq(Replies) /\ coming # <<>> /\ Len(coming) = m + 1 /\ m \in Nat
      /\ \A n \in 1..m : coming[n] = line[n]
      /\ coming[m + 1] = r
  BY AppendProperties
<1>2. m = 0 <=> line = <<>>
  BY EmptySeq
<1>3. /\ Head(coming) \in Replies /\ Tail(coming) \in Seq(Replies) /\ Len(Tail(coming)) = Len(coming) - 1
      /\ \A n \in 1..Len(Tail(coming)) : Tail(coming)[n] = coming[n + 1]
  BY <1>1, HeadTailProperties
<1>4. Head(coming) = coming[1]
  BY <1>1
<1> HIDE DEF coming, m
<1>5. Len(Tail(coming)) = m
  BY <1>1, <1>3
<1>6. \A n \in 1..m : Tail(coming)[n] = IF n = m THEN r ELSE line[n + 1]
  BY <1>1, <1>3, <1>5
<1>7. Head(coming) = IF line = <<>> THEN r ELSE line[1]
  BY <1>1, <1>2, <1>4
<1> QED BY <1>1, <1>3, <1>5, <1>6, <1>7 DEF coming, m

\* One more query read: the mark stays where it was among the replies.
LEMMA MarkMoves ==
    ASSUME line \in Seq(Replies), NEW r \in Replies, NEW asked \in Nat, Marked(asked),
           line' = Tail(Append(line, r)), line # <<>> => line[1].to # "identity"
    PROVE  Marked(asked + 1)' /\ (line' = <<>>) = (line = <<>>)
<1> DEFINE m == Len(line)
<1>1. /\ line' \in Seq(Replies) /\ Len(line') = m /\ m \in Nat
      /\ \A n \in 1..m : line'[n] = IF n = m THEN r ELSE line[n + 1]
  BY LineMoves
<1>2. (m = 0 <=> line = <<>>) /\ (m = 0 <=> line' = <<>>)
  BY <1>1, EmptySeq
<1>3. CASE line = <<>>
  BY <1>2, <1>3 DEF Marked
<1>4. CASE line # <<>>
  <2>1. asked < m /\ line[m - asked].to = "identity"
    BY <1>4 DEF Marked
  <2> HIDE DEF m
  <2>2. m - asked # 1
    BY <1>4, <2>1
  <2>a. m \in Nat /\ asked \in Nat
    BY <1>1
  <2>3. asked + 1 < m
    BY <2>a, <2>1, <2>2
  <2>b. m - (asked + 1) \in 1..m /\ m - (asked + 1) # m /\ (m - (asked + 1)) + 1 = m - asked
    BY <2>a, <2>3
  <2>4. line'[m - (asked + 1)].to = "identity"
    BY <1>1, <2>1, <2>b
  <2>5. Len(line') = m
    BY <1>1
  <2> QED BY <1>2, <1>4, <2>3, <2>4, <2>5 DEF Marked
<1> QED BY <1>2, <1>3, <1>4

\* A query that is answered.
LEMMA QueryAnswered ==
    ASSUME Bounds, FewLate, IInv, task.todo # <<>>, UNCHANGED <<unit, hold, inRun, owed, mishaps>>,
           NEW asked, asked = Head(task.todo), NEW heard, heard = Head(Append(line, Reply(asked))),
           line' = Tail(Append(line, Reply(asked))), ReadsAs(asked, heard),
           task' = [task EXCEPT !.todo = Tail(@),
                                !.reading = IF asked = "status" THEN Unread ELSE Reading(asked, heard),
                                !.last = IF asked = "status" THEN Reading(asked, heard) ELSE @]
    PROVE  IInv'
<1> DEFINE r == Reply(asked)
<1>0. /\ task \in Tasks /\ unit \in Units /\ line \in Seq(Replies) /\ Len(line) <= MaxLate
      /\ Asking /\ Aligned /\ Truth
  BY DEF IInv, Typed
<1>1. task.at \in {"identity", "before", "check"} /\ task.todo \in Seq(Commands)
  BY <1>0 DEF Asking, Tasks, Stages
<1>2. asked \in Commands /\ Tail(task.todo) \in Seq(Commands)
  BY <1>1, HeadTailProperties
<1>3. /\ r \in Replies /\ r.to = asked
      /\ asked \in Quantities => r.says = unit[asked]
      /\ asked = "status" => (r.says = 1) = unit.on
  BY <1>0, <1>2, ReplyIs
<1>4. heard \in Replies /\ heard = (IF line = <<>> THEN r ELSE line[1])
      /\ line' \in Seq(Replies) /\ Len(line') = Len(line)
  BY <1>0, <1>3, LineMoves
<1>5. /\ SameCall /\ task'.todo = Tail(task.todo)
      /\ task'.reading = (IF asked = "status" THEN Unread ELSE Reading(asked, heard))
      /\ task'.last = (IF asked = "status" THEN Reading(asked, heard) ELSE task.last)
  BY <1>0 DEF Tasks, SameCall
<1>6. Unread \in Readings /\ task.reading \in Readings /\ heard.says \in Points
      /\ \A p \in Points : p \in 0..Top + 1
  <2>1. heard.says \in Points \cup {1} /\ 1 \in Points
    BY <1>4 DEF Replies, Points, Bounds
  <2>2. Unread \in Readings
    BY DEF Bounds, Unread, Readings
  <2>3. \A p \in Points : p \in 0..Top + 1
    BY DEF Bounds, Points
  <2> QED BY <1>0, <2>1, <2>2, <2>3 DEF Tasks
<1>7. /\ Reading(asked, heard) \in Readings
      /\ Reading(asked, heard).v = (IF asked = "v" THEN heard.says ELSE task.reading.v)
      /\ Reading(asked, heard).i = (IF asked = "i" THEN heard.says ELSE task.reading.i)
      /\ asked = "status" => Reading(asked, heard).on = (heard.says = 1)
  <2>1. asked = "v" => Reading(asked, heard) = [task.reading EXCEPT !.v = heard.says]
    BY DEF Reading, Quantities
  <2>2. asked = "i" => Reading(asked, heard) = [task.reading EXCEPT !.i = heard.says]
    BY DEF Reading, Quantities
  <2>3. asked = "status" => Reading(asked, heard) = [task.reading EXCEPT !.on = (heard.says = 1)]
    BY DEF Reading, Quantities
  <2>4. asked \notin {"v", "i", "status"} => Reading(asked, heard) = task.reading
    BY DEF Reading, Quantities
  <2> QED BY <1>6, <2>1, <2>2, <2>3, <2>4 DEF Readings
<1> DEFINE k == Len(task.todo)
<1>8. k \in Nat /\ k # 0
  BY <1>1, EmptySeq
<1>9. task.at = "identity" => asked = "identity" /\ Tail(task.todo) = <<>>
  <2>1. SUFFICES ASSUME task.at = "identity" PROVE asked = "identity" /\ Tail(task.todo) = <<>>
    OBVIOUS
  <2>2. task.todo = <<"identity">>
    BY <1>0, <2>1 DEF Asking
  <2> QED BY <2>2
<1>10. task.at \in {"before", "check"} =>
         /\ OfStatus(Tail(task.todo)) /\ k <= 6 /\ Len(Tail(task.todo)) = k - 1
         /\ k = 6 => asked \in Quantities
         /\ k = 5 => asked = "v"
         /\ k = 4 => asked = "i"
         /\ k = 3 => asked = "measured v"
         /\ k = 2 => asked = "measured i"
         /\ k = 1 => asked = "status"
         /\ (Tail(task.todo) = <<>>) = (k = 1)
         /\ task.at = "before" => k < 6
  BY <1>0, <1>1, StatusGoesOn DEF Asking
<1> HIDE DEF k
<1>11. task.at \in {"before", "check"} => (asked = "status") = (k = 1) /\ asked \in Numbers \cup {"status"}
  <2>1. SUFFICES ASSUME task.at \in {"before", "check"}
                 PROVE  (asked = "status") = (k = 1) /\ asked \in Numbers \cup {"status"}
    OBVIOUS
  <2>2. k <= 6
    BY <1>10, <2>1
  <2>3. k = 1 \/ k = 2 \/ k = 3 \/ k = 4 \/ k = 5 \/ k = 6
    BY <1>8, <2>2
  <2> QED BY <1>10, <2>1, <2>3 DEF Quantities, Numbers
<1>12. task.at \in {"before", "check"} => heard.to # "identity"
  BY <1>11 DEF ReadsAs, Numbers
<1>13. Aligned'
  <2>1. CASE task.at = "identity"
    <3> DEFINE m == Len(line)
    <3>1. /\ m \in Nat /\ (m = 0 <=> line = <<>>) /\ (m = 0 <=> line' = <<>>)
      BY <1>0, <1>4, EmptySeq
    <3>2. \A n \in 1..m : line'[n] = IF n = m THEN r ELSE line[n + 1]
      BY <1>0, <1>3, LineMoves
    <3>3. Len(line') = m
      BY <1>4
    <3> HIDE DEF m
    <3>4. m # 0 => line'[m - 0].to = "identity" /\ 0 < m
      <4>1. m # 0 => m \in 1..m /\ m - 0 = m /\ 0 < m
        BY <3>1
      <4>2. r.to = "identity"
        BY <1>3, <1>9, <2>1
      <4>3. m # 0 => line'[m] = r
        BY <3>2, <4>1
      <4> HIDE DEF r
      <4> QED BY <4>1, <4>2, <4>3
    <3>5. Marked(0)'
      BY <3>1, <3>3, <3>4 DEF Marked
    <3> QED BY <1>5, <2>1, <3>5 DEF Aligned, SameCall
  <2>2. CASE task.at = "before"
    <3>0. PICK a \in Nat : a = 5 - k
      <4>1. k < 6
        BY <1>10, <2>2
      <4> QED BY <1>8, <4>1
    <3>1. a + 1 = 5 - (k - 1)
      BY <1>8, <3>0
    <3>2. Marked(a)
      BY <1>0, <2>2, <3>0 DEF Aligned, k
    <3>3. line # <<>> => line[1].to # "identity"
      BY <1>4, <1>12, <2>2
    <3>4. Marked(a + 1)'
      <4>1. line' = Tail(Append(line, r)) /\ r \in Replies
        BY <1>3
      <4> HIDE DEF r
      <4> QED BY <1>0, <3>2, <3>3, <4>1, MarkMoves
    <3>5. 5 - Len(task'.todo) = a + 1
      <4>1. Len(task'.todo) = k - 1
        BY <1>5, <1>10, <2>2
      <4> QED BY <3>1, <4>1
    <3>6. Marked(5 - Len(task.todo))'
      BY <3>4, <3>5
    <3> QED BY <1>5, <2>2, <3>6 DEF Aligned, SameCall
  <2>3. CASE task.at = "check"
    <3>1. line = <<>> /\ Len(line') = 0
      BY <1>0, <1>4, <2>3 DEF Aligned
    <3>2. line' = <<>>
      BY <1>4, <3>1, EmptySeq
    <3> QED BY <1>5, <2>3, <3>2 DEF Aligned, SameCall
  <2> QED BY <1>1, <2>1, <2>2, <2>3
<1>14. Asking'
  <2>1. CASE task.at = "identity"
    BY <1>5, <1>9, <2>1 DEF Asking, SameCall
  <2>2. CASE task.at \in {"before", "check"}
    <3>1. k - 1 < 6 /\ (task.at = "before" => k - 1 < 6)
      <4>1. k <= 6
        BY <1>10, <2>2
      <4> QED BY <1>8, <4>1
    <3>2. OfStatus(task'.todo) /\ Len(task'.todo) < 6
      BY <1>5, <1>10, <2>2, <3>1
    <3> QED BY <1>5, <2>2, <3>2 DEF Asking, SameCall
  <2> QED BY <1>1, <2>1, <2>2
<1>15. line = <<>> <=> line' = <<>>
  <2>1. \A s \in Seq(Replies) : Len(s) = 0 <=> s = <<>>
    BY EmptySeq
  <2> QED BY <1>0, <1>4, <2>1
<1>16. task.at \in {"before", "check"} /\ k = 1 => line = <<>>
  <2>1. CASE task.at = "before" /\ k = 1
    <3>1. Len(task'.todo) = 0
      BY <1>5, <1>10, <2>1
    <3>2. Marked(5 - 0)'
      BY <1>5, <1>13, <2>1, <3>1 DEF Aligned, SameCall
    <3>3. ~(5 < Len(line'))
      BY <1>0, <1>4 DEF FewLate, Bounds
    <3> QED BY <1>15, <3>2, <3>3 DEF Marked
  <2>2. CASE task.at = "check"
    BY <1>0, <2>2 DEF Aligned
  <2> QED BY <2>1, <2>2
<1>17. Partial'
  <2>1. SUFFICES ASSUME task.at \in {"before", "check"} PROVE Partial'
    BY <1>5 DEF Partial, PartialTrue, SameCall
  <2>2. k = 1 => Partial'
    <3>1. k = 1 => Len(task'.todo) = 0
      <4>1. k = 1 => task'.todo = <<>>
        BY <1>5, <1>10, <2>1
      <4> QED BY <4>1
    <3>2. k = 1 => ~(0 < Len(task'.todo))
      <4>1. ~(0 < 0)
        OBVIOUS
      <4> QED BY <3>1, <4>1, Zenon
    <3> QED BY <3>2 DEF Partial, PartialTrue
  <2>3. ASSUME k # 1 PROVE Partial'
    <3> DEFINE j == Len(task'.todo)
    <3>1. j = k - 1
      BY <1>5, <1>10, <2>1
    <3>2. task'.reading = Reading(asked, heard)
      BY <1>5, <1>11, <2>1, <2>3
    <3>3. /\ k < 5 => task.reading.v \in Points /\ (line = <<>> /\ ~task.touched => task.reading.v = unit.v)
          /\ k < 4 => task.reading.i \in Points /\ (line = <<>> /\ ~task.touched => task.reading.i = unit.i)
      BY <1>0, <1>8, <2>1 DEF Truth, Partial, PartialTrue, k
    <3>4. line = <<>> => heard.says = r.says
      BY <1>4
    <3>5. /\ j < 5 => task'.reading.v \in Points /\ (line = <<>> /\ ~task.touched => task'.reading.v = unit.v)
          /\ j < 4 => task'.reading.i \in Points /\ (line = <<>> /\ ~task.touched => task'.reading.i = unit.i)
      <4> HIDE DEF j
      <4>1. j < 5 => k = 5 \/ k < 5
        BY <1>8, <3>1
      <4>2. j < 4 => k = 4 \/ k < 4
        BY <1>8, <3>1
      <4>3. k = 5 => asked = "v" /\ r.says = unit.v
        BY <1>3, <1>10, <2>1 DEF Quantities
      <4>4. k = 4 => asked = "i" /\ r.says = unit.i
        BY <1>3, <1>10, <2>1 DEF Quantities
      <4>5. k < 5 => asked # "v"
        <5>1. k < 5 => k = 1 \/ k = 2 \/ k = 3 \/ k = 4
          BY <1>8
        <5> QED BY <1>10, <2>1, <5>1
      <4>6. k < 4 => asked # "i"
        <5>1. k < 4 => k = 1 \/ k = 2 \/ k = 3
          BY <1>8
        <5> QED BY <1>10, <2>1, <5>1
      <4>7. k = 5 \/ k < 5 => task'.reading.v \in Points /\ (line = <<>> /\ ~task.touched => task'.reading.v = unit.v)
        BY <1>6, <1>7, <3>2, <3>3, <3>4, <4>3, <4>5
      <4>8. k = 4 \/ k < 4 => task'.reading.i \in Points /\ (line = <<>> /\ ~task.touched => task'.reading.i = unit.i)
        BY <1>6, <1>7, <3>2, <3>3, <3>4, <4>4, <4>6
      <4> QED BY <4>1, <4>2, <4>7, <4>8
    <3> QED BY <1>5, <1>15, <3>5 DEF Partial, PartialTrue, SameCall
  <2> QED BY <2>2, <2>3
<1>18. Whole' => task'.last \in Units /\ (task'.touched \/ task'.last = unit')
  <2>1. SUFFICES ASSUME Whole' PROVE task'.last \in Units /\ (task'.touched \/ task'.last = unit')
    OBVIOUS
  <2>2. task.at \in {"before", "check"} /\ k = 1 /\ asked = "status"
    BY <1>1, <1>5, <1>10, <1>11, <2>1 DEF Whole, SameCall
  <2>3. task'.last = Reading(asked, heard) /\ line = <<>> /\ heard = r
    BY <1>4, <1>5, <1>16, <2>2
  <2>4. /\ task.reading.v \in Points /\ (~task.touched => task.reading.v = unit.v)
        /\ task.reading.i \in Points /\ (~task.touched => task.reading.i = unit.i)
    BY <1>0, <2>2, <2>3 DEF Truth, Partial, PartialTrue, k
  <2>5. /\ task'.last \in Readings /\ task'.last.v = task.reading.v /\ task'.last.i = task.reading.i
        /\ task'.last.on = unit.on
    BY <1>3, <1>7, <2>2, <2>3
  <2>6. task'.last = [v |-> task.reading.v, i |-> task.reading.i, on |-> unit.on]
    BY <2>5 DEF Readings
  <2>7. task'.last \in Units
    BY <1>0, <2>4, <2>6 DEF Units
  <2>8. ~task.touched => task'.last = unit
    BY <1>0, <2>4, <2>6 DEF Units
  <2> QED BY <1>5, <2>7, <2>8 DEF SameCall
<1>19. Truth'
  <2>1. task.at \in {"identity", "before"} /\ ~Whole' => task'.last = task.last /\ ~Whole
    BY <1>1, <1>5, <1>9, <1>10, <1>11 DEF Whole, SameCall
  <2>2. task.at # "idle" /\ task.at # "ended"
    BY <1>1
  <2> QED BY <1>0, <1>5, <1>17, <1>18, <2>1, <2>2 DEF Truth, AnswerTrue, SameCall
<1>20. Requested' /\ Limits' /\ Pairs'
  BY <1>1, <1>5, SameCallKeeps
<1>21. task' \in Tasks
  <2>1. task'.last \in Units \cup {Unread}
    <3>1. asked = "status" => Whole'
      BY <1>1, <1>5, <1>9, <1>10, <1>11 DEF Whole, SameCall
    <3>2. asked # "status" => task'.last = task.last
      BY <1>5
    <3> QED BY <1>0, <1>18, <3>1, <3>2 DEF Tasks
  <2>2. task' = [task EXCEPT !.todo = task'.todo, !.reading = task'.reading, !.last = task'.last]
    BY <1>0 DEF Tasks
  <2>3. task'.todo \in Seq(Commands) /\ task'.reading \in Readings
    BY <1>2, <1>5, <1>6, <1>7
  <2> QED BY <1>0, <2>1, <2>2, <2>3 DEF Tasks
<1>22. Typed'
  BY <1>4, <1>21 DEF IInv, Typed
<1> QED BY <1>13, <1>14, <1>19, <1>20, <1>22 DEF IInv

LEMMA InvExchange == ASSUME Bounds, FewLate, IInv, Exchange PROVE IInv'
<1>0. /\ task \in Tasks /\ unit \in Units /\ line \in Seq(Replies) /\ Len(line) <= MaxLate
      /\ mishaps \in 0..MaxFaults /\ task.todo # <<>> /\ UNCHANGED <<unit, hold, inRun, owed>>
  BY DEF IInv, Typed, Exchange
<1> DEFINE asked == Head(task.todo)
           r == Reply(asked)
           coming == Append(line, r)
<1>1. task.at \in {"identity", "before", "check"} /\ task.todo \in Seq(Commands)
  BY <1>0 DEF IInv, Asking, Tasks, Stages
<1>2. asked \in Commands
  BY <1>0, <1>1, HeadTailProperties
<1>3. r \in Replies
  BY <1>0, <1>2, ReplyIs
<1>4. /\ coming \in Seq(Replies) /\ Len(coming) = Len(line) + 1
      /\ Tail(coming) \in Seq(Replies) /\ Len(Tail(coming)) = Len(line)
  <2> HIDE DEF r
  <2> QED BY <1>0, <1>3, LineMoves
<1>5. asked = "identity" => task.sent = {}
  <2>1. task.at \in {"identity", "before"} => task.sent = {}
    BY DEF IInv, Truth
  <2>2. task.at = "check" => asked # "identity"
    <3>1. SUFFICES ASSUME task.at = "check" PROVE asked # "identity"
      OBVIOUS
    <3>2. OfStatus(task.todo)
      BY <3>1 DEF IInv, Asking
    <3> DEFINE k == Len(task.todo)
    <3>3. /\ k = 6 => asked \in Quantities
          /\ k = 5 => asked = "v"
          /\ k = 4 => asked = "i"
          /\ k = 3 => asked = "measured v"
          /\ k = 2 => asked = "measured i"
          /\ k = 1 => asked = "status"
      BY <1>0, <1>1, <3>2, StatusGoesOn
    <3>4. k \in Nat /\ 1 <= k /\ k <= 6
      <4>1. 1 <= k /\ k <= 6
        BY <1>0, <1>1, <3>2, StatusGoesOn
      <4> QED BY <1>1, <4>1
    <3> HIDE DEF k
    <3>5. k = 1 \/ k = 2 \/ k = 3 \/ k = 4 \/ k = 5 \/ k = 6
      BY <3>4
    <3> QED BY <3>3, <3>5 DEF Quantities
  <2> QED BY <1>1, <2>1, <2>2
<1>6. CASE Sound /\ Heard(asked, Head(coming)) /\ line' = Tail(coming)
  <2>1. CASE ReadsAs(asked, Head(coming))
    <3>1. task' = [task EXCEPT !.todo = Tail(@),
                               !.reading = IF asked = "status" THEN Unread ELSE Reading(asked, Head(coming)),
                               !.last = IF asked = "status" THEN Reading(asked, Head(coming)) ELSE @]
      BY <1>6, <2>1 DEF Heard
    <3> QED BY <1>0, <1>6, <2>1, <3>1, QueryAnswered DEF Sound
  <2>2. CASE ~ReadsAs(asked, Head(coming))
    <3>1. task' = NoReply \/ (task.sent = {} /\ task' = Ended(FALSE, {}))
      BY <1>5, <1>6, <2>2 DEF Heard
    <3>2. line' \in Seq(Replies) /\ Len(line') <= MaxLate /\ mishaps' \in 0..MaxFaults
      BY <1>0, <1>4, <1>6 DEF Sound
    <3> QED BY <1>0, <3>1, <3>2, QueryFails
  <2> QED BY <2>1, <2>2
<1>7. CASE Fault /\ task' = NoReply /\ (UNCHANGED line \/ (Len(line) < MaxLate /\ line' = coming))
  <2>1. mishaps' \in 0..MaxFaults
    BY <1>0, <1>7 DEF Fault, Bounds
  <2>2. line' \in Seq(Replies) /\ Len(line') <= MaxLate
    <3> DEFINE m == Len(line)
    <3>1. m \in Nat /\ MaxLate \in Nat
      BY <1>0 DEF Bounds
    <3> HIDE DEF m
    <3>2. m < MaxLate => m + 1 <= MaxLate
      BY <3>1
    <3> USE DEF m
    <3>3. CASE UNCHANGED line
      BY <1>0, <3>3
    <3>4. CASE Len(line) < MaxLate /\ line' = coming
      BY <1>4, <3>2, <3>4
    <3> QED BY <1>7, <3>3, <3>4
  <2> QED BY <1>0, <1>7, <2>1, <2>2, QueryFails
<1> QED BY <1>6, <1>7 DEF Exchange

-----------------------------------------------------------------------------
(* A call, from its request to its first write.                             *)

LEMMA InvCalled ==
    ASSUME Bounds, IInv, NEW tool \in Tools, NEW wants \in Requests, NEW steps \in Seq(StepsOf),
           Called(tool, wants, steps),
           tool = "set" => DOMAIN wants # {} /\ steps = <<>>,
           tool \in {"output", "cycle"} => steps # <<>>,
           \A n \in 1..Len(steps) : steps[n].q = "on"
    PROVE  IInv'
<1>0. /\ unit \in Units /\ unit' = unit /\ line \in Seq(Replies) /\ Len(line) <= MaxLate
      /\ \A q \in DOMAIN wants : Within(q, wants[q])
  BY DEF IInv, Typed, Called
<1>1. task' = [Idle EXCEPT !.at = "identity", !.tool = tool, !.wants = wants, !.steps = steps,
                           !.todo = <<"identity">>, !.start = unit]
  BY DEF Called
<1>2. /\ task'.at = "identity" /\ task'.tool = tool /\ task'.wants = wants /\ task'.steps = steps
      /\ task'.todo = <<"identity">> /\ task'.start = unit /\ task'.last = Unread
      /\ task'.sent = {} /\ task'.touched = FALSE
  BY <1>1 DEF Idle
<1>3. task' \in Tasks
  <2>1. <<"identity">> \in Seq(Commands) /\ "identity" \in Stages
    BY DEF Commands, Stages
  <2> QED BY <1>0, <1>1, <2>1, IdleIs DEF Tasks
<1>4. line' \in Seq(Replies) /\ Len(line') <= MaxLate
  <2>1. PICK arrived \in 0..Len(line) : line' = SubSeq(line, arrived + 1, Len(line))
    BY DEF Called
  <2> DEFINE m == Len(line)
  <2>2. m \in Nat /\ m <= MaxLate /\ arrived \in 0..m /\ MaxLate \in Nat
    BY <1>0, <2>1 DEF Bounds
  <2>3. line' \in Seq(Replies) /\ Len(line') = IF arrived + 1 <= m THEN m - (arrived + 1) + 1 ELSE 0
    <3>1. \A n \in arrived + 1..m : n \in 1..m
      BY <2>2
    <3>2. \A n \in 1..m : line[n] \in Replies
      BY <1>0
    <3>3. arrived + 1 \in Int /\ m \in Int
      BY <2>2
    <3> QED BY <1>0, <2>1, <3>1, <3>2, <3>3, SubSeqProperties
  <2> HIDE DEF m
  <2>4. (IF arrived + 1 <= m THEN m - (arrived + 1) + 1 ELSE 0) <= MaxLate
    BY <2>2
  <2> QED BY <2>3, <2>4
<1>5. Typed'
  BY <1>0, <1>3, <1>4 DEF IInv, Typed, Called
<1>6. ~Whole'
  BY <1>2 DEF Whole
<1>7. Asking' /\ Aligned'
  BY <1>2 DEF Asking, Aligned
<1>8. Truth'
  BY <1>0, <1>2, <1>6 DEF Truth, Partial, PartialTrue, AnswerTrue
<1>9. \A q \in DOMAIN wants : q \in Quantities /\ wants[q] \in Points
  BY DEF Requests
<1>10. Requested'
  <2>1. tool = "set" => Len(steps) = 0
    OBVIOUS
  <2> QED BY <1>0, <1>2, <1>9, <2>1 DEF Requested, Within
<1>11. Limits'
  BY <1>2 DEF Limits, WrittenWithinLimits
<1>12. Pairs'
  <2>1. Beneath(unit, unit)
    BY <1>0 DEF Beneath, Units, Points, Bounds
  <2> QED BY <1>0, <1>2, <2>1 DEF Pairs, PairKept, Beneath
<1> QED BY <1>5, <1>7, <1>8, <1>10, <1>11, <1>12 DEF IInv

LEMMA InvCalls == ASSUME Bounds, IInv, Calls PROVE IInv'
<1>1. <<>> \in Requests /\ <<>> \in Seq(StepsOf) /\ DOMAIN <<>> = {} /\ Len(<<>>) = 0
  BY DEF Requests
<1>2. \A on \in BOOLEAN : Switch(on) \in StepsOf /\ Switch(on).q = "on"
  BY DEF Switch, StepsOf
<1>3. CASE Status
  <2>1. Called("status", <<>>, <<>>) /\ "status" \in Tools
    BY <1>3 DEF Status, Tools
  <2>2. \A n \in 1..Len(<<>>) : <<>>[n].q = "on"
    BY <1>1
  <2> QED BY <1>1, <2>1, <2>2, InvCalled
<1>4. CASE Set
  <2>0. PICK qs \in (SUBSET Quantities) \ {{}} : \E wants \in [qs -> Points] : Called("set", wants, <<>>)
    BY <1>4 DEF Set
  <2>1. PICK wants \in [qs -> Points] : Called("set", wants, <<>>)
    BY <2>0
  <2>2. wants \in Requests /\ "set" \in Tools
    <3>1. wants \in UNION {[ps -> Points] : ps \in SUBSET Quantities}
      BY <2>0, <2>1
    <3> QED BY <3>1 DEF Requests, Tools
  <2>3. \A n \in 1..Len(<<>>) : <<>>[n].q = "on"
    BY <1>1
  <2>4. DOMAIN wants # {}
    <3>1. DOMAIN wants = qs /\ qs # {}
      BY <2>0, <2>1
    <3> QED BY <3>1
  <2> QED BY <1>1, <2>1, <2>2, <2>3, <2>4, InvCalled
<1>5. CASE Output
  <2>1. PICK on \in BOOLEAN : Called("output", <<>>, <<Switch(on)>>)
    BY <1>5 DEF Output
  <2>2. PICK s \in StepsOf : s = Switch(on) /\ s.q = "on"
    BY <1>2, <2>1
  <2>3. <<s>> \in Seq(StepsOf) /\ <<s>> # <<>> /\ \A n \in 1..Len(<<s>>) : <<s>>[n].q = "on"
    BY <2>2
  <2>4. "output" \in Tools /\ Called("output", <<>>, <<s>>)
    BY <2>1, <2>2 DEF Tools
  <2> QED BY <1>1, <2>3, <2>4, InvCalled
<1>6. CASE Cycle
  <2>1. Called("cycle", <<>>, <<Switch(FALSE), Switch(TRUE)>>) /\ "cycle" \in Tools
    BY <1>6 DEF Cycle, Tools
  <2>2. PICK s \in StepsOf : s = Switch(FALSE) /\ s.q = "on"
    BY <1>2
  <2>3. PICK t \in StepsOf : t = Switch(TRUE) /\ t.q = "on"
    BY <1>2
  <2>4. <<s, t>> \in Seq(StepsOf) /\ <<s, t>> # <<>> /\ \A n \in 1..Len(<<s, t>>) : <<s, t>>[n].q = "on"
    <3>1. <<s, t>> \in Seq(StepsOf) /\ Len(<<s, t>>) = 2 /\ <<s, t>>[1] = s /\ <<s, t>>[2] = t
      OBVIOUS
    <3>2. \A n \in 1..2 : n = 1 \/ n = 2
      OBVIOUS
    <3> QED BY <2>2, <2>3, <3>1, <3>2
  <2>5. Called("cycle", <<>>, <<s, t>>)
    BY <2>1, <2>2, <2>3
  <2> QED BY <1>1, <2>1, <2>4, <2>5, InvCalled
<1> QED BY <1>3, <1>4, <1>5, <1>6 DEF Calls

LEMMA InvIdentified == ASSUME Bounds, IInv, Identified PROVE IInv'
<1>0. task \in Tasks /\ task.at = "identity" /\ task.todo = <<>> /\ unit' = unit /\ line' = line
  BY DEF IInv, Typed, Identified, Reached, Here
<1>1. /\ task' = [task EXCEPT !.at = "before", !.todo = ChannelStatus]
      /\ task'.at = "before" /\ task'.todo = ChannelStatus /\ task'.tool = task.tool
      /\ task'.wants = task.wants /\ task'.steps = task.steps /\ task'.sent = task.sent
      /\ task'.last = task.last /\ task'.start = task.start /\ task'.touched = task.touched
      /\ task'.wild = task.wild
  BY <1>0 DEF Tasks, Identified
<1>2. task' \in Tasks
  BY <1>0, <1>1, StatusStarts DEF Tasks, Stages
<1>3. Typed'
  BY <1>2 DEF IInv, Typed, Identified, Here
<1>4. Len(task'.todo) = 5 /\ task'.todo # <<>> /\ OfStatus(task'.todo)
  <2>1. Len(ChannelStatus) = 5
    BY StatusStarts
  <2>2. ChannelStatus # <<>>
    BY DEF ChannelStatus
  <2> QED BY <1>1, <2>1, <2>2, StatusStarts
<1>5. Asking'
  <2>1. Len(task'.todo) < 6
    BY <1>4
  <2> QED BY <1>1, <1>4, <2>1 DEF Asking
<1>6. Aligned'
  <2>1. Marked(0)'
    BY <1>0 DEF IInv, Aligned, Marked
  <2>2. 5 - Len(task'.todo) = 0
    BY <1>4
  <2>3. Marked(5 - Len(task.todo))'
    BY <2>1, <2>2
  <2> QED BY <1>1, <2>3 DEF Aligned
<1>7. Truth'
  <2>1. ~Whole /\ ~Whole'
    BY <1>0, <1>1, <1>4 DEF Whole
  <2>2. Partial'
    BY <1>4 DEF Partial, PartialTrue
  <2> QED BY <1>0, <1>1, <2>1, <2>2 DEF IInv, Truth, AnswerTrue
<1>8. Requested'
  BY <1>0, <1>1 DEF IInv, Requested
<1>9. Limits' /\ Pairs'
  BY <1>0, <1>1 DEF IInv, Limits, Pairs, WrittenWithinLimits, PairKept
<1> QED BY <1>3, <1>5, <1>6, <1>7, <1>8, <1>9 DEF IInv

\* Two sequences of one element, end to end.
LEMMA PairOf ==
    ASSUME NEW S, NEW a \in S, NEW b \in S
    PROVE  <<a>> \o <<b>> = <<a, b>>
<1> DEFINE s == <<a>> \o <<b>>
           t == <<a, b>>
<1>1. <<a>> \in Seq(S) /\ <<b>> \in Seq(S) /\ Len(<<a>>) = 1 /\ Len(<<b>>) = 1 /\ <<a>>[1] = a /\ <<b>>[1] = b
  OBVIOUS
<1>2. t \in Seq(S) /\ Len(t) = 2 /\ t[1] = a /\ t[2] = b
  OBVIOUS
<1>3. /\ s \in Seq(S) /\ Len(s) = Len(<<a>>) + Len(<<b>>)
      /\ \A n \in 1..Len(<<a>>) + Len(<<b>>) : s[n] = IF n <= Len(<<a>>) THEN <<a>>[n] ELSE <<b>>[n - Len(<<a>>)]
  BY <1>1, ConcatProperties
<1>4. Len(s) = 2 /\ s[1] = a /\ s[2] = b
  BY <1>1, <1>3
<1> HIDE DEF s, t
<1>5. \A n \in 1..Len(s) : s[n] = t[n]
  BY <1>2, <1>4
<1>6. s = t
  BY <1>2, <1>3, <1>4, <1>5, SeqEqual
<1> QED BY <1>6 DEF s, t

\* The order of the two setters: what comes first lowers its value, or what comes
\* second does not.
LEMMA WriteOrderIs ==
    ASSUME Bounds, NEW qs \in (SUBSET Quantities) \ {{}}, NEW wants \in [qs -> Points], NEW before \in Units
    PROVE  LET order == WriteOrder(wants, before) IN
           /\ order \in Seq(Quantities) /\ DOMAIN order = 1..Len(order)
           /\ Len(order) = 1 \/ Len(order) = 2
           /\ Len(order) = 1 => qs = {order[1]}
           /\ Len(order) = 2 => /\ order[1] # order[2] /\ qs = {order[1], order[2]}
                                /\ wants[order[1]] < before[order[1]] \/ before[order[2]] <= wants[order[2]]
<1> DEFINE lowers == {q \in qs : wants[q] < before[q]}
           order == WriteOrder(wants, before)
<1>1. order = Ordered(lowers) \o Ordered(qs \ lowers)
  BY DEF WriteOrder
<1>2. qs = {"v"} \/ qs = {"i"} \/ qs = {"v", "i"}
  <2>1. qs \subseteq {"v", "i"} /\ qs # {}
    BY DEF Quantities
  <2>2. CASE "v" \in qs /\ "i" \in qs
    BY <2>1, <2>2
  <2>3. CASE "v" \in qs /\ "i" \notin qs
    BY <2>1, <2>3
  <2>4. CASE "v" \notin qs
    BY <2>1, <2>4
  <2> QED BY <2>2, <2>3, <2>4
<1>3. \A q \in qs : wants[q] \in Nat /\ before[q] \in Nat
  BY DEF Units, Points, Quantities, Bounds
<1>4. \A q \in qs : q \in lowers \/ before[q] <= wants[q]
  BY <1>3
<1>5. \A q \in lowers : q \in qs /\ wants[q] < before[q]
  OBVIOUS
<1> HIDE DEF lowers, order
<1>6. /\ <<>> \o <<>> = <<>> /\ <<"v">> \o <<>> = <<"v">> /\ <<>> \o <<"v">> = <<"v">>
      /\ <<"i">> \o <<>> = <<"i">> /\ <<>> \o <<"i">> = <<"i">>
      /\ <<"v">> \o <<"i">> = <<"v", "i">> /\ <<"i">> \o <<"v">> = <<"i", "v">>
  <2>1. \A s \in Seq(Quantities) : s \o <<>> = s /\ <<>> \o s = s
    BY ConcatEmptySeq
  <2>2. <<"v">> \o <<"i">> = <<"v", "i">>
    BY PairOf DEF Quantities
  <2>3. <<"i">> \o <<"v">> = <<"i", "v">>
    BY PairOf DEF Quantities
  <2>4. <<"v">> \in Seq(Quantities) /\ <<"i">> \in Seq(Quantities) /\ <<>> \in Seq(Quantities)
    BY DEF Quantities
  <2> QED BY <2>1, <2>2, <2>3, <2>4
<1>7. /\ <<"v">> \in Seq(Quantities) /\ Len(<<"v">>) = 1 /\ <<"v">>[1] = "v"
      /\ <<"i">> \in Seq(Quantities) /\ Len(<<"i">>) = 1 /\ <<"i">>[1] = "i"
      /\ <<"v", "i">> \in Seq(Quantities) /\ Len(<<"v", "i">>) = 2 /\ <<"v", "i">>[1] = "v" /\ <<"v", "i">>[2] = "i"
      /\ <<"i", "v">> \in Seq(Quantities) /\ Len(<<"i", "v">>) = 2 /\ <<"i", "v">>[1] = "i" /\ <<"i", "v">>[2] = "v"
  BY DEF Quantities
<1>8. "v" \in lowers \/ "v" \in qs \ lowers \/ "v" \notin qs
  OBVIOUS
<1>9. CASE qs = {"v"}
  <2>1. order = <<"v">>
    <3>1. CASE "v" \in lowers
      <4>1. Ordered(lowers) = <<"v">> \o <<>> /\ Ordered(qs \ lowers) = <<>> \o <<>>
        BY <1>5, <1>9, <3>1 DEF Ordered
      <4> QED BY <1>1, <1>6, <4>1
    <3>2. CASE "v" \notin lowers
      <4>1. Ordered(lowers) = <<>> \o <<>> /\ Ordered(qs \ lowers) = <<"v">> \o <<>>
        BY <1>5, <1>9, <3>2 DEF Ordered
      <4> QED BY <1>1, <1>6, <4>1
    <3> QED BY <3>1, <3>2
  <2> QED BY <1>7, <1>9, <2>1 DEF order
<1>10. CASE qs = {"i"}
  <2>1. order = <<"i">>
    <3>1. CASE "i" \in lowers
      <4>1. Ordered(lowers) = <<>> \o <<"i">> /\ Ordered(qs \ lowers) = <<>> \o <<>>
        BY <1>5, <1>10, <3>1 DEF Ordered
      <4> QED BY <1>1, <1>6, <4>1
    <3>2. CASE "i" \notin lowers
      <4>1. Ordered(lowers) = <<>> \o <<>> /\ Ordered(qs \ lowers) = <<>> \o <<"i">>
        BY <1>5, <1>10, <3>2 DEF Ordered
      <4> QED BY <1>1, <1>6, <4>1
    <3> QED BY <3>1, <3>2
  <2> QED BY <1>7, <1>10, <2>1 DEF order
<1>11. CASE qs = {"v", "i"}
  <2>1. \/ order = <<"v", "i">> /\ (wants["v"] < before["v"] \/ before["i"] <= wants["i"])
        \/ order = <<"i", "v">> /\ (wants["i"] < before["i"] \/ before["v"] <= wants["v"])
    <3>1. CASE "v" \in lowers /\ "i" \in lowers
      <4>1. Ordered(lowers) = <<"v">> \o <<"i">> /\ Ordered(qs \ lowers) = <<>> \o <<>>
        BY <1>5, <1>11, <3>1 DEF Ordered
      <4>2. order = <<"v", "i">>
        <5>1. <<"v", "i">> \o <<>> = <<"v", "i">>
          OBVIOUS
        <5> QED BY <1>1, <1>6, <4>1, <5>1
      <4> QED BY <1>5, <3>1, <4>2
    <3>2. CASE "v" \in lowers /\ "i" \notin lowers
      <4>1. Ordered(lowers) = <<"v">> \o <<>> /\ Ordered(qs \ lowers) = <<>> \o <<"i">>
        BY <1>5, <1>11, <3>2 DEF Ordered
      <4>2. order = <<"v", "i">>
        BY <1>1, <1>6, <4>1
      <4> QED BY <1>5, <3>2, <4>2
    <3>3. CASE "v" \notin lowers /\ "i" \in lowers
      <4>1. Ordered(lowers) = <<>> \o <<"i">> /\ Ordered(qs \ lowers) = <<"v">> \o <<>>
        BY <1>5, <1>11, <3>3 DEF Ordered
      <4>2. order = <<"i", "v">>
        BY <1>1, <1>6, <4>1
      <4> QED BY <1>5, <3>3, <4>2
    <3>4. CASE "v" \notin lowers /\ "i" \notin lowers
      <4>1. Ordered(lowers) = <<>> \o <<>> /\ Ordered(qs \ lowers) = <<"v">> \o <<"i">>
        BY <1>5, <1>11, <3>4 DEF Ordered
      <4>2. order = <<"v", "i">>
        <5>1. <<>> \o <<"v", "i">> = <<"v", "i">>
          OBVIOUS
        <5> QED BY <1>1, <1>6, <4>1, <5>1
      <4> QED BY <1>4, <1>11, <3>4, <4>2
    <3> QED BY <3>1, <3>2, <3>3, <3>4
  <2>2. {"v", "i"} = {"i", "v"} /\ "v" # "i"
    OBVIOUS
  <2>3. CASE order = <<"v", "i">> /\ (wants["v"] < before["v"] \/ before["i"] <= wants["i"])
    <3>1. order \in Seq(Quantities) /\ Len(order) = 2 /\ order[1] = "v" /\ order[2] = "i"
      BY <1>7, <2>3
    <3>2. DOMAIN order = 1..Len(order)
      BY <3>1
    <3> QED BY <1>11, <2>2, <2>3, <3>1, <3>2 DEF order
  <2>4. CASE order = <<"i", "v">> /\ (wants["i"] < before["i"] \/ before["v"] <= wants["v"])
    <3>1. order \in Seq(Quantities) /\ Len(order) = 2 /\ order[1] = "i" /\ order[2] = "v"
      BY <1>7, <2>4
    <3>2. DOMAIN order = 1..Len(order)
      BY <3>1
    <3> QED BY <1>11, <2>2, <2>4, <3>1, <3>2 DEF order
  <2> QED BY <2>1, <2>3, <2>4
<1> QED BY <1>2, <1>9, <1>10, <1>11

LEMMA InvReadBefore == ASSUME Bounds, FewLate, IInv, ReadBefore PROVE IInv'
<1>0. /\ task \in Tasks /\ task.at = "before" /\ task.todo = <<>> /\ unit' = unit /\ line' = line
      /\ UNCHANGED <<hold, inRun, owed, mishaps>> /\ unit \in Units
  BY DEF IInv, Typed, ReadBefore, Reached, Here
<1>1. line = <<>>
  <2>1. Len(task.todo) = 0
    BY <1>0
  <2>2. Marked(5)
    BY <1>0, <2>1 DEF IInv, Aligned
  <2>3. Len(line) <= MaxLate /\ Len(line) \in Nat
    BY DEF IInv, Typed
  <2>4. ~(5 < Len(line))
    BY <2>3 DEF FewLate, Bounds
  <2> QED BY <2>2, <2>4 DEF Marked
<1>2. /\ task.last \in Units /\ (task.touched \/ task.last = unit) /\ task.sent = {} /\ task.start \in Units
      /\ (task.touched \/ task.start = unit)
  BY <1>0 DEF IInv, Truth, Whole
<1>3. ASSUME NEW ok \in BOOLEAN, task' = Ended(ok, {}), ok => task.tool = "status" PROVE IInv'
  <2>1. {} \in SUBSET Reasons /\ task.sent \in SUBSET (Quantities \cup {"on"})
    BY <1>2
  <2>2. Ended(ok, {}) \in Tasks /\ Ended(ok, {}) = [Ended(ok, {}) EXCEPT !.sent = task.sent]
    BY <1>0, <2>1, EndedTyped
  <2>3. Typed'
    BY <1>0, <1>3, <2>2 DEF IInv, Typed
  <2>4. /\ task'.at = "ended" /\ task'.why = {} /\ task'.sent = {} /\ task'.last = task.last /\ task'.ok = ok
        /\ task'.touched = task.touched /\ task'.tool = task.tool /\ task'.wants = task.wants
        /\ task'.start = task.start /\ task'.wild = task.wild
    BY <1>0, <1>2, <1>3 DEF Ended, Tasks
  <2>5. AnswerTrue'
    <3>1. task.last # Unread
      <4>1. Unread.v = Top + 1 /\ task.last.v \in 0..Top /\ Top \in Nat
        BY <1>2 DEF Unread, Units, Points, Bounds
      <4> QED BY <4>1
    <3> QED BY <1>0, <1>2, <2>4, <3>1 DEF AnswerTrue
  <2>6. WrittenWithinLimits'
    BY <1>3, <2>4 DEF WrittenWithinLimits
  <2>7. PairKept'
    BY <1>0, <2>4 DEF IInv, Pairs, PairKept
  <2>8. IF task.tool = "set" THEN "on" \notin task.sent ELSE task.sent \subseteq {"on"}
    BY <1>2
  <2> QED BY <1>0, <1>3, <2>1, <2>2, <2>3, <2>5, <2>6, <2>7, <2>8, EndedIInv
<1>4. CASE task.tool = "status"
  BY <1>0, <1>3, <1>4 DEF ReadBefore
<1>5. CASE task.tool # "status" /\ \E q \in HeldToLimits : ~Within(q, task.last[q])
  <2>1. task' = Ended(FALSE, {})
    BY <1>5 DEF ReadBefore
  <2> QED BY <1>3, <2>1
<1>6. CASE task.tool # "status" /\ \A q \in HeldToLimits : Within(q, task.last[q])
  <2> DEFINE order == WriteOrder(task.wants, task.last)
             steps == [n \in DOMAIN order |-> [q |-> order[n], to |-> task.wants[order[n]]]]
  <2>1. /\ task' = [task EXCEPT !.at = "write", !.steps = IF task.tool = "set" THEN steps ELSE @]
        /\ task'.at = "write" /\ task'.steps = (IF task.tool = "set" THEN steps ELSE task.steps)
        /\ task'.todo = <<>> /\ task'.tool = task.tool /\ task'.wants = task.wants /\ task'.sent = task.sent
        /\ task'.last = task.last /\ task'.start = task.start /\ task'.touched = task.touched
        /\ task'.wild = task.wild
    BY <1>0, <1>6 DEF ReadBefore, Tasks
  <2>2. task.tool = "set" =>
          /\ DOMAIN task.wants \in (SUBSET Quantities) \ {{}} /\ task.wants \in [DOMAIN task.wants -> Points]
          /\ \A q \in DOMAIN task.wants : Within(q, task.wants[q])
    <3>1. SUFFICES ASSUME task.tool = "set"
                   PROVE  /\ DOMAIN task.wants \in (SUBSET Quantities) \ {{}} /\ task.wants \in [DOMAIN task.wants -> Points]
                          /\ \A q \in DOMAIN task.wants : Within(q, task.wants[q])
      OBVIOUS
    <3>2. DOMAIN task.wants # {} /\ \A q \in DOMAIN task.wants : q \in Quantities /\ Within(q, task.wants[q])
      BY <1>0, <3>1 DEF IInv, Requested
    <3>3. PICK qs \in SUBSET Quantities : task.wants \in [qs -> Points]
      <4>1. task.wants \in Requests /\ task.wants # <<>>
        BY <1>0, <3>2 DEF Tasks
      <4> QED BY <4>1 DEF Requests
    <3> QED BY <3>2, <3>3
  <2>3. task.tool = "set" =>
          /\ order \in Seq(Quantities) /\ DOMAIN order = 1..Len(order)
          /\ Len(order) = 1 \/ Len(order) = 2
          /\ Len(order) = 1 => DOMAIN task.wants = {order[1]}
          /\ Len(order) = 2 => /\ order[1] # order[2] /\ DOMAIN task.wants = {order[1], order[2]}
                               /\ task.wants[order[1]] < task.last[order[1]] \/ task.last[order[2]] <= task.wants[order[2]]
    BY <1>2, <2>2, WriteOrderIs
  <2> HIDE DEF order
  <2>4. task.tool = "set" =>
          /\ steps \in Seq(StepsOf) /\ Len(steps) = Len(order)
          /\ \A n \in 1..Len(order) : /\ steps[n].q = order[n] /\ steps[n].to = task.wants[order[n]]
                                      /\ order[n] \in DOMAIN task.wants
    <3>1. SUFFICES ASSUME task.tool = "set"
                   PROVE  /\ steps \in Seq(StepsOf) /\ Len(steps) = Len(order)
                          /\ \A n \in 1..Len(order) : /\ steps[n].q = order[n] /\ steps[n].to = task.wants[order[n]]
                                                      /\ order[n] \in DOMAIN task.wants
      OBVIOUS
    <3>2. PICK m \in Nat : m = Len(order) /\ (m = 1 \/ m = 2) /\ DOMAIN order = 1..m
      BY <2>3, <3>1
    <3>3. \A n \in 1..m : order[n] \in DOMAIN task.wants
      <4>1. \A n \in 1..m : n = 1 \/ (n = 2 /\ m = 2)
        BY <3>2
      <4> QED BY <2>3, <3>1, <3>2, <4>1
    <3>4. \A n \in 1..m : [q |-> order[n], to |-> task.wants[order[n]]] \in StepsOf
      BY <2>2, <3>1, <3>3 DEF StepsOf
    <3>5. steps \in [1..m -> StepsOf]
      BY <3>2, <3>4
    <3> QED BY <3>2, <3>3, <3>5
  <2>5. task' \in Tasks
    <3>1. task'.steps \in Seq(StepsOf)
      BY <1>0, <2>1, <2>4 DEF Tasks
    <3>2. task' = [task EXCEPT !.at = "write", !.steps = task'.steps]
      BY <1>0, <2>1 DEF Tasks
    <3> QED BY <1>0, <3>1, <3>2 DEF Tasks, Stages
  <2>6. Typed'
    BY <1>0, <2>5 DEF IInv, Typed
  <2>7. Asking' /\ Aligned'
    BY <1>0, <1>1, <2>1 DEF Asking, Aligned
  <2>8. Truth'
    BY <1>0, <1>2, <2>1 DEF Truth, Partial, PartialTrue, AnswerTrue, Whole
  <2>9. Requested'
    <3>1. CASE task.tool = "set"
      <4>1. task'.steps # <<>>
        <5>1. Len(steps) # 0
          BY <2>3, <2>4, <3>1
        <5> QED BY <2>1, <3>1, <5>1
      <4>2. \A n \in 1..Len(task'.steps) : /\ task'.steps[n].q \in DOMAIN task.wants
                                           /\ task'.steps[n].to = task.wants[task'.steps[n].q]
        <5>1. task'.steps = steps
          BY <2>1, <3>1
        <5> HIDE DEF steps
        <5> QED BY <2>4, <3>1, <5>1
      <4> QED BY <1>0, <1>2, <2>1, <3>1, <4>1, <4>2 DEF IInv, Requested
    <3>2. CASE task.tool # "set"
      <4>1. task.tool \in {"output", "cycle"}
        BY <1>0, <1>6, <3>2 DEF Tasks, Tools
      <4> QED BY <1>0, <1>2, <2>1, <3>2, <4>1 DEF IInv, Requested
    <3> QED BY <3>1, <3>2
  <2>10. Limits'
    <3>1. task.tool # "set" /\ Switches' /\ ~task.touched => AllWithin'
      <4>1. SUFFICES ASSUME task.tool # "set", Switches', ~task.touched PROVE AllWithin'
        OBVIOUS
      <4>2. PICK n \in 1..Len(task.steps) : task.steps[n].to = TRUE
        BY <2>1, <4>1 DEF Switches
      <4>3. task.steps[n].q = "on" /\ task.steps[n] \in StepsOf /\ n \in DOMAIN task.steps
        BY <1>0, <4>1 DEF IInv, Requested, Tasks
      <4>4. task.steps[n] = [q |-> "on", to |-> TRUE]
        <5>1. \A s \in StepsOf : s.q = "on" => s = [q |-> s.q, to |-> s.to]
          BY DEF StepsOf, Quantities
        <5> QED BY <4>2, <4>3, <5>1
      <4>5. HeldToLimits = Quantities
        BY <4>1, <4>3, <4>4 DEF HeldToLimits
      <4> QED BY <1>0, <1>2, <1>6, <4>1, <4>5 DEF AllWithin, Within
    <3> QED BY <1>2, <2>1, <3>1 DEF Limits, WrittenWithinLimits
  <2>11. Pairs'
    <3>1. PairKept'
      BY <1>0, <2>1 DEF IInv, Pairs, PairKept
    <3>2. task.tool = "set" /\ ~task.touched => HalfWay'
      <4>1. SUFFICES ASSUME task.tool = "set", ~task.touched PROVE HalfWay'
        OBVIOUS
      <4>2. task.start = unit /\ task.last = unit
        BY <1>2, <4>1
      <4>3. task'.steps = steps /\ Len(steps) = Len(order)
        BY <2>1, <2>4, <4>1
      <4>4. Len(order) = 1 => steps[1].q = order[1]
        BY <2>4, <4>1
      <4>5. Len(order) = 2 => steps[1].q = order[1] /\ steps[2].q = order[2]
        BY <2>4, <4>1
      <4>6. DOMAIN task.wants \subseteq Due'
        <5>1. Due' = {steps[n].q : n \in 1..Len(order)}
          <6>1. task'.at # "check"
            BY <2>1
          <6> HIDE DEF steps
          <6> QED BY <4>3, <6>1 DEF Due
        <5>2. CASE Len(order) = 1
          BY <2>3, <4>1, <4>4, <5>1, <5>2
        <5>3. CASE Len(order) = 2
          BY <2>3, <4>1, <4>5, <5>1, <5>3
        <5> QED BY <2>3, <4>1, <5>2, <5>3
      <4>7. DOMAIN task'.wants \ Due' = {}
        BY <2>1, <4>6
      <4>8. \A q \in Quantities : unit'[q] = IF q \in DOMAIN task'.wants \ Due' THEN task'.wants[q] ELSE task'.start[q]
        BY <1>0, <2>1, <4>2, <4>7
      <4>9. CASE Len(order) = 1
        BY <2>1, <2>3, <4>1, <4>3, <4>4, <4>8, <4>9 DEF HalfWay
      <4>10. CASE Len(order) = 2
        BY <2>1, <2>3, <4>1, <4>2, <4>3, <4>5, <4>8, <4>10 DEF HalfWay, InOrder
      <4> QED BY <2>3, <4>1, <4>9, <4>10
    <3> QED BY <2>1, <3>1, <3>2 DEF Pairs
  <2> QED BY <2>6, <2>7, <2>8, <2>9, <2>10, <2>11 DEF IInv
<1> QED BY <1>4, <1>5, <1>6

-----------------------------------------------------------------------------
(* A write, and the value read back.                                        *)

\* What the unit holds while a set is at it is beneath one end or the other.
LEMMA OrderBeneath ==
    ASSUME Bounds, NEW D \in SUBSET Quantities, NEW wants \in [D -> Points],
           NEW start \in Units, NEW u \in Units, NEW due,
           \A q \in Quantities : u[q] = IF q \in D \ due THEN wants[q] ELSE start[q],
           \A d \in D \ due : \A r \in D \cap due : wants[d] < start[d] \/ start[r] <= wants[r]
    PROVE  \/ Beneath(u, start)
           \/ Beneath(u, [q \in Quantities |-> IF q \in D THEN wants[q] ELSE start[q]])
<1> DEFINE asked == [q \in Quantities |-> IF q \in D THEN wants[q] ELSE start[q]]
<1>1. \A q \in Quantities : start[q] \in Nat /\ u[q] \in Nat /\ (q \in D => wants[q] \in Nat)
  BY DEF Units, Points, Quantities, Bounds
<1>2. \A q \in Quantities : asked[q] = IF q \in D THEN wants[q] ELSE start[q]
  OBVIOUS
<1> HIDE DEF asked
<1>3. CASE \A q \in D : q \notin due => u[q] <= start[q]
  <2>1. \A q \in Quantities : u[q] <= start[q]
    BY <1>1, <1>3
  <2> QED BY <2>1 DEF Beneath, Quantities, Units
<1>4. CASE \E d \in D : d \notin due /\ ~(u[d] <= start[d])
  <2>1. PICK d \in D : d \notin due /\ ~(u[d] <= start[d])
    BY <1>4
  <2>2. ~(wants[d] < start[d])
    <3>1. u[d] = wants[d] /\ d \in Quantities
      BY <2>1
    <3> QED BY <1>1, <2>1, <3>1
  <2>3. \A r \in D \cap due : start[r] <= wants[r]
    BY <2>1, <2>2
  <2>4. \A q \in Quantities : u[q] <= asked[q]
    <3> TAKE q \in Quantities
    <3>1. CASE q \in D \ due
      BY <1>1, <1>2, <3>1
    <3>2. CASE q \in D \cap due
      BY <1>1, <1>2, <2>3, <3>2
    <3>3. CASE q \notin D
      BY <1>1, <1>2, <3>3
    <3> QED BY <3>1, <3>2, <3>3
  <2>5. asked["v"] = asked.v /\ asked["i"] = asked.i /\ u["v"] = u.v /\ u["i"] = u.i
    OBVIOUS
  <2> QED BY <2>4, <2>5 DEF Beneath, Quantities, asked
<1> QED BY <1>3, <1>4

LEMMA InvWrite == ASSUME Bounds, IInv, Write PROVE IInv'
<1> DEFINE step == Head(task.steps)
           moved == [unit EXCEPT ![step.q] = step.to]
           todo == (IF step.q = "on" THEN <<>> ELSE <<step.q>>) \o ChannelStatus
           sends == [task EXCEPT !.at = "check", !.sent = @ \cup {step.q}, !.todo = todo]
           asked == [q \in Quantities |-> IF q \in DOMAIN task.wants THEN task.wants[q] ELSE task.start[q]]
<1>0. /\ task \in Tasks /\ unit \in Units /\ task.at = "write" /\ task.todo = <<>> /\ line = <<>>
      /\ UNCHANGED <<line, hold, inRun, owed>> /\ mishaps \in 0..MaxFaults /\ task.steps # <<>>
      /\ task.steps \in Seq(StepsOf) /\ task.start \in Units
  BY DEF IInv, Typed, Aligned, Requested, Write, Reached, Truth, Tasks
<1>1. step \in StepsOf /\ step = task.steps[1] /\ 1 \in 1..Len(task.steps)
  <2>1. Len(task.steps) \in Nat \ {0}
    BY <1>0, EmptySeq
  <2>2. step \in StepsOf /\ step = task.steps[1]
    BY <1>0, HeadTailProperties
  <2>3. 1 <= Len(task.steps)
    BY <2>1
  <2> QED BY <2>1, <2>2, <2>3
<1>2. IF task.tool = "set"
      THEN step.q \in DOMAIN task.wants /\ step.q \in Quantities /\ step.to \in Points
           /\ step.to = task.wants[step.q] /\ Within(step.q, step.to)
      ELSE step.q = "on" /\ step.to \in BOOLEAN
  <2>1. CASE task.tool = "set"
    <3>1. step.q \in DOMAIN task.wants /\ step.to = task.wants[step.q]
      BY <1>1, <2>1 DEF IInv, Requested
    <3>2. step.q \in Quantities /\ task.wants[step.q] \in Points /\ Within(step.q, task.wants[step.q])
      BY <3>1 DEF IInv, Requested
    <3> QED BY <2>1, <3>1, <3>2
  <2>2. CASE task.tool # "set"
    <3>1. step.q = "on"
      BY <1>1, <2>2 DEF IInv, Requested
    <3>2. step \in [q : {"on"}, to : BOOLEAN]
      <4>1. \A s \in [q : Quantities, to : Points] : s.q # "on"
        BY DEF Quantities
      <4> QED BY <1>1, <3>1, <4>1 DEF StepsOf
    <3> QED BY <2>2, <3>1, <3>2
  <2> QED BY <2>1, <2>2
<1> HIDE DEF step
<1>3. (step.q \in Quantities /\ step.q # "on") \/ step.q = "on"
  BY <1>2 DEF Quantities
<1>4. /\ moved \in Units /\ moved[step.q] = step.to
      /\ \A p \in Quantities \ {step.q} : moved[p] = unit[p]
      /\ step.q = "on" => moved.on = step.to
      /\ step.q # "on" => moved.on = unit.on
  <2>1. CASE task.tool = "set"
    BY <1>0, <1>2, <1>3, <2>1, UnitMoved DEF Quantities
  <2>2. CASE task.tool # "set"
    BY <1>0, <1>2, <1>3, <2>2, UnitSwitched DEF Quantities, Units
  <2> QED BY <2>1, <2>2
<1>5. /\ todo \in Seq(Commands) /\ OfStatus(todo) /\ (Len(todo) = 5 \/ Len(todo) = 6) /\ todo # <<>>
  <2>1. CASE step.q = "on"
    <3>1. todo = ChannelStatus
      BY <2>1, StatusStarts
    <3>2. ChannelStatus # <<>>
      BY DEF ChannelStatus
    <3> QED BY <3>1, <3>2, StatusStarts
  <2>2. CASE step.q \in Quantities
    <3>1. todo = <<step.q>> \o ChannelStatus
      BY <1>3, <2>2 DEF Quantities
    <3>2. todo \in Seq(Commands) /\ Len(todo) = 6 /\ OfStatus(todo)
      BY <2>2, <3>1, StatusStarts
    <3>3. todo # <<>>
      <4> HIDE DEF todo
      <4> QED BY <3>2
    <3> QED BY <3>2, <3>3
  <2> QED BY <1>3, <2>1, <2>2
<1> HIDE DEF todo
<1>6. step.q \in Quantities \cup {"on"}
  BY <1>3
<1>7. /\ sends \in Tasks /\ sends.at = "check" /\ sends.todo = todo /\ sends.sent = task.sent \cup {step.q}
      /\ sends.tool = task.tool /\ sends.wants = task.wants /\ sends.steps = task.steps
      /\ sends.last = task.last /\ sends.start = task.start /\ sends.touched = task.touched
      /\ sends.wild = task.wild
      /\ [sends EXCEPT !.wild = TRUE] \in Tasks
  BY <1>0, <1>5, <1>6 DEF Tasks, Stages
\* What holds of the order of the setters, before and after this one.
<1>8. ASSUME task.tool = "set", ~task.touched, ~task.wild
      PROVE  /\ \A q \in Quantities : unit[q] = IF q \in DOMAIN task.wants \ Due THEN task.wants[q] ELSE task.start[q]
             /\ Due = {task.steps[n].q : n \in 1..Len(task.steps)}
             /\ HalfWay
  BY <1>0, <1>8 DEF IInv, Pairs, HalfWay, Due
<1> DEFINE later == {task.steps[n].q : n \in 2..Len(task.steps)}
<1>9. ASSUME task.tool = "set", ~task.touched, ~task.wild
      PROVE  /\ \A q \in Quantities : moved[q] = IF q \in DOMAIN task.wants \ later THEN task.wants[q] ELSE task.start[q]
             /\ \A d \in DOMAIN task.wants \ later : \A r \in DOMAIN task.wants \cap later : InOrder(d, r)
  <2>1. CASE Len(task.steps) = 1
    <3>1. Due = {step.q} /\ later = {}
      BY <1>1, <1>8, <1>9, <2>1
    <3> QED BY <1>2, <1>4, <1>8, <1>9, <3>1
  <2>2. CASE Len(task.steps) = 2
    <3>1. /\ task.steps[2].q # step.q /\ InOrder(step.q, task.steps[2].q)
          /\ task.steps[2].q \in DOMAIN task.wants
      BY <1>1, <1>8, <1>9, <2>2 DEF HalfWay, IInv, Requested
    <3>2. later = {task.steps[2].q}
      BY <2>2
    <3>3. Due = {step.q, task.steps[2].q}
      BY <1>1, <1>8, <1>9, <2>2
    <3>4. \A q \in Quantities : q \in later \/ q = step.q
      <4>1. task.steps[2].q \in Quantities
        BY <3>1 DEF IInv, Requested
      <4> QED BY <1>2, <1>9, <3>1, <3>2, <4>1 DEF Quantities
    <3>5. \A d \in DOMAIN task.wants \ later : d = step.q
      BY <3>4 DEF IInv, Requested
    <3> HIDE DEF later
    <3> QED BY <1>2, <1>4, <1>8, <1>9, <3>1, <3>2, <3>3, <3>4, <3>5
  <2> QED BY <1>8, <1>9, <2>1, <2>2 DEF HalfWay
<1>10. ASSUME task.tool = "set", ~task.touched, ~task.wild
       PROVE  Beneath(moved, task.start) \/ Beneath(moved, asked)
  <2>1. PICK D \in SUBSET Quantities : D = DOMAIN task.wants /\ task.wants \in [D -> Points]
    <3>1. DOMAIN task.wants \in SUBSET Quantities
      BY DEF IInv, Requested
    <3>2. \A q \in DOMAIN task.wants : task.wants[q] \in Points
      BY DEF IInv, Requested
    <3>3. PICK qs \in SUBSET Quantities : task.wants \in [qs -> Points]
      <4>1. task.wants \in Requests /\ step.q \in DOMAIN task.wants
        BY <1>0, <1>2, <1>10 DEF Tasks
      <4> QED BY <4>1 DEF Requests
    <3> QED BY <3>1, <3>3
  <2>2. PICK u \in Units : u = moved
    BY <1>4
  <2>3. PICK due : due = later
    OBVIOUS
  <2>4. \A q \in Quantities : u[q] = IF q \in D \ due THEN task.wants[q] ELSE task.start[q]
    BY <1>9, <1>10, <2>1, <2>2, <2>3
  <2>5. \A d \in D \ due : \A r \in D \cap due : task.wants[d] < task.start[d] \/ task.start[r] <= task.wants[r]
    <3> HIDE DEF later
    <3> QED BY <1>9, <1>10, <2>1, <2>3 DEF InOrder
  <2>6. Beneath(u, task.start) \/ Beneath(u, [q \in Quantities |-> IF q \in D THEN task.wants[q] ELSE task.start[q]])
    BY <1>0, <2>1, <2>4, <2>5, OrderBeneath
  <2> QED BY <2>1, <2>2, <2>6
<1> HIDE DEF moved, sends, asked, later
\* The command was carried out, in order or not.
<1>11. ASSUME unit' \in Units, \A p \in Quantities \ {step.q} : unit'[p] = unit[p],
              mishaps' \in 0..MaxFaults,
              \/ task' = sends /\ unit' = moved
              \/ task' = [sends EXCEPT !.wild = TRUE]
       PROVE  IInv'
  <2>1. /\ task' \in Tasks /\ task'.at = "check" /\ task'.todo = todo /\ task'.sent = task.sent \cup {step.q}
        /\ task'.tool = task.tool /\ task'.wants = task.wants /\ task'.steps = task.steps
        /\ task'.last = task.last /\ task'.start = task.start /\ task'.touched = task.touched
        /\ ~task'.wild => task' = sends /\ unit' = moved /\ ~task.wild
    BY <1>7, <1>11 DEF Tasks
  <2>2. Typed'
    BY <1>0, <1>11, <2>1 DEF IInv, Typed
  <2>3. Asking' /\ Aligned'
    BY <1>0, <1>5, <2>1 DEF Asking, Aligned
  <2>4. Truth'
    <3>1. ~(Len(todo) < 5) /\ ~(Len(todo) < 4)
      <4>1. ~(5 < 5) /\ ~(5 < 4) /\ ~(6 < 5) /\ ~(6 < 4)
        OBVIOUS
      <4> QED BY <1>5, <4>1, Zenon
    <3>2. Partial'
      BY <2>1, <3>1 DEF Partial, PartialTrue
    <3>3. ~Whole'
      BY <1>5, <2>1 DEF Whole
    <3> QED BY <1>0, <2>1, <3>2, <3>3 DEF Truth, AnswerTrue
  <2>5. Requested'
    <3>1. step.q \in task'.sent /\ task'.steps[1].q = step.q
      BY <1>1, <2>1
    <3>2. IF task.tool = "set" THEN "on" \notin task'.sent ELSE task'.sent \subseteq {"on"}
      BY <1>2, <2>1 DEF IInv, Requested, Quantities
    <3> QED BY <1>0, <2>1, <3>1, <3>2 DEF IInv, Requested
  <2>6. Limits'
    <3>1. ~task.touched => \A q \in task'.sent \ {"on"} : Within(q, unit'[q]) \/ q = task'.steps[1].q
      <4>1. SUFFICES ASSUME ~task.touched, NEW q \in task'.sent \ {"on"}, q # step.q PROVE Within(q, unit'[q])
        BY <1>1, <2>1
      <4>2. q \in task.sent \ {"on"} /\ q \in Quantities
        BY <1>0, <2>1, <4>1 DEF Tasks
      <4>3. Within(q, unit[q])
        BY <1>0, <4>1, <4>2 DEF IInv, Limits
      <4> QED BY <1>11, <4>1, <4>2, <4>3
    <3>2. ~task.touched /\ task.tool # "set" /\ Switches' => AllWithin'
      <4>1. SUFFICES ASSUME ~task.touched, task.tool # "set", Switches' PROVE AllWithin'
        OBVIOUS
      <4>2. Switches
        BY <2>1, <4>1 DEF Switches
      <4>3. AllWithin
        BY <1>0, <4>1, <4>2 DEF IInv, Limits
      <4>4. \A p \in Quantities : unit'[p] = unit[p]
        BY <1>2, <1>11, <4>1 DEF Quantities
      <4> QED BY <4>3, <4>4 DEF AllWithin
    <3> QED BY <2>1, <3>1, <3>2 DEF Limits, WrittenWithinLimits, Within
  <2>7. Pairs'
    <3>1. PairKept'
      BY <1>10, <2>1 DEF PairKept, asked
    <3>2. ASSUME task.tool = "set", ~task.touched, ~task'.wild PROVE HalfWay'
      <4>1. unit' = moved /\ ~task.wild
        BY <2>1, <3>2
      <4>2. Due' = later
        BY <2>1 DEF Due, later
      <4>3. \A q \in Quantities : unit'[q] = IF q \in DOMAIN task'.wants \ Due' THEN task'.wants[q] ELSE task'.start[q]
        BY <1>9, <2>1, <3>2, <4>1, <4>2
      <4>4. HalfWay
        BY <1>8, <3>2, <4>1
      <4> QED BY <2>1, <4>3, <4>4 DEF HalfWay, InOrder
    <3> QED BY <2>1, <3>1, <3>2 DEF Pairs
  <2> QED BY <2>2, <2>3, <2>4, <2>5, <2>6, <2>7 DEF IInv
\* The line failed, and may have carried it.
<1>12. ASSUME Fault, unit' \in {unit, moved}, task' = [Ended(FALSE, {"unconfirmed"}) EXCEPT !.sent = @ \cup {step.q}]
       PROVE  IInv'
  <2> DEFINE sent == task.sent \cup {step.q}
             why == {"unconfirmed"}
  <2>1. why \in SUBSET Reasons /\ sent \in SUBSET (Quantities \cup {"on"})
    BY <1>0, <1>6 DEF Reasons, Tasks
  <2>2. task' = [Ended(FALSE, why) EXCEPT !.sent = sent]
    BY <1>0, <1>12 DEF Ended, Tasks
  <2>3. [Ended(FALSE, why) EXCEPT !.sent = sent] \in Tasks
    BY <1>0, <2>1, EndedTyped
  <2>4. /\ task'.at = "ended" /\ task'.why = why /\ task'.tool = task.tool /\ task'.wants = task.wants
        /\ task'.start = task.start /\ task'.touched = task.touched /\ task'.wild = task.wild
    BY <1>0, <2>2 DEF Ended, Tasks
  <2>5. Typed'
    <3>1. mishaps' \in 0..MaxFaults
      BY <1>0, <1>12 DEF Fault, Bounds
    <3>2. unit' \in Units /\ task' \in Tasks
      BY <1>0, <1>4, <1>12, <2>2, <2>3
    <3> QED BY <1>0, <3>1, <3>2 DEF IInv, Typed
  <2>6. AnswerTrue' /\ WrittenWithinLimits'
    BY <2>4 DEF AnswerTrue, WrittenWithinLimits
  <2>7. PairKept'
    <3>1. CASE unit' = unit
      BY <1>0, <2>4, <3>1 DEF IInv, Pairs, PairKept
    <3>2. CASE unit' = moved
      BY <1>10, <2>4, <3>2 DEF PairKept, asked
    <3> QED BY <1>12, <3>1, <3>2
  <2>8. IF task.tool = "set" THEN "on" \notin sent ELSE sent \subseteq {"on"}
    BY <1>2 DEF IInv, Requested, Quantities
  <2> HIDE DEF sent, why
  <2> QED BY <1>0, <2>1, <2>2, <2>5, <2>6, <2>7, <2>8, EndedIInv
<1>13. CASE Sound /\ unit' = moved /\ task' = sends
  BY <1>0, <1>4, <1>11, <1>13 DEF Sound
<1>14. CASE Fault /\ task' = [sends EXCEPT !.wild = TRUE]
            /\ \E does \in IF step.q = "on" THEN BOOLEAN ELSE Points : unit' = [unit EXCEPT ![step.q] = does]
  <2>1. mishaps' \in 0..MaxFaults
    BY <1>0, <1>14 DEF Fault, Bounds
  <2>2. PICK does \in IF step.q = "on" THEN BOOLEAN ELSE Points : unit' = [unit EXCEPT ![step.q] = does]
    BY <1>14
  <2>3. unit' \in Units /\ \A p \in Quantities \ {step.q} : unit'[p] = unit[p]
    <3>1. CASE step.q = "on"
      BY <1>0, <2>2, <3>1, UnitSwitched
    <3>2. CASE step.q \in Quantities
      <4>1. step.q # "on"
        BY <3>2 DEF Quantities
      <4>2. PICK to \in Points : unit' = [unit EXCEPT ![step.q] = to]
        BY <2>2, <4>1
      <4>3. PICK q \in Quantities : q = step.q
        BY <3>2
      <4>4. unit' = [unit EXCEPT ![q] = to]
        BY <4>2, <4>3
      <4>5. unit' \in Units /\ \A p \in Quantities \ {q} : unit'[p] = unit[p]
        BY <1>0, <4>4 DEF Units, Quantities
      <4> QED BY <4>3, <4>5
    <3> QED BY <1>3, <3>1, <3>2
  <2> QED BY <1>11, <1>14, <2>1, <2>3
<1> QED BY <1>12, <1>13, <1>14 DEF Write, step, moved, sends, todo

LEMMA InvCheck == ASSUME Bounds, IInv, Check PROVE IInv'
<1> DEFINE step == Head(task.steps)
           read == task.last[step.q]
<1>0. /\ task \in Tasks /\ unit \in Units /\ task.at = "check" /\ task.todo = <<>> /\ line = <<>>
      /\ UNCHANGED <<unit, line, hold, inRun, owed, mishaps>> /\ task.steps # <<>>
      /\ task.steps \in Seq(StepsOf) /\ task.start \in Units
      /\ task.last \in Units /\ (task.touched \/ task.last = unit)
  BY DEF IInv, Typed, Aligned, Requested, Check, Reached, Here, Truth, Tasks, Whole
<1>1. /\ step = task.steps[1] /\ 1 \in 1..Len(task.steps) /\ Len(task.steps) \in Nat
      /\ Len(task.steps) # 0 /\ step \in StepsOf
  <2>1. Len(task.steps) \in Nat \ {0}
    BY <1>0, EmptySeq
  <2>2. step \in StepsOf /\ step = task.steps[1]
    BY <1>0, HeadTailProperties
  <2>3. 1 <= Len(task.steps)
    BY <2>1
  <2> QED BY <2>1, <2>2, <2>3
<1>2. IF task.tool = "set"
      THEN step.q \in DOMAIN task.wants /\ step.q \in Quantities /\ step.to = task.wants[step.q] /\ Within(step.q, step.to)
      ELSE step.q = "on" /\ step.to \in BOOLEAN
  <2>1. CASE task.tool = "set"
    <3>1. step.q \in DOMAIN task.wants /\ step.to = task.wants[step.q]
      BY <1>1, <2>1 DEF IInv, Requested
    <3>2. step.q \in Quantities /\ Within(step.q, task.wants[step.q])
      BY <3>1 DEF IInv, Requested
    <3> QED BY <2>1, <3>1, <3>2
  <2>2. CASE task.tool # "set"
    <3>1. step.q = "on"
      BY <1>1, <2>2 DEF IInv, Requested
    <3>2. \A s \in [q : Quantities, to : Points] : s.q # "on"
      BY DEF Quantities
    <3>3. step \in [q : {"on"}, to : BOOLEAN]
      BY <1>1, <3>1, <3>2 DEF StepsOf
    <3> QED BY <2>2, <3>1, <3>3
  <2> QED BY <2>1, <2>2
<1> HIDE DEF step
<1>3. /\ IF task.tool = "set" THEN "on" \notin task.sent ELSE task.sent \subseteq {"on"}
      /\ task.sent \in SUBSET (Quantities \cup {"on"})
      /\ \A n \in 1..Len(task.steps) :
            IF task.tool = "set" THEN /\ task.steps[n].q \in DOMAIN task.wants
                                      /\ task.steps[n].to = task.wants[task.steps[n].q]
            ELSE task.steps[n].q = "on"
      /\ task.tool # "status" /\ step.q \in task.sent
  BY <1>0, <1>1 DEF IInv, Requested, Tasks
<1>4. ~task.touched =>
        /\ \A q \in task.sent \ {"on"} : Within(q, unit[q]) \/ q = step.q
        /\ task.tool # "set" /\ Switches => AllWithin
        /\ read = unit[step.q]
  BY <1>0, <1>1 DEF IInv, Limits
\* The answer of a call which its last reading ends.
<1>5. ASSUME NEW ok \in BOOLEAN, NEW why \in {{}, {"above"}}, task' = Ended(ok, why),
             why = {} /\ ~task.touched => \A q \in task.sent \ {"on"} : Within(q, unit[q]),
             ok => read = step.to
      PROVE  IInv'
  <2>1. why \in SUBSET Reasons
    BY DEF Reasons
  <2>2. Ended(ok, why) \in Tasks /\ Ended(ok, why) = [Ended(ok, why) EXCEPT !.sent = task.sent]
    BY <1>0, <1>3, <2>1, EndedTyped
  <2>3. Typed'
    BY <1>0, <1>5, <2>2 DEF IInv, Typed
  <2>4. /\ task'.at = "ended" /\ task'.why = why /\ task'.sent = task.sent /\ task'.last = task.last /\ task'.ok = ok
        /\ task'.touched = task.touched /\ task'.tool = task.tool /\ task'.wants = task.wants
        /\ task'.start = task.start /\ task'.wild = task.wild
    BY <1>0, <1>5 DEF Ended, Tasks
  <2>5. AnswerTrue'
    <3>1. task.last # Unread
      <4>1. Unread.v = Top + 1 /\ task.last.v \in 0..Top /\ Top \in Nat
        BY <1>0 DEF Unread, Units, Points, Bounds
      <4> QED BY <4>1
    <3> QED BY <1>0, <2>4, <3>1 DEF AnswerTrue
  <2>6. WrittenWithinLimits'
    <3>1. SUFFICES ASSUME why = {}, ~task.touched, ok, "on" \in task.sent, unit.on PROVE AllWithin
      BY <1>0, <1>5, <2>4 DEF WrittenWithinLimits, AllWithin, Within
    <3>2. task.tool # "set" /\ step.q = "on" /\ step.to = TRUE
      BY <1>2, <1>3, <1>4, <1>5, <3>1
    <3>3. Switches
      BY <1>1, <3>2 DEF Switches
    <3> QED BY <1>4, <3>1, <3>2, <3>3
  <2>7. PairKept'
    BY <1>0, <2>4 DEF IInv, Pairs, PairKept
  <2> QED BY <1>0, <1>3, <1>5, <2>1, <2>2, <2>3, <2>5, <2>6, <2>7, EndedIInv
<1>6. CASE read # step.to
  <2> DEFINE why == IF step.q \in Quantities /\ ~Within(step.q, read) THEN {"above"} ELSE {}
  <2>1. task' = Ended(FALSE, why)
    BY <1>6 DEF Check, step
  <2>2. why \in {{}, {"above"}}
    OBVIOUS
  <2>3. why = {} /\ ~task.touched => \A q \in task.sent \ {"on"} : Within(q, unit[q])
    <3>1. SUFFICES ASSUME why = {}, ~task.touched, NEW q \in task.sent \ {"on"} PROVE Within(q, unit[q])
      OBVIOUS
    <3>2. q \in Quantities
      BY <1>3
    <3> QED BY <1>4, <3>1, <3>2
  <2> HIDE DEF why
  <2> QED BY <1>5, <2>1, <2>2, <2>3
<1>7. read = step.to /\ ~task.touched => \A q \in task.sent \ {"on"} : Within(q, unit[q])
  <2>1. SUFFICES ASSUME read = step.to, ~task.touched, NEW q \in task.sent \ {"on"}, q = step.q PROVE Within(q, unit[q])
    BY <1>4
  <2>2. task.tool = "set"
    BY <1>2, <2>1
  <2> QED BY <1>2, <1>4, <2>1, <2>2
<1>8. CASE read = step.to /\ Len(task.steps) = 1
  <2>1. task' = Ended(TRUE, {})
    BY <1>8 DEF Check, step
  <2> QED BY <1>5, <1>7, <1>8, <2>1
<1>9. CASE read = step.to /\ Len(task.steps) # 1
  <2> DEFINE rest == Tail(task.steps)
             m == Len(task.steps)
  <2>1. /\ task' = [task EXCEPT !.at = "write", !.steps = rest]
        /\ task'.at = "write" /\ task'.todo = <<>> /\ task'.sent = task.sent /\ task'.steps = rest
        /\ task'.tool = task.tool /\ task'.wants = task.wants /\ task'.last = task.last
        /\ task'.start = task.start /\ task'.touched = task.touched /\ task'.wild = task.wild
    BY <1>0, <1>9 DEF Check, step, Tasks
  <2>2. /\ rest \in Seq(StepsOf) /\ Len(rest) = m - 1
        /\ \A n \in 1..Len(rest) : rest[n] = task.steps[n + 1]
    BY <1>0, HeadTailProperties
  <2> HIDE DEF rest
  <2>3. /\ m \in Nat /\ 2 <= m /\ Len(rest) \in Nat /\ 1 <= Len(rest)
        /\ \A n \in 1..Len(rest) : n + 1 \in 1..m
    <3>1. m \in Nat /\ m # 0 /\ m # 1
      BY <1>1, <1>9
    <3> HIDE DEF m
    <3> QED BY <2>2, <3>1
  <2>4. rest # <<>>
    BY <2>2, <2>3, EmptySeq
  <2>5. Typed'
    <3>1. task' \in Tasks
      BY <1>0, <2>1, <2>2 DEF Tasks, Stages
    <3> QED BY <1>0, <3>1 DEF IInv, Typed
  <2>6. Asking' /\ Aligned'
    BY <1>0, <2>1 DEF Asking, Aligned
  <2>7. Truth'
    BY <1>0, <2>1 DEF Truth, Partial, PartialTrue, AnswerTrue, Whole
  <2>8. \A n \in 1..Len(rest) :
            IF task.tool = "set" THEN /\ rest[n].q \in DOMAIN task.wants
                                      /\ rest[n].to = task.wants[rest[n].q]
            ELSE rest[n].q = "on"
    BY <1>3, <2>2, <2>3
  <2>9. Requested'
    BY <1>0, <1>3, <2>1, <2>4, <2>8 DEF IInv, Requested
  <2>10. Limits'
    <3>1. Switches' => Switches
      <4>1. ASSUME NEW n \in 1..Len(rest), rest[n].to = TRUE PROVE Switches
        BY <2>2, <2>3, <4>1 DEF Switches
      <4>2. Switches' => \E n \in 1..Len(rest) : rest[n].to = TRUE
        BY <2>1 DEF Switches
      <4> QED BY <4>1, <4>2
    <3>2. ~task.touched /\ task.tool # "set" /\ Switches' => AllWithin'
      BY <1>0, <1>4, <3>1 DEF AllWithin
    <3> QED BY <1>0, <1>7, <1>9, <2>1, <3>2 DEF Limits, WrittenWithinLimits
  <2>11. Pairs'
    <3>1. PairKept'
      BY <1>0, <2>1 DEF IInv, Pairs, PairKept
    <3>2. ASSUME task.tool = "set", ~task.touched, ~task.wild PROVE HalfWay'
      <4>1. HalfWay
        BY <1>0, <3>2 DEF IInv, Pairs
      <4>2. m = 2 /\ Len(rest) = 1 /\ rest[1] = task.steps[2]
        <5>1. m = 2
          BY <1>9, <4>1 DEF HalfWay
        <5>2. Len(rest) = 1
          BY <2>2, <5>1
        <5> QED BY <2>2, <5>1, <5>2
      <4>3. /\ task.steps[1].q # task.steps[2].q /\ InOrder(task.steps[1].q, task.steps[2].q)
            /\ task.steps[1].q \in Quantities /\ task.steps[2].q \in Quantities
        <5>1. 1 \in 1..m /\ 2 \in 1..m
          BY <4>2
        <5>2. task.steps[1].q \in DOMAIN task.wants /\ task.steps[2].q \in DOMAIN task.wants
          BY <1>3, <3>2, <5>1
        <5> QED BY <4>1, <4>2, <5>2 DEF HalfWay, IInv, Requested
      <4>4. \A d \in DOMAIN task.wants \ {rest[1].q} : InOrder(d, rest[1].q)
        <5>1. \A d \in DOMAIN task.wants : d \in Quantities
          BY DEF IInv, Requested
        <5>2. \A d \in Quantities : d = task.steps[1].q \/ d = task.steps[2].q
          BY <4>3 DEF Quantities
        <5> QED BY <4>2, <4>3, <5>1, <5>2
      <4>5. Due' = Due
        <5>1. Due = {task.steps[2].q}
          BY <1>0, <4>2 DEF Due
        <5>2. Due' = {rest[n].q : n \in 1..1}
          BY <2>1, <4>2 DEF Due
        <5>3. Due' = {rest[1].q}
          BY <5>2
        <5> QED BY <4>2, <5>1, <5>3
      <4>6. \A q \in Quantities : unit'[q] = IF q \in DOMAIN task'.wants \ Due' THEN task'.wants[q] ELSE task'.start[q]
        BY <1>0, <2>1, <4>1, <4>5 DEF HalfWay
      <4> QED BY <2>1, <4>2, <4>4, <4>6 DEF HalfWay, InOrder
    <3> QED BY <2>1, <3>1, <3>2 DEF Pairs
  <2> QED BY <2>5, <2>6, <2>7, <2>9, <2>10, <2>11 DEF IInv
<1> QED BY <1>6, <1>8, <1>9

-----------------------------------------------------------------------------
(* What breaks a call, what ends it, and what happens beside it.             *)

LEMMA InvBreaks == ASSUME Bounds, IInv, Breaks PROVE IInv'
<1>0. /\ task \in Tasks /\ task.at # "idle" /\ UNCHANGED <<unit, line, hold, inRun, owed>> /\ mishaps \in 0..MaxFaults
  BY DEF IInv, Typed, Breaks
<1>1. PICK why \in SUBSET Reasons : task' = Ended(FALSE, why) /\ "exception" \in why
  <2>1. task.why \in SUBSET Reasons
    BY <1>0 DEF Tasks
  <2> QED BY <2>1 DEF Breaks, Reasons
<1>2. task.sent \in SUBSET (Quantities \cup {"on"})
  BY <1>0 DEF Tasks
<1>3. Ended(FALSE, why) \in Tasks /\ Ended(FALSE, why) = [Ended(FALSE, why) EXCEPT !.sent = task.sent]
  BY <1>0, <1>2, EndedTyped
<1>4. /\ task'.at = "ended" /\ task'.why = why /\ task'.tool = task.tool /\ task'.wants = task.wants
      /\ task'.start = task.start /\ task'.touched = task.touched /\ task'.wild = task.wild
  BY <1>0, <1>1 DEF Ended, Tasks
<1>5. Typed'
  <2>1. mishaps' \in 0..MaxFaults
    BY <1>0 DEF Breaks, Fault, Bounds
  <2> QED BY <1>0, <1>1, <1>3, <2>1 DEF IInv, Typed
<1>6. AnswerTrue' /\ WrittenWithinLimits'
  BY <1>1, <1>4 DEF AnswerTrue, WrittenWithinLimits
<1>7. PairKept'
  BY <1>0, <1>4 DEF IInv, Pairs, PairKept
<1>8. IF task.tool = "set" THEN "on" \notin task.sent ELSE task.sent \subseteq {"on"}
  BY DEF IInv, Requested
<1> QED BY <1>0, <1>1, <1>2, <1>3, <1>5, <1>6, <1>7, <1>8, EndedIInv

\* Between two calls nothing is left to show.
LEMMA IdleIInv == ASSUME Bounds, Typed', task' = Idle PROVE IInv'
<1>1. task'.at = "idle" /\ task'.tool = "status" /\ task'.todo = <<>> /\ task'.steps = <<>>
      /\ task'.sent = {} /\ task'.wants = <<>>
  BY DEF Idle
<1>2. DOMAIN task'.wants = {} /\ Len(task'.steps) = 0
  BY <1>1
<1>3. Asking' /\ Aligned' /\ Truth'
  BY <1>1 DEF Asking, Aligned, Truth, Partial, PartialTrue, Whole, AnswerTrue
<1>4. Requested'
  BY <1>1, <1>2 DEF Requested
<1>5. Limits' /\ Pairs'
  BY <1>1 DEF Limits, Pairs, WrittenWithinLimits, PairKept
<1> QED BY <1>3, <1>4, <1>5 DEF IInv

LEMMA InvEnds == ASSUME Bounds, IInv, Ends \/ Recover \/ Crash PROVE IInv'
<1>0. Typed
  BY DEF IInv
<1>1. ASSUME Sound \/ Fault PROVE mishaps' \in 0..MaxFaults
  BY <1>0, <1>1 DEF Typed, Sound, Fault, Bounds
<1>2. CASE Commit
  <2>1. (Sound \/ Fault) /\ hold' \in {"free", "held", "incident", "standing"}
    BY <1>2 DEF Commit, MayStandDown
  <2>2. Typed'
    BY <1>0, <1>1, <1>2, <2>1, IdleIs DEF Typed, Commit, Over
  <2> QED BY <1>2, <2>2, IdleIInv DEF Commit, Over
<1>3. CASE Raised
  <2>1. (Sound \/ Fault) /\ hold' \in {"free", "held", "incident", "standing"}
    BY <1>3 DEF Raised, MayStandDown
  <2>2. Typed'
    BY <1>0, <1>1, <1>3, <2>1, IdleIs DEF Typed, Raised, Over
  <2> QED BY <1>3, <2>2, IdleIInv DEF Raised, Over
<1>4. CASE Crash
  <2>1. mishaps' \in 0..MaxFaults
    BY <1>1, <1>4 DEF Crash
  <2>2. Typed'
    BY <1>0, <1>4, <2>1, IdleIs DEF Typed, Crash
  <2> QED BY <1>4, <2>2, IdleIInv DEF Crash
<1>5. CASE OtherCall \/ RunStart \/ RunStop \/ Recover
  <2>1. UNCHANGED <<unit, line, task, mishaps>>
    BY <1>5 DEF OtherCall, RunStart, RunStop, Recover
  <2>2. Typed'
    <3>1. hold' \in {"free", "held", "incident", "standing"} /\ inRun' \in BOOLEAN /\ owed' \in BOOLEAN
      BY <1>0, <1>5 DEF Typed, OtherCall, RunStart, RunStop, Recover
    <3> QED BY <1>0, <2>1, <3>1 DEF Typed
  <2>3. Asking' /\ Aligned'
    BY <2>1 DEF IInv, Asking, Aligned, Marked
  <2>4. Truth'
    BY <2>1 DEF IInv, Truth, Partial, PartialTrue, Whole, AnswerTrue
  <2>5. Requested' /\ Limits'
    BY <2>1 DEF IInv, Requested, Limits, Switches, AllWithin, WrittenWithinLimits
  <2>6. Pairs'
    BY <2>1 DEF IInv, Pairs, HalfWay, InOrder, Due, PairKept
  <2> QED BY <2>2, <2>3, <2>4, <2>5, <2>6 DEF IInv
<1> QED BY <1>2, <1>3, <1>4, <1>5 DEF Ends

LEMMA InvPanel == ASSUME Bounds, IInv, Panel PROVE IInv'
<1>0. Typed /\ UNCHANGED <<line, hold, inRun>>
  BY DEF IInv, Panel
<1>1. unit' \in Units
  <2>1. CASE \E q \in Quantities : \E point \in Points \ {unit[q]} : unit' = [unit EXCEPT ![q] = point]
    <3>1. PICK q \in Quantities : \E point \in Points \ {unit[q]} : unit' = [unit EXCEPT ![q] = point]
      BY <2>1
    <3>2. PICK point \in Points : unit' = [unit EXCEPT ![q] = point]
      BY <3>1
    <3> QED BY <1>0, <3>2, UnitMoved DEF Typed
  <2>2. CASE unit' = [unit EXCEPT !.on = ~@]
    BY <1>0, <2>2 DEF Typed, Units
  <2> QED BY <2>1, <2>2 DEF Panel
<1>2. mishaps' \in 0..MaxFaults
  BY <1>0 DEF Typed, Panel, Sound, Fault, Bounds
<1>3. CASE task.at = "idle" /\ task' = task
  <2>1. Typed'
    BY <1>0, <1>1, <1>2, <1>3 DEF Typed, Panel
  <2>2. Asking' /\ Aligned' /\ Requested'
    BY <1>0, <1>3 DEF IInv, Asking, Aligned, Requested
  <2>3. Truth'
    BY <1>3 DEF Truth, Partial, PartialTrue, Whole, AnswerTrue
  <2>4. Limits' /\ Pairs'
    BY <1>3 DEF Limits, Pairs, WrittenWithinLimits, PairKept
  <2> QED BY <2>1, <2>2, <2>3, <2>4 DEF IInv
<1>4. CASE task.at # "idle" /\ task' = [task EXCEPT !.touched = TRUE]
  <2>1. /\ task' \in Tasks /\ task'.touched = TRUE /\ task'.at = task.at /\ task'.todo = task.todo
        /\ task'.tool = task.tool /\ task'.wants = task.wants /\ task'.steps = task.steps
        /\ task'.sent = task.sent /\ task'.last = task.last /\ task'.start = task.start
        /\ task'.reading = task.reading
    BY <1>0, <1>4 DEF Typed, Tasks
  <2>2. Typed'
    BY <1>0, <1>1, <1>2, <2>1 DEF Typed, Panel
  <2>3. Asking' /\ Aligned'
    BY <1>0, <2>1 DEF IInv, Asking, Aligned, Marked
  <2>4. Requested'
    BY <2>1 DEF IInv, Requested
  <2>5. Truth'
    BY <2>1 DEF IInv, Truth, Partial, PartialTrue, Whole, AnswerTrue
  <2>6. Limits' /\ Pairs'
    BY <2>1 DEF Limits, Pairs, WrittenWithinLimits, PairKept
  <2> QED BY <2>2, <2>3, <2>4, <2>5, <2>6 DEF IInv
<1> QED BY <1>3, <1>4 DEF Panel

LEMMA InvStep == Bounds /\ FewLate /\ IInv /\ [Next]_vars => IInv'
<1> SUFFICES ASSUME Bounds, FewLate, IInv, [Next]_vars PROVE IInv'
  OBVIOUS
<1>1. CASE UNCHANGED vars
  <2>1. UNCHANGED <<unit, line, task, hold, inRun, owed, mishaps>>
    BY <1>1 DEF vars
  <2>2. Typed' /\ Asking' /\ Aligned'
    BY <2>1 DEF IInv, Typed, Asking, Aligned, Marked
  <2>3. Truth'
    BY <2>1 DEF IInv, Truth, Partial, PartialTrue, Whole, AnswerTrue
  <2>4. Requested' /\ Limits'
    BY <2>1 DEF IInv, Requested, Limits, Switches, AllWithin, WrittenWithinLimits
  <2>5. Pairs'
    BY <2>1 DEF IInv, Pairs, HalfWay, InOrder, Due, PairKept
  <2> QED BY <2>2, <2>3, <2>4, <2>5 DEF IInv
<1>2. CASE Calls
  BY <1>2, InvCalls
<1>3. CASE Exchange
  BY <1>3, InvExchange
<1>4. CASE Identified
  BY <1>4, InvIdentified
<1>5. CASE ReadBefore
  BY <1>5, InvReadBefore
<1>6. CASE Write
  BY <1>6, InvWrite
<1>7. CASE Check
  BY <1>7, InvCheck
<1>8. CASE Breaks
  BY <1>8, InvBreaks
<1>9. CASE Ends \/ Recover \/ Crash
  BY <1>9, InvEnds
<1>10. CASE Panel
  BY <1>10, InvPanel
<1> QED BY <1>1, <1>2, <1>3, <1>4, <1>5, <1>6, <1>7, <1>8, <1>9, <1>10 DEF Next, Conversation

-----------------------------------------------------------------------------
(* The theorems.                                                            *)

\* The strengthened invariant, for any set points, limits and number of mishaps.
THEOREM AlwaysIInv == Bounds /\ FewLate => (Spec => []IInv)
<1> SUFFICES ASSUME Bounds, FewLate PROVE Spec => []IInv
  OBVIOUS
<1>1. Init => IInv
  BY InitIInv
<1>2. IInv /\ [Next]_vars => IInv'
  BY InvStep
<1> QED BY <1>1, <1>2, PTL DEF Spec

\* Every variable keeps its type.
THEOREM TypesHold == Bounds /\ FewLate => (Spec => []TypeOK)
<1> SUFFICES ASSUME Bounds, FewLate PROVE Spec => []TypeOK
  OBVIOUS
<1>1. IInv => TypeOK
  <2> SUFFICES ASSUME IInv PROVE TypeOK
    OBVIOUS
  <2>1. task \in Tasks
    BY DEF IInv, Typed
  <2>2. \A n \in DOMAIN task.todo : task.todo[n] \in Commands
    <3>1. task.todo \in Seq(Commands)
      BY <2>1 DEF Tasks
    <3> QED BY <3>1
  <2>3. TaskType
    BY <2>1, <2>2 DEF TaskType, Tasks
  <2>4. \A n \in DOMAIN line : line[n] \in Replies
    BY DEF IInv, Typed
  <2> QED BY <2>3, <2>4 DEF IInv, Typed, TypeOK
<1> QED BY <1>1, AlwaysIInv, PTL

\* The answer of a call is right about the supply, and keeps the limits of what it
\* wrote, as long as fewer replies are late than a conversation asks for before it
\* believes what it has read (power_supply.py:921-936, 1007-1051).
THEOREM SupplyIsHonest == Bounds /\ FewLate => (Spec => []SupplyHonest)
<1> SUFFICES ASSUME Bounds, FewLate PROVE Spec => []SupplyHonest
  OBVIOUS
<1>1. IInv => SupplyHonest
  BY DEF IInv, Truth, Limits, SupplyHonest
<1> QED BY <1>1, AlwaysIInv, PTL

\* Between its two writes a set leaves the supply with no pair that neither what it
\* held nor the request allows (power_supply.py:523-528).
THEOREM PairIsKept == Bounds /\ FewLate => (Spec => []PairKept)
<1> SUFFICES ASSUME Bounds, FewLate PROVE Spec => []PairKept
  OBVIOUS
<1>1. IInv => PairKept
  BY DEF IInv, Pairs
<1> QED BY <1>1, AlwaysIInv, PTL

\* The server switches no output on above the owner's limits
\* (power_supply.py:989-1006).
THEOREM SwitchesOnWithinLimits == Bounds /\ FewLate => (Spec => SwitchedOnWithinLimits)
<1> DEFINE Good == task.at = "write" /\ ~unit.on /\ unit'.on /\ ~task'.touched /\ ~task'.wild
                     => \A q \in Quantities : Within(q, unit'[q])
<1> SUFFICES ASSUME Bounds, FewLate PROVE Spec => [][Good]_<<unit, task>>
  BY DEF SwitchedOnWithinLimits
<1>1. ASSUME IInv, Next PROVE Good
  <2>1. SUFFICES ASSUME task.at = "write", ~unit.on, unit'.on, ~task'.touched, ~task'.wild PROVE AllWithin'
    BY DEF AllWithin
  <2>2. unit \in Units /\ task \in Tasks /\ unit' # unit
    BY <1>1, <2>1 DEF IInv, Typed
  <2>3. task.todo = <<>> /\ task.at # "idle"
    BY <1>1, <2>1 DEF IInv, Asking
  <2>4. CASE Panel
    <3>1. task' = [task EXCEPT !.touched = TRUE]
      BY <2>3, <2>4 DEF Panel
    <3>2. task'.touched = TRUE
      BY <2>2, <3>1 DEF Tasks
    <3> QED BY <2>1, <3>2
  <2>5. CASE Write
    <3> DEFINE step == Head(task.steps)
               moved == [unit EXCEPT ![step.q] = step.to]
    <3>1. /\ task.steps \in Seq(StepsOf) /\ task.steps # <<>>
      BY <1>1, <2>1, <2>2 DEF IInv, Requested, Tasks
    <3>2. step \in StepsOf /\ step = task.steps[1] /\ 1 \in 1..Len(task.steps)
      <4>1. Len(task.steps) \in Nat \ {0}
        BY <3>1, EmptySeq
      <4>2. step \in StepsOf /\ step = task.steps[1]
        BY <3>1, HeadTailProperties
      <4>3. 1 <= Len(task.steps)
        BY <4>1
      <4> QED BY <4>1, <4>2, <4>3
    <3>3. IF task.tool = "set" THEN step.q \in DOMAIN task.wants ELSE step.q = "on"
      BY <1>1, <3>2 DEF IInv, Requested
    <3>4. task.tool = "set" => step.q \in Quantities
      BY <1>1, <3>3 DEF IInv, Requested
    <3>5. step.to \in BOOLEAN \/ step.q # "on"
      <4>1. \A s \in [q : Quantities, to : Points] : s.q # "on"
        BY DEF Quantities
      <4> QED BY <3>2, <4>1 DEF StepsOf
    <3> HIDE DEF step
    <3>6. \/ unit' = moved
          \/ \E does \in IF step.q = "on" THEN BOOLEAN ELSE Points : unit' = [unit EXCEPT ![step.q] = does] /\ task'.wild = TRUE
      <4>1. \A t \in Tasks : [t EXCEPT !.wild = TRUE].wild = TRUE
        BY DEF Tasks
      <4>2. CASE Fault /\ unit' \in {unit, moved}
        BY <2>2, <4>2
      <4>3. CASE \E does \in IF step.q = "on" THEN BOOLEAN ELSE Points :
                     unit' = [unit EXCEPT ![step.q] = does]
                 /\ task' = [[task EXCEPT !.at = "check", !.sent = @ \cup {step.q},
                                !.todo = (IF step.q = "on" THEN <<>> ELSE <<step.q>>) \o ChannelStatus] EXCEPT !.wild = TRUE]
        <5>1. task'.wild = TRUE
          BY <2>2, <4>3 DEF Tasks
        <5> QED BY <4>3, <5>1
      <4> QED BY <2>5, <4>2, <4>3 DEF Write, step
    <3>7. unit' = moved
      BY <2>1, <3>6
    <3>8. step.q = "on" /\ task.tool # "set"
      <4>1. \A q \in Quantities : [unit EXCEPT ![q] = step.to].on = unit.on
        BY <2>2 DEF Units, Quantities
      <4> QED BY <2>1, <3>3, <3>4, <3>7, <4>1
    <3>9. step.to = TRUE /\ \A p \in Quantities : unit'[p] = unit[p]
      <4>1. unit'.on = step.to /\ \A p \in Quantities : unit'[p] = unit[p]
        BY <2>2, <3>5, <3>7, <3>8 DEF Units, Quantities
      <4> QED BY <2>1, <3>5, <3>8, <4>1
    <3>10. ~task.touched
      <4>1. task'.touched = task.touched
        BY <2>2, <2>5 DEF Write, Ended, Tasks
      <4> QED BY <2>1, <4>1
    <3>11. AllWithin
      <4>1. Switches
        BY <3>2, <3>9 DEF Switches
      <4> QED BY <1>1, <2>1, <3>8, <3>10, <4>1 DEF IInv, Limits
    <3> QED BY <3>9, <3>11 DEF AllWithin
  <2>6. CASE Next /\ ~Panel /\ ~Write
    BY <2>2, <2>6 DEF Next, Calls, Status, Set, Output, Cycle, Called, Conversation, Exchange, Identified,
       ReadBefore, Check, Here, Breaks, Ends, Commit, Raised, Over, OtherCall, RunStart, RunStop, Recover, Crash
  <2> QED BY <1>1, <2>4, <2>5, <2>6
<1>2. IInv /\ [Next]_vars => [Good]_<<unit, task>>
  BY <1>1 DEF vars
<1> QED BY <1>2, AlwaysIInv, PTL DEF Spec
=============================================================================
