------------------------- MODULE PowerSupplyPromise -------------------------
(* What the calls on a power supply promise, said of the supply and of the  *)
(* call under way.  PowerSupply is what the calls do.                       *)
EXTENDS Naturals

CONSTANTS
    Top,        \* bound: the highest set point
    LimitV,     \* effective_limits of the channel
    LimitI

VARIABLES
    unit,      \* what the supply holds
    task       \* the call under way, see TaskType of PowerSupply

Quantities == {"v", "i"}
Points == 0..Top
Limit == [v |-> LimitV, i |-> LimitI]
Units == [v : Points, i : Points, on : BOOLEAN]
Unread == [v |-> Top + 1, i |-> Top + 1, on |-> FALSE]

Within(q, value) == value <= Limit[q]
Beneath(a, b) == a.v <= b.v /\ a.i <= b.i

\* Between its two writes a set never leaves the supply with a pair that neither
\* what it held before nor the request allows (power_supply.py:523-528), unless the
\* unit or the operator did something else.
PairKept ==
    LET asked == [q \in Quantities |-> IF q \in DOMAIN task.wants THEN task.wants[q] ELSE task.start[q]] IN
    task.tool = "set" /\ task.at # "idle" /\ ~task.touched /\ ~task.wild
        => Beneath(unit, task.start) \/ Beneath(unit, asked)

\* An answer that names nothing unconfirmed is right about the supply: what it
\* last read is what the supply holds, and a supply it did not read it did not
\* change (power_supply.py:921-936, 1007-1051).
AnswerTrue ==
    task.at = "ended" /\ task.why \subseteq {"above"} /\ ~task.touched
        => unit = IF task.last = Unread THEN task.start ELSE task.last

\* The limit of every quantity a call wrote is kept when it ends, or its answer
\* says which is not, or that nobody knows.
WrittenWithinLimits ==
    task.at = "ended" /\ task.why = {} /\ ~task.touched =>
        /\ \A q \in task.sent \ {"on"} : Within(q, unit[q])
        /\ task.ok /\ task.tool # "status" /\ "on" \in task.sent /\ unit.on => \A q \in Quantities : Within(q, unit[q])

SupplyHonest == AnswerTrue /\ WrittenWithinLimits

\* The server switches no output on above the owner's limits (power_supply.py:989-1006).
SwitchedOnWithinLimits ==
    [][task.at = "write" /\ ~unit.on /\ unit'.on /\ ~task'.touched /\ ~task'.wild
        => \A q \in Quantities : Within(q, unit'[q])]_<<unit, task>>
=============================================================================
