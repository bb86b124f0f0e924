------------------------------ MODULE CanFrames ------------------------------
(***************************************************************************)
(* What a CAN broker does for the participants seated on it: their sends,  *)
(* their reads, the frames it passes on and the incidents that end a run.  *)
(*                                                                         *)
(* Each connection has a thread of its own, which serves one request at a  *)
(* time.  The broker's guard is taken and given back several times in one  *)
(* request, and the adapter is called without it, so a request is split at *)
(* every one of these places.  The rendezvous is module CanBroker.         *)
(***************************************************************************)
EXTENDS CanFramesPromise

CONSTANTS
    Writers,        \* those with permissions.allow_write
    Readers,        \* those with permissions.allow_read
    Silent,         \* those with requires_listen_only
    View,           \* participant -> the identifiers its filter accepts
    Ids,            \* identifiers
    Budget,         \* participant -> max_frames
    Buffer,         \* max_buffer_frames
    MaxSeq,         \* bound: frame sequence numbers
    MaxHeard        \* bound: frames the adapter receives from the wire

VARIABLES
    seq,     \* frame_seq
    heard,   \* how many frames the adapter has given up
    closing  \* the last participant has left

vars == <<seat, call, seq, heard, gated, closing, owed, got>>

NoSeat == [on |-> FALSE, abort |-> "none", used |-> 0, queue |-> <<>>]
NoCall == [pc |-> "idle", id |-> 0, seq |-> 0, want |-> 0, drawn |-> <<>>]

\* A frame in a queue: its number, and its place on the wire if it came from there.
Frame == [seq : 1..MaxSeq, id : Ids, wire : 0..MaxHeard]

TypeOK ==
    /\ seat \in [Participants -> [on : BOOLEAN, abort : {"none", "participant", "bus"},
                                  used : Nat, queue : Seq(Frame)]]
    /\ \A p \in Participants :
          /\ call[p].pc \in {"idle", "spend", "send", "sent", "gate", "read", "draw", "fan", "take", "over"}
          /\ call[p].id \in Ids \cup {0} /\ call[p].want \in 0..Buffer
          /\ seat[p].used <= Budget[p] + Buffer
          /\ Len(seat[p].queue) <= Buffer /\ Len(seat[p].queue) <= Budget[p]
    /\ seq \in 0..MaxSeq /\ heard \in 0..MaxHeard
    /\ {gated, closing} \subseteq BOOLEAN

Init ==
    /\ seat = [p \in Participants |-> NoSeat]
    /\ call = [p \in Participants |-> NoCall]
    /\ seq = 0 /\ heard = 0
    /\ gated = FALSE /\ closing = FALSE
    /\ owed = [p \in Participants |-> <<>>]
    /\ got = [p \in Participants |-> <<>>]

-----------------------------------------------------------------------------
(* Seats.                                                                  *)

\* Mutation: a gated bus still seats.
MMayAttach(p) == p \in Silent => Seated \cap Writers = {}

\* A gated bus takes nobody; one that transmits and one that needs the bus
\* silent are not seated together (`_listen_only_conflict`).
MayAttach(p) ==
    /\ ~gated
    /\ p \in Silent => Seated \cap Writers = {}
    /\ p \in Writers => Seated \cap Silent = {}

Attach(p) ==
    /\ ~seat[p].on /\ ~closing /\ MayAttach(p)
    /\ seat' = [seat EXCEPT ![p] = [NoSeat EXCEPT !.on = TRUE]]
    /\ owed' = [owed EXCEPT ![p] = <<>>]
    /\ got' = [got EXCEPT ![p] = <<>>]
    /\ UNCHANGED <<call, seq, heard, gated, closing>>

\* A request, or the end of the connection, which the thread meets between two.
Detach(p) ==
    /\ seat[p].on /\ call[p] = NoCall
    /\ seat' = [seat EXCEPT ![p] = NoSeat]
    /\ closing' = (Seated = {p})
    /\ UNCHANGED <<call, seq, heard, gated, owed, got>>

-----------------------------------------------------------------------------
(* Incidents.                                                              *)

Abort(p, scope) == seat' = [seat EXCEPT ![p].abort = scope]

\* Everybody's abort is overwritten, whatever it was.
GateBus ==
    /\ gated' = TRUE
    /\ seat' = [p \in Participants |-> IF seat[p].on THEN [seat[p] EXCEPT !.abort = "bus"] ELSE seat[p]]

\* A participant reports one; it is heard even when its own run is aborted.
HandleIncident(p) ==
    /\ seat[p].on /\ call[p] = NoCall
    /\ \/ GateBus
       \/ Abort(p, "participant") /\ UNCHANGED gated
    /\ UNCHANGED <<call, seq, heard, closing, owed, got>>

Ends(p) == call' = [call EXCEPT ![p] = NoCall]
Goes(p, pc) == call' = [call EXCEPT ![p].pc = pc]

\* `_raise_bus_incident`, in a critical section of its own.
RaiseBusIncident(p) ==
    /\ call[p].pc = "gate" /\ GateBus /\ Ends(p)
    /\ UNCHANGED <<seq, heard, closing, owed, got>>

\* `_budget_exhausted`.
BudgetExhausted(p) ==
    /\ call[p].pc = "over" /\ Abort(p, "participant") /\ Ends(p)
    /\ UNCHANGED <<seq, heard, gated, closing, owed, got>>

-----------------------------------------------------------------------------
(* Passing a frame on.                                                     *)

\* Mutation: a queue is bounded by the bus's buffer alone.
MQueueBound(s, p) == Buffer

\* `_receive_queue_bound`.
QueueBound(s, p) ==
    LET left == IF s.used < Budget[p] THEN Budget[p] - s.used ELSE 0 IN
    IF left = 0 THEN 1 ELSE IF left < Buffer THEN left ELSE Buffer

\* Whom a frame is for: the abort is another matter.
Sees(p, f) == seat[p].on /\ p \in Readers /\ f.id \in View[p]

\* Mutation: a frame that finds the queue full is dropped.
MQueued(s, p, frames) ==
    IF frames = <<>> \/ s.abort # "none" THEN s
    ELSE [s EXCEPT !.queue = @ \o SubSeq(frames, 1, QueueBound(s, p) - Len(@))]

\* An aborted participant is passed by; one whose queue is full is aborted.
Queued(s, p, frames) ==
    LET bound == QueueBound(s, p) IN
    IF frames = <<>> \/ s.abort # "none" THEN s
    ELSE IF Len(s.queue) + Len(frames) <= bound THEN [s EXCEPT !.queue = @ \o frames]
    ELSE [s EXCEPT !.queue = @ \o SubSeq(frames, 1, bound - Len(@)), !.abort = "participant"]

\* The frames of a batch that are for p, in the order of the batch.
For(p, frames) ==
    LET kept[n \in 0..Len(frames)] ==
          IF n = 0 THEN <<>>
          ELSE IF Sees(p, frames[n]) THEN Append(kept[n - 1], frames[n]) ELSE kept[n - 1]
    IN kept[Len(frames)]

\* `_queue_frame_for_participants`, for one frame after the other.
PassOn(frames, to) ==
    LET for(p) == IF p \in to THEN For(p, frames) ELSE <<>> IN
    /\ seat' = [p \in Participants |-> Queued(seat[p], p, for(p))]
    /\ owed' = [p \in Participants |-> owed[p] \o for(p)]

-----------------------------------------------------------------------------
(* Requests.  One that finds its run aborted is refused by `_blocked`.     *)

MayAsk(p) == seat[p].on /\ call[p] = NoCall /\ seat[p].abort = "none"

Send(p) ==
    /\ MayAsk(p) /\ p \in Writers
    /\ \E id \in View[p] : call' = [call EXCEPT ![p].pc = "spend", ![p].id = id]
    /\ UNCHANGED <<seat, seq, heard, gated, closing, owed, got>>

\* `_spend_budget`.
SpendBudget(p) ==
    /\ call[p].pc = "spend"
    /\ \/ /\ seat[p].used >= Budget[p]
          /\ Abort(p, "participant") /\ Ends(p)
       \/ /\ seat[p].used < Budget[p]
          /\ seat' = [seat EXCEPT ![p].used = @ + 1] /\ Goes(p, "send")
    /\ UNCHANGED <<seq, heard, gated, closing, owed, got>>

\* Mutation: a transmitted frame goes under the last number used.
MNumber(n) == IF seq = 0 THEN 1 ELSE seq

\* The n-th number from here on; `frame_seq` moves with it.
Number(n) == seq + n

\* The adapter takes the frame, proves that it did not go out, or fails with it;
\* each time it is logged under a number of its own.
AdapterSends(p) ==
    /\ call[p].pc = "send" /\ seq < MaxSeq
    /\ seq' = seq + 1
    /\ \/ call' = [call EXCEPT ![p].pc = "sent", ![p].seq = Number(1)]
       \/ Ends(p)
       \/ Goes(p, "gate")
    /\ UNCHANGED <<seat, heard, gated, closing, owed, got>>

\* The peers get it, under the guard taken anew; the sender does not.
Deliver(p) ==
    /\ call[p].pc = "sent"
    /\ PassOn(<<[seq |-> call[p].seq, id |-> call[p].id, wire |-> 0]>>, Participants \ {p})
    /\ Ends(p)
    /\ UNCHANGED <<seq, heard, gated, closing, got>>

Read(p) ==
    /\ MayAsk(p) /\ p \in Readers
    /\ \E want \in 1..Buffer : call' = [call EXCEPT ![p].pc = "read", ![p].want = want]
    /\ UNCHANGED <<seat, seq, heard, gated, closing, owed, got>>

\* The bus is read only when too little is queued.
Pending(p) ==
    /\ call[p].pc = "read"
    /\ Goes(p, IF Len(seat[p].queue) < call[p].want THEN "draw" ELSE "take")
    /\ UNCHANGED <<seat, seq, heard, gated, closing, owed, got>>

\* `_draw_from_bus` calls the adapter without the guard: frames are gone from
\* the controller before anybody has them.
Draw(p) ==
    /\ call[p].pc = "draw"
    /\ \/ \E k \in 0..call[p].want : \E ids \in [1..k -> Ids] :
             /\ heard + k <= MaxHeard
             /\ heard' = heard + k
             /\ call' = [call EXCEPT ![p].pc = "fan",
                   ![p].drawn = [i \in 1..k |-> [id |-> ids[i], wire |-> heard + i]]]
       \/ Goes(p, "gate") /\ UNCHANGED heard
    /\ UNCHANGED <<seat, seq, gated, closing, owed, got>>

FanOut(p) ==
    LET drawn == call[p].drawn IN
    /\ call[p].pc = "fan" /\ seq + Len(drawn) <= MaxSeq
    /\ seq' = seq + Len(drawn)
    /\ PassOn([i \in DOMAIN drawn |-> [seq |-> Number(i), id |-> drawn[i].id, wire |-> drawn[i].wire]],
              Participants)
    /\ call' = [call EXCEPT ![p].pc = "take", ![p].drawn = <<>>]
    /\ UNCHANGED <<heard, gated, closing, got>>

\* Beyond its budget the frames are taken and not handed over.
Take(p) ==
    LET queue == seat[p].queue
        n == IF Len(queue) < call[p].want THEN Len(queue) ELSE call[p].want
        over == seat[p].used + n > Budget[p]
    IN
    /\ call[p].pc = "take"
    /\ seat' = [seat EXCEPT ![p].queue = SubSeq(queue, n + 1, Len(queue)), ![p].used = @ + n]
    /\ IF over THEN Goes(p, "over") /\ UNCHANGED got
       ELSE Ends(p) /\ got' = [got EXCEPT ![p] = @ \o SubSeq(queue, 1, n)]
    /\ UNCHANGED <<seq, heard, gated, closing, owed>>

-----------------------------------------------------------------------------
Step(p) ==
    \/ SpendBudget(p) \/ AdapterSends(p) \/ Deliver(p)
    \/ Pending(p) \/ Draw(p) \/ FanOut(p) \/ Take(p)
    \/ RaiseBusIncident(p) \/ BudgetExhausted(p)

Next == \E p \in Participants :
    Attach(p) \/ Detach(p) \/ HandleIncident(p) \/ Send(p) \/ Read(p) \/ Step(p)

Spec == Init /\ [][Next]_vars

-----------------------------------------------------------------------------
(* Properties.                                                             *)

\* The broker does not reorder frames (docs/can-service-design.md:129): what a
\* participant sees of the wire it sees in the order of the wire.
WireOrderKept ==
    \A p \in Seated : \A i, j \in DOMAIN Seen(p) :
       i < j /\ Seen(p)[i].wire # 0 /\ Seen(p)[j].wire # 0 => Seen(p)[i].wire < Seen(p)[j].wire

\* A bus incident belongs to the bus: every participant's run aborts with that
\* scope (docs/can-service-design.md:81), which its lease is then told.
BusScopeKept == gated => \A p \in Seated : seat[p].abort = "bus"

\* A failed controller is not transmitted over: the bus is gated rather than
\* another left to keep sending (canbroker.py:1131).
GatedIsSilent == [][gated => seq' = seq \/ \E p \in Participants : call[p].pc = "fan" /\ call'[p].pc # "fan"]_vars
=============================================================================
