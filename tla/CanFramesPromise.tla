-------------------------- MODULE CanFramesPromise --------------------------
(* What a CAN broker promises of the frames it passes on, over the part of  *)
(* CanFrames' state that a reader of its log and of its answers can see.    *)
EXTENDS Naturals, Sequences

CONSTANT Participants   \* the shares of the bus

VARIABLES
    seat,    \* participant -> its seat, or NoSeat
    call,    \* participant -> the request its thread is in
    gated,   \* bus_gated
    owed,    \* history: participant -> the frames passed on that it may see
    got      \* history: participant -> the frames its reads returned

Seated == {p \in Participants : seat[p].on}

\* What a participant was given and what waits for it.
Seen(p) == got[p] \o seat[p].queue

\* A run that is not told that it is aborted has every frame its view carries,
\* in the order they were passed on: nothing is lost silently, whatever the
\* others read or send meanwhile (canbroker.py:1196, 1224).
LossReported ==
    \A p \in Seated : seat[p].abort = "none" /\ call[p].pc # "over" => Seen(p) = owed[p]

\* One number names one frame in everybody's log, and a participant meets the
\* frames of the wire under growing numbers (`frame_seq`).
SeqNamesFrame ==
    /\ \A p, q \in Seated : \A i \in DOMAIN Seen(p), j \in DOMAIN Seen(q) :
          Seen(p)[i].seq = Seen(q)[j].seq => Seen(p)[i] = Seen(q)[j]
    /\ \A p \in Seated : \A i, j \in DOMAIN Seen(p) :
          i < j /\ Seen(p)[i].wire # 0 /\ Seen(p)[j].wire # 0 => Seen(p)[i].seq < Seen(p)[j].seq

\* Every frame a participant may see reaches it or its run is told, under a
\* number that is no other frame's (canbroker.py:1176-1243).
FramesAccounted == LossReported /\ SeqNamesFrame

\* Once the bus is gated every run on it is aborted, and nobody new is seated
\* who would not know (canbroker.py:1018, 1262).
IncidentReachesAll == gated => \A p \in Seated : seat[p].abort # "none"
=============================================================================
