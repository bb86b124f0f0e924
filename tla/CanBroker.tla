------------------------------ MODULE CanBroker ------------------------------
(***************************************************************************)
(* The rendezvous of canbroker.py: one broker process owns a physical CAN  *)
(* bus, and the participants of several runs find it, start it, attach to  *)
(* it and leave it.                                                        *)
(*                                                                         *)
(* They meet over four things on disk or in the kernel, which nobody reads *)
(* together: the bus lock, its holder record, the descriptor that names    *)
(* the broker and its connection counter, and the key file beside it.      *)
(* Broker and client code is split wherever another process can get in     *)
(* between; a client is named as its participant, whose own lock it holds. *)
(***************************************************************************)
EXTENDS Naturals, FiniteSets

CONSTANTS
    Clients,        \* runs that attach, each under its participant name
    Brokers,        \* broker processes, as numbers; one that nothing names is used again
    Nobody,         \* no process
    Faults,         \* what may fail: config, adapter, files (a write or an unlink)
    MaxCounter,     \* bound: the connection counter comes back to 1 after it
    MaxMishaps      \* bound: how much goes wrong of itself (see `Mishap`)

ASSUME CanBrokerAssumption ==
    /\ Nobody \notin Clients \cup Brokers
    /\ Clients \cap Brokers = {}
    /\ Faults \subseteq {"config", "adapter", "files"}
    /\ Brokers \subseteq Nat
    /\ MaxCounter \in Nat \ {0}
    /\ MaxMishaps \in Nat

VARIABLES
    busLock,     \* who holds the bus lock: a broker, or a client that probes it
    holder,      \* the broker the holder record names
    descriptor,  \* the published [owner, counter], or NoDescriptor
    keyFile,     \* the broker whose key is in the key file
    broker,      \* broker -> its process
    conns,       \* broker -> the connections its threads serve
    client,      \* client -> where its attach stands
    mishaps      \* how much has

vars == <<busLock, holder, descriptor, keyFile, broker, conns, client, mishaps>>

NoDescriptor == [owner |-> Nobody, counter |-> 0]

\* A broker process: `empty` is what its first-attach watchdog has read, `why`
\* the reason it stops for, `code` its exit code ("error" of an exception that
\* nobody caught), `left` whether its shutdown could not unlink the descriptor.
Absent == [st |-> "none", counter |-> 0, empty |-> FALSE, stopping |-> FALSE,
           why |-> "none", gated |-> FALSE, code |-> "none", left |-> FALSE]

\* A client out of any attach: `own` is the broker it started; `desc`, `saw`
\* and `key` are what it read.  At "raised" its attach ended in an exception.
Idle == [pc |-> "out", own |-> Nobody, desc |-> NoDescriptor, saw |-> Nobody,
         key |-> Nobody, peer |-> Nobody]

Starting == {"spawned", "locked", "opened", "keyed"}
Leaving == {"closed", "unpublished"}
Running == Starting \cup {"serving"} \cup Leaving

MaybeBroker == Brokers \cup {Nobody}
Descriptors == [owner : MaybeBroker, counter : 0..MaxCounter]
Codes == {"none", "ok", "busy", "config", "adapter", "error", "killed"}
Processes ==
    [st : Running \cup {"none", "exited"}, counter : 0..MaxCounter,
     empty : BOOLEAN, stopping : BOOLEAN, why : {"none", "last", "watchdog"}, gated : BOOLEAN,
     code : Codes, left : BOOLEAN]
Connections == [who : Clients, counter : 0..MaxCounter, st : {"asked", "seated"}, open : BOOLEAN]
Attaches ==
    [pc : {"out", "raised", "look", "read", "probing", "stale", "unkey", "key", "dial",
           "dialed", "asked", "seated", "detaching", "grace"},
     own : MaybeBroker, desc : Descriptors, saw : MaybeBroker, key : MaybeBroker, peer : MaybeBroker]

TypeOK ==
    /\ busLock \in Clients \cup MaybeBroker
    /\ holder \in MaybeBroker /\ keyFile \in MaybeBroker /\ descriptor \in Descriptors
    /\ broker \in [Brokers -> Processes]
    /\ conns \in [Brokers -> SUBSET Connections]
    /\ client \in [Clients -> Attaches]
    /\ mishaps \in 0..MaxMishaps

Init ==
    /\ busLock = Nobody /\ holder = Nobody /\ keyFile = Nobody
    /\ descriptor = NoDescriptor
    /\ broker = [b \in Brokers |-> Absent]
    /\ conns = [b \in Brokers |-> {}]
    /\ client = [c \in Clients |-> Idle]
    /\ mishaps = 0

-----------------------------------------------------------------------------
(* The broker process, in the order of `main`.                             *)

disk == <<holder, descriptor, keyFile>>

At(b, st) == broker[b].st = st

GoTo(b, st) == broker' = [broker EXCEPT ![b].st = st]

\* Of a process that ended only its exit code is left, and what it left behind.
Exits(b, code) ==
    broker' = [broker EXCEPT ![b] =
        [Absent EXCEPT !.st = "exited", !.code = code, !.left = broker[b].left]]

\* `main` goes to `shutdown`, whose first act closes the listener and the adapter.
Closes(b, code) == broker' = [broker EXCEPT ![b].st = "closed", ![b].code = code]

\* A process is killed, an adapter, a file or a bus fails, an answer comes too late.
Mishap == mishaps < MaxMishaps /\ mishaps' = mishaps + 1

FileFails == "files" \in Faults /\ Mishap

\* What a write or an unlink does, or does not.
Or(done, undone) == (done /\ UNCHANGED mishaps) \/ (undone /\ FileFails)

\* `load_authoritative_config`, `take_bus`: the lock is tried once, and a holder
\* record that cannot be written is done without.
TakeBus(b) ==
    /\ At(b, "spawned") /\ busLock = Nobody
    /\ busLock' = b /\ Or(holder' = b, UNCHANGED holder)
    /\ GoTo(b, "locked")
    /\ UNCHANGED <<descriptor, keyFile, conns, client>>

\* A lock file that cannot be opened is a lock that somebody has.
NotStarted(b) ==
    /\ At(b, "spawned")
    /\ \/ busLock # Nobody /\ Exits(b, "busy") /\ UNCHANGED mishaps
       \/ "config" \in Faults /\ Exits(b, "config") /\ UNCHANGED mishaps
       \/ FileFails /\ Exits(b, "busy")
    /\ UNCHANGED <<busLock, disk, conns, client>>

\* An adapter that does not open takes the bus to `shutdown` at once, and so
\* does a frame log that cannot be begun.
OpenBus(b) ==
    /\ At(b, "locked")
    /\ \/ GoTo(b, "opened") /\ UNCHANGED mishaps
       \/ "adapter" \in Faults /\ Mishap /\ Closes(b, "adapter")
       \/ FileFails /\ Closes(b, "error")
    /\ UNCHANGED <<busLock, disk, conns, client>>

\* The listener and its key, then the descriptor that leads to them.  Each may
\* raise: the old key may be gone by then, the descriptor be in its place.
Publish(b) ==
    /\ \/ /\ At(b, "opened")
          /\ Or(GoTo(b, "keyed") /\ keyFile' = b,
                Closes(b, "error") /\ keyFile' \in {keyFile, Nobody})
          /\ UNCHANGED <<holder, descriptor>>
       \/ /\ At(b, "keyed")
          /\ Or(GoTo(b, "serving") /\ descriptor' = [owner |-> b, counter |-> 0],
                Closes(b, "error") /\ descriptor' \in {descriptor, [owner |-> b, counter |-> 0]})
          /\ UNCHANGED <<holder, keyFile>>
    /\ UNCHANGED <<busLock, conns, client>>

\* `_first_attach_watchdog` reads `attach_total` under the guard, gives the
\* guard back, and stops the broker under it again.
Watch(b) ==
    /\ At(b, "serving") /\ broker[b].counter = 0 /\ ~broker[b].stopping
    /\ broker' = [broker EXCEPT ![b].empty = TRUE]
    /\ UNCHANGED <<mishaps, busLock, disk, conns, client>>

Stop(b, why) ==
    broker' = [broker EXCEPT ![b].stopping = TRUE, ![b].why = why, ![b].empty = FALSE]

\* Mutation: the deadline passes and nothing is stopped.
MWatchStop(b) ==
    /\ At(b, "serving") /\ broker[b].empty /\ ~broker[b].stopping
    /\ broker' = [broker EXCEPT ![b].empty = FALSE]
    /\ UNCHANGED <<mishaps, busLock, disk, conns, client>>

WatchStop(b) ==
    /\ At(b, "serving") /\ broker[b].empty /\ ~broker[b].stopping
    /\ Stop(b, "watchdog")
    /\ UNCHANGED <<mishaps, busLock, disk, conns, client>>

\* The stop's own connection wakes the accept loop, unless a client's comes
\* first (see `HungUp`).  `serve` waits a bounded time for its threads.
ServeEnds(b) == At(b, "serving") /\ broker[b].stopping /\ Closes(b, "ok")

Woken(b) == ServeEnds(b) /\ UNCHANGED <<mishaps, busLock, disk, conns, client>>

\* Mutation: `shutdown` gives the lock back before it unlinks.
MShutdown(b) ==
    \/ /\ At(b, "closed") /\ GoTo(b, "unpublished")
       /\ busLock' = Nobody /\ holder' = Nobody
       /\ UNCHANGED <<mishaps, descriptor, keyFile, conns, client>>
    \/ /\ At(b, "unpublished") /\ Exits(b, broker[b].code)
       /\ descriptor' = NoDescriptor /\ keyFile' = Nobody
       /\ conns' = [conns EXCEPT ![b] = {}]
       /\ UNCHANGED <<mishaps, busLock, holder, client>>

\* The rendezvous goes, the lock last.  Each unlink may fail, and so may the
\* write of the holder record; none of it keeps the broker from its end.
Shutdown(b) ==
    \/ /\ At(b, "closed")
       /\ Or(descriptor' = NoDescriptor /\ keyFile' = Nobody,
             descriptor' \in {descriptor, NoDescriptor} /\ keyFile' \in {keyFile, Nobody})
       /\ broker' = [broker EXCEPT ![b].st = "unpublished", ![b].left = descriptor' # NoDescriptor]
       /\ UNCHANGED <<busLock, holder, conns, client>>
    \/ /\ At(b, "unpublished") /\ Exits(b, broker[b].code)
       /\ busLock' = Nobody /\ Or(holder' = Nobody, UNCHANGED holder)
       /\ conns' = [conns EXCEPT ![b] = {}]
       /\ UNCHANGED <<descriptor, keyFile, client>>

\* The process is killed: nothing is cleaned up but what the kernel holds.
Killed(b) ==
    /\ Exits(b, "killed")
    /\ busLock' = IF busLock = b THEN Nobody ELSE busLock
    /\ conns' = [conns EXCEPT ![b] = {}]
    /\ UNCHANGED <<disk>>

BrokerDies(b) ==
    /\ broker[b].st \in Running /\ Killed(b)
    /\ Mishap
    /\ UNCHANGED client

-----------------------------------------------------------------------------
(* The client: `attach_participant` and what follows it.                   *)

Move(c, pc) == client' = [client EXCEPT ![c].pc = pc]

\* Another round of `_attach_with_broker`, which forgets what it read.
Again(c) == [client[c] EXCEPT !.pc = "look", !.desc = NoDescriptor, !.saw = Nobody,
                              !.key = Nobody, !.peer = Nobody]

TryAgain(c) == client' = [client EXCEPT ![c] = Again(c)]

\* Refused, or a session lost; "raised" is an exception out of the attach, for
\* which can.py quarantines the lease.
Ends(c, pc) == client' = [client EXCEPT ![c] = [Idle EXCEPT !.pc = pc]]

Attach(c) ==
    /\ client[c].pc \in {"out", "raised"}
    /\ Ends(c, "look")
    /\ UNCHANGED <<mishaps, busLock, disk, broker, conns>>

\* A broker id is used again once nothing names it.
Free(b) ==
    /\ broker[b].st \in {"none", "exited"}
    /\ b \notin {holder, keyFile, descriptor.owner}
    /\ \A c \in Clients : b \notin {client[c].own, client[c].desc.owner, client[c].saw,
                                    client[c].key, client[c].peer}

Looking(c) == client[c].pc = "look"

\* The descriptor, and the holder record the probe reads before it tries the lock.
ReadDescriptor(c) ==
    /\ Looking(c) /\ descriptor # NoDescriptor
    /\ client' = [client EXCEPT ![c].pc = "read", ![c].desc = descriptor, ![c].saw = holder]
    /\ UNCHANGED <<mishaps, busLock, disk, broker, conns>>

OwnExit(c) ==
    IF client[c].own # Nobody /\ At(client[c].own, "exited") THEN broker[client[c].own].code ELSE "none"

\* Nothing published: start a broker, unless its own one still runs.
Spawn(c) ==
    /\ Looking(c) /\ descriptor = NoDescriptor
    /\ client[c].own = Nobody \/ OwnExit(c) \in {"ok", "error", "killed"}
    /\ \E b \in Brokers :
          /\ Free(b) /\ \A a \in Brokers : Free(a) => b <= a
          /\ broker' = [broker EXCEPT ![b] = [Absent EXCEPT !.st = "spawned"]]
          /\ client' = [client EXCEPT ![c].own = b]
    /\ UNCHANGED <<mishaps, busLock, disk, conns>>

ReadExit(c) ==
    /\ Looking(c) /\ descriptor = NoDescriptor
    /\ \/ OwnExit(c) = "busy" /\ client' = [client EXCEPT ![c].own = Nobody]
       \/ OwnExit(c) \in {"adapter", "config"} /\ Ends(c, "out")
    /\ UNCHANGED <<mishaps, busLock, disk, broker, conns>>

\* `probe_bus_lock`: a lock that can be taken is a lock nobody holds.
ProbeTakes(c) ==
    /\ client[c].pc = "read" /\ busLock = Nobody
    /\ busLock' = c /\ client' = [client EXCEPT ![c] = [Again(c) EXCEPT !.pc = "probing"]]
    /\ UNCHANGED <<mishaps, disk, broker, conns>>

ProbeGives(c) ==
    /\ client[c].pc = "probing"
    /\ busLock' = Nobody /\ Move(c, "stale")
    /\ UNCHANGED <<mishaps, disk, broker, conns>>

ProbeHeld(c) ==
    /\ client[c].pc = "read" /\ busLock # Nobody
    /\ \/ client[c].saw = Nobody /\ TryAgain(c)
       \/ client[c].saw \notin {Nobody, client[c].desc.owner} /\ Ends(c, "out")
       \/ /\ client[c].saw = client[c].desc.owner
          /\ client' = [client EXCEPT ![c].pc = "key", ![c].saw = Nobody, ![c].desc.owner = Nobody]
    /\ UNCHANGED <<mishaps, busLock, disk, broker, conns>>

\* `_remove_stale_broker` reads nothing again and unlinks one after the other,
\* or fails to.
RemoveStale(c) ==
    \/ /\ client[c].pc = "stale" /\ Move(c, "unkey")
       /\ Or(descriptor' = NoDescriptor, UNCHANGED descriptor)
       /\ UNCHANGED <<busLock, holder, keyFile, broker, conns>>
    \/ /\ client[c].pc = "unkey" /\ TryAgain(c)
       /\ Or(keyFile' = Nobody, UNCHANGED keyFile)
       /\ UNCHANGED <<busLock, holder, descriptor, broker, conns>>

ReadKey(c) ==
    /\ client[c].pc = "key"
    /\ IF keyFile = Nobody THEN TryAgain(c)
       ELSE client' = [client EXCEPT ![c].pc = "dial", ![c].key = keyFile]
    /\ UNCHANGED <<mishaps, busLock, disk, broker, conns>>

Listens(b) == broker[b].st \in {"keyed", "serving"}

\* The endpoint is the bus's, so whoever listens there is the peer.
Dial(c) ==
    /\ client[c].pc = "dial"
    /\ \/ \E b \in Brokers : Listens(b) /\ client' = [client EXCEPT ![c].pc = "dialed", ![c].peer = b]
       \/ ~(\E b \in Brokers : Listens(b)) /\ TryAgain(c)
    /\ UNCHANGED <<mishaps, busLock, disk, broker, conns>>

\* Mutation: a handshake that nobody takes up is waited for.
MLineDrops(c) ==
    /\ client[c].peer # Nobody
    /\ \/ client[c].pc = "asked" /\ At(client[c].peer, "exited") /\ TryAgain(c)
       \/ client[c].pc \in {"seated", "detaching"} /\ At(client[c].peer, "exited") /\ Ends(c, "out")
    /\ UNCHANGED <<mishaps, busLock, disk, broker, conns>>

\* The broker closed, or never took, the connection: `OSError`.  The handshake
\* and the attach are tried again; a session is lost.
LineDrops(c) ==
    /\ client[c].peer # Nobody
    /\ \/ client[c].pc = "dialed" /\ ~Listens(client[c].peer) /\ TryAgain(c)
       \/ client[c].pc = "asked" /\ At(client[c].peer, "exited") /\ TryAgain(c)
       \/ client[c].pc \in {"seated", "detaching"} /\ At(client[c].peer, "exited") /\ Ends(c, "out")
    /\ UNCHANGED <<mishaps, busLock, disk, broker, conns>>

MyConns(c) == {k \in UNION {conns[b] : b \in Brokers} : k.who = c}

\* A connection that this end has closed; the broker has yet to notice.
Hangs(c) == [b \in Brokers |-> {IF k.who = c THEN [k EXCEPT !.open = FALSE] ELSE k : k \in conns[b]}]

\* No answer in `CLIENT_REQUEST_TIMEOUT_S`.
AnswerTimeout(c) ==
    /\ client[c].pc = "asked" /\ \A k \in MyConns(c) : k.open
    /\ conns' = Hangs(c) /\ TryAgain(c) /\ Mishap
    /\ UNCHANGED <<busLock, disk, broker>>

Answered(c) ==
    /\ client[c].pc = "asked" /\ \E k \in MyConns(c) : k.open /\ k.st = "seated"
    /\ client' = [client EXCEPT ![c].pc = "seated", ![c].own = Nobody]
    /\ UNCHANGED <<mishaps, busLock, disk, broker, conns>>

AskDetach(c) ==
    /\ client[c].pc = "seated" /\ Move(c, "detaching")
    /\ UNCHANGED <<mishaps, busLock, disk, broker, conns>>

\* The detach was answered, or its answer was not waited for any longer.
Detached(c) ==
    /\ client[c].pc = "detaching" /\ Ends(c, "out")
    /\ \A k \in MyConns(c) : k.open
    /\ conns' = Hangs(c)
    /\ IF MyConns(c) = {} THEN UNCHANGED mishaps ELSE Mishap
    /\ UNCHANGED <<busLock, disk, broker>>

\* The deadline: its own broker gets a last moment to say why, then the signal.
GiveUp(c) ==
    /\ client[c].pc = "look"
    /\ IF client[c].own = Nobody THEN Ends(c, "out") ELSE Move(c, "grace")
    /\ UNCHANGED <<mishaps, busLock, disk, broker, conns>>

Terminate(c) ==
    /\ client[c].pc = "grace" /\ Ends(c, "out")
    /\ IF At(client[c].own, "exited") THEN UNCHANGED <<busLock, disk, broker, conns>>
       ELSE Killed(client[c].own)
    /\ UNCHANGED mishaps

ClientDies(c) ==
    /\ client[c].pc \notin {"out", "raised"}
    /\ Mishap
    /\ \A k \in MyConns(c) : k.open
    /\ client' = [client EXCEPT ![c] = Idle]
    /\ conns' = Hangs(c)
    /\ busLock' = IF busLock = c THEN Nobody ELSE busLock
    /\ UNCHANGED <<disk, broker>>

-----------------------------------------------------------------------------
(* The broker's connections.                                               *)

\* Accepted before a stop: the connection's own thread authenticates it.
Accept(b, c) ==
    /\ At(b, "serving") /\ ~broker[b].stopping
    /\ client[c].pc = "dialed" /\ client[c].peer = b
    /\ IF client[c].key = b
       THEN /\ client' = [client EXCEPT ![c] = [Again(c) EXCEPT !.pc = "asked", !.peer = b]]
            /\ conns' = [conns EXCEPT ![b] = @ \cup
                  {[who |-> c, counter |-> client[c].desc.counter, st |-> "asked", open |-> TRUE]}]
       ELSE Ends(c, "out") /\ UNCHANGED conns
    /\ UNCHANGED <<mishaps, busLock, disk, broker>>

\* Accepted after it: closed unheard.  The client meets an `EOFError` where it
\* expects `OSError`, and the exception leaves the attach.
HungUp(b, c) ==
    /\ client[c].pc = "dialed" /\ client[c].peer = b
    /\ ServeEnds(b) /\ Ends(c, "raised")
    /\ UNCHANGED <<mishaps, busLock, disk, conns>>

Seats(b) == {k.who : k \in {j \in conns[b] : j.st = "seated"}}

\* Mutation: a broker that has decided to stop still takes an attach.
MRetryLater(b, k) == k.counter # broker[b].counter \/ k.who \in Seats(b)

RetryLater(b, k) == broker[b].stopping \/ k.counter # broker[b].counter \/ k.who \in Seats(b)

\* Mutation: a refused connection takes the seat of its name with it.
MRefuse(b, k, heard) ==
    /\ conns' = [conns EXCEPT ![b] = {j \in @ : j.who # k.who}]
    /\ client' = IF k.open THEN [client EXCEPT ![k.who] = heard] ELSE client
    /\ UNCHANGED <<mishaps, broker, descriptor>>

Refuse(b, k, heard) ==
    /\ conns' = [conns EXCEPT ![b] = @ \ {k}]
    /\ client' = IF k.open THEN [client EXCEPT ![k.who] = heard] ELSE client
    /\ UNCHANGED <<mishaps, broker, descriptor>>

\* Mutation: an attach counts twice.
MSeat(b, k) ==
    LET next == broker[b].counter + 2 IN
    /\ conns' = [conns EXCEPT ![b] = (@ \ {k}) \cup {[k EXCEPT !.st = "seated"]}]
    /\ broker' = [broker EXCEPT ![b].counter = next]
    /\ descriptor' = [owner |-> b, counter |-> next]
    /\ UNCHANGED <<mishaps, client>>

\* A descriptor that cannot be rewritten keeps the counter it had.
Seat(b, k) ==
    LET next == IF broker[b].counter = MaxCounter THEN 1 ELSE broker[b].counter + 1 IN
    /\ conns' = [conns EXCEPT ![b] = (@ \ {k}) \cup {[k EXCEPT !.st = "seated"]}]
    /\ broker' = [broker EXCEPT ![b].counter = next]
    /\ Or(descriptor' = [owner |-> b, counter |-> next], UNCHANGED descriptor)
    /\ UNCHANGED client

\* A thread serves until its process is gone, and reads what was sent before
\* the other end closed.  The release, the share and the listen-only mode of
\* client and bus may refuse an attach for good, and a gated bus does.
HandleAttach(b, k) ==
    /\ broker[b].st \in {"serving"} \cup Leaving /\ k \in conns[b] /\ k.st = "asked"
    /\ \/ RetryLater(b, k) /\ Refuse(b, k, Again(k.who))
       \/ ~RetryLater(b, k) /\ Refuse(b, k, Idle)
       \/ ~RetryLater(b, k) /\ ~broker[b].gated /\ Seat(b, k)
    /\ UNCHANGED <<busLock, holder, keyFile>>

\* The detach message, or the end of the connection.  Whoever empties the bus
\* stops it in the same critical section.
HandleDetach(b, k) ==
    /\ broker[b].st \in {"serving"} \cup Leaving
    /\ k \in conns[b] /\ k.st = "seated"
    /\ ~k.open \/ client[k.who].pc = "detaching"
    /\ conns' = [conns EXCEPT ![b] = @ \ {k}]
    /\ IF Seats(b) = {k.who} /\ ~broker[b].stopping THEN Stop(b, "last") ELSE UNCHANGED broker
    /\ UNCHANGED <<mishaps, busLock, disk, client>>

\* A participant reports, or the adapter shows, that the bus is broken.
Incident(b) ==
    /\ At(b, "serving") /\ Seats(b) # {} /\ ~broker[b].gated
    /\ broker' = [broker EXCEPT ![b].gated = TRUE] /\ Mishap
    /\ UNCHANGED <<busLock, disk, conns, client>>

-----------------------------------------------------------------------------
Lifecycle(b) ==
    \/ TakeBus(b) \/ NotStarted(b) \/ OpenBus(b) \/ Publish(b)
    \/ Watch(b) \/ WatchStop(b) \/ Woken(b) \/ Shutdown(b)

Connection(c) ==
    \E b \in Brokers :
       \/ Accept(b, c) \/ HungUp(b, c)
       \/ \E k \in conns[b] : k.who = c /\ (HandleAttach(b, k) \/ HandleDetach(b, k))

Attaching(c) ==
    \/ ReadDescriptor(c) \/ Spawn(c) \/ ReadExit(c)
    \/ ProbeTakes(c) \/ ProbeGives(c) \/ ProbeHeld(c) \/ RemoveStale(c)
    \/ ReadKey(c) \/ Dial(c) \/ LineDrops(c) \/ AnswerTimeout(c) \/ Answered(c)
    \/ GiveUp(c) \/ Terminate(c)

Next ==
    \/ \E b \in Brokers : Lifecycle(b) \/ Incident(b) \/ BrokerDies(b)
    \/ \E c \in Clients : \/ Attach(c) \/ Attaching(c) \/ AskDetach(c) \/ Detached(c)
                          \/ Connection(c) \/ ClientDies(c)

Spec == Init /\ [][Next]_vars

\* A process that runs goes on, each thread of a broker for itself; a first
\* attach and a client's wait have a deadline.  Nobody has to attach, to detach
\* or to die, and no incident has to come.
Fairness ==
    /\ \A b \in Brokers : WF_vars(Lifecycle(b))
    /\ \A c \in Clients :
          /\ WF_vars(Connection(c))
          /\ WF_vars(Attaching(c) \/ Detached(c))
          /\ SF_vars(GiveUp(c))

FairSpec == Spec /\ Fairness

-----------------------------------------------------------------------------
(* Properties.                                                             *)

\* A bus lock that is free while a descriptor is published means that its broker
\* is gone, and was killed or could not unlink it: what the client's removal of a
\* stale broker rests on (canbroker.py:1487; 776 suppresses a failed unlink).
FreeMeansDead ==
    descriptor # NoDescriptor /\ busLock \notin Brokers =>
        /\ At(descriptor.owner, "exited")
        /\ broker[descriptor.owner].code = "killed" \/ broker[descriptor.owner].left

\* Nobody is seated on a bus that its last participant has closed, whoever
\* attaches meanwhile (`_detach` and `_handle_attach`, canbroker.py:847, 962).
LastDetachAlone ==
    \A b \in Brokers : broker[b].why = "last" => Seats(b) = {}

\* A participant of a running broker keeps its seat until its own connection
\* ends: no other connection under its name, abandoned or refused, takes it.
SeatKept ==
    \A c \in Clients : client[c].pc = "seated" /\ ~At(client[c].peer, "exited") =>
        \E k \in conns[client[c].peer] : k.who = c /\ k.open /\ k.st = "seated"

\* Seats are given and taken only by those who ask.
SeatsHonest == LastDetachAlone /\ SeatKept

\* What the files of a bus say of its broker is so, and so is what a broker says
\* of its seats.
RendezvousHonest == FreeMeansDead /\ SeatsHonest

\* No process sits on a bus that nobody uses: a broker without a participant
\* gets one or leaves (`_first_attach_watchdog`, `_detach`).
BusGivenBack ==
    \A b \in Brokers : (broker[b].st \in Running /\ Seats(b) = {}) ~> (At(b, "exited") \/ Seats(b) # {})

\* Every attach is answered, whatever becomes of the brokers it meets.
AttachEnds ==
    \A c \in Clients : client[c].pc \notin {"out", "raised", "seated"} ~> client[c].pc \in {"out", "raised", "seated"}

\* A broker is not ended by the run that started it: others may be seated on
\* it (`_spawn_broker`, canbroker.py:1721).
SeatedKeepsBus ==
    [][\A b \in Brokers : At(b, "serving") /\ At(b, "exited")' /\ Seats(b) # {}
            => \A c \in Clients : ~(client[c].pc = "grace" /\ client'[c].pc = "out")]_vars

\* Removing a stale rendezvous takes nothing from a broker that serves
\* (`_remove_stale_broker`, canbroker.py:366).
RendezvousKept ==
    [][\A b \in Brokers : At(b, "serving") /\ At(b, "serving")' /\ descriptor.owner = b
            => descriptor'.owner = b]_vars

\* An attach that meets a broker about to stop is refused and may be retried
\* (canbroker.py:850); it does not end in an exception, which quarantines.
StopMetByRefusal == \A c \in Clients : client[c].pc # "raised"

\* Nobody is seated on a bus that is closing (canbroker.py:850).
SeatedIsServed == \A b \in Brokers : broker[b].stopping => Seats(b) = {}
=============================================================================
