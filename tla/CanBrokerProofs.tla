-------------------------- MODULE CanBrokerProofs --------------------------
(* What TLAPS proves of CanBroker, for any clients, brokers and bounds: what *)
(* the files of a bus say of its broker is so, and seats are given and taken *)
(* only by those who ask.  And of CanFrames: no frame is lost silently, no   *)
(* number names two, and a bus incident reaches every run.                   *)
EXTENDS CanBroker, CanFramesPromise, SequenceTheorems, WellFoundedInduction, TLAPS

-----------------------------------------------------------------------------
(* The inductive invariant.                                                 *)

\* A broker between the take of the bus and its end.
Owning == (Running \ {"spawned"})

\* A broker whose threads serve connections.
Threaded == {"serving"} \cup Leaving

\* Only the broker that owns the bus holds its lock.
LockOf(b) == broker[b].st \in Owning <=> busLock = b

\* A bus that its broker leaves takes nobody any more.
StopOf(b) ==
    /\ broker[b].st \notin Threaded => conns[b] = {}
    /\ broker[b].st \in Leaving /\ conns[b] # {} => broker[b].stopping
    /\ broker[b].why = "last" => broker[b].stopping /\ Seats(b) = {}

\* One seat per name, and one open connection.
SeatsOf(b) ==
    \A j, k \in conns[b] : j.who = k.who =>
        /\ j.st = "seated" /\ k.st = "seated" => j = k
        /\ j.open /\ k.open => j = k

\* The other end of an open connection is where its name says.
EndsOf(b) ==
    \A k \in conns[b] : k.open =>
        /\ client[k.who].peer = b
        /\ client[k.who].pc = "asked" \/ (client[k.who].pc \in {"seated", "detaching"} /\ k.st = "seated")

\* Who published the descriptor serves or is about to unlink it, could not unlink
\* it, or was killed.
Published ==
    descriptor = NoDescriptor \/
       /\ descriptor.owner \in Brokers
       /\ \/ broker[descriptor.owner].st \in {"serving", "closed"}
          \/ broker[descriptor.owner].st \in {"unpublished", "exited"} /\ broker[descriptor.owner].left
          \/ broker[descriptor.owner].st = "exited" /\ broker[descriptor.owner].code = "killed"

\* What a client stands on: its probe, its own broker, its seat.
ClientOf(c) ==
    /\ client[c].pc = "probing" => busLock = c
    /\ client[c].pc = "grace" => client[c].own \in Brokers
    /\ client[c].pc \in {"asked", "seated", "detaching"} => client[c].peer \in Brokers
    /\ client[c].pc = "seated" /\ broker[client[c].peer].st # "exited" =>
          \E k \in conns[client[c].peer] : k.who = c /\ k.open /\ k.st = "seated"

BrokerOf(b) == LockOf(b) /\ StopOf(b) /\ SeatsOf(b) /\ EndsOf(b)

IInv ==
    /\ TypeOK /\ Published
    /\ \A b \in Brokers : BrokerOf(b)
    /\ \A c \in Clients : ClientOf(c)

-----------------------------------------------------------------------------
(* Records.                                                                 *)

\* A step that changes the stage of a process, or of an attach, leaves the
\* other fields alone.
LEMMA StageOf ==
    ASSUME NEW r \in Processes, NEW st \in Running \cup {"none", "exited"}
    PROVE  /\ [r EXCEPT !.st = st] \in Processes
           /\ [r EXCEPT !.st = st].st = st
           /\ [r EXCEPT !.st = st].stopping = r.stopping
           /\ [r EXCEPT !.st = st].why = r.why
           /\ [r EXCEPT !.st = st].code = r.code
           /\ [r EXCEPT !.st = st].left = r.left
BY DEF Processes

\* A process that ended.
Ended(code, left) == [Absent EXCEPT !.st = "exited", !.code = code, !.left = left]

LEMMA ExitOf ==
    ASSUME NEW code \in Codes, NEW left \in BOOLEAN, MaxCounter \in Nat
    PROVE  /\ Ended(code, left) \in Processes /\ Ended(code, left).st = "exited"
           /\ Ended(code, left).why = "none" /\ Ended(code, left).code = code
           /\ Ended(code, left).left = left
<1>1. Absent \in Processes /\ Absent.why = "none"
  BY DEF Absent, Processes, Codes
<1>2. PICK a \in Processes : a = Absent /\ a.why = "none"
  BY <1>1
<1>3. PICK e : e = [a EXCEPT !.st = "exited", !.code = code, !.left = left]
  OBVIOUS
<1>4. e \in Processes /\ e.st = "exited" /\ e.why = "none" /\ e.code = code /\ e.left = left
  BY <1>2, <1>3 DEF Processes
<1> QED BY <1>2, <1>3, <1>4 DEF Ended

LEMMA ClosedOf ==
    ASSUME NEW b \in Brokers, broker[b] \in Processes, NEW code \in Codes, Closes(b, code)
    PROVE  \E r \in Processes :
              /\ broker' = [broker EXCEPT ![b] = r] /\ r.st = "closed"
              /\ r.stopping = broker[b].stopping /\ r.why = broker[b].why
<1>1. PICK r : r = [broker[b] EXCEPT !.st = "closed", !.code = code]
  OBVIOUS
<1>2. r \in Processes /\ r.st = "closed" /\ r.why = broker[b].why /\ r.stopping = broker[b].stopping
  BY <1>1 DEF Processes, Running, Leaving
<1>3. broker' = [broker EXCEPT ![b] = r]
  BY <1>1 DEF Closes
<1> QED BY <1>2, <1>3

LEMMA PlaceOf ==
    ASSUME NEW r \in Attaches, NEW pc \in {"out", "raised", "look", "read", "probing", "stale", "unkey",
              "key", "dial", "dialed", "asked", "seated", "detaching", "grace"}
    PROVE  /\ [r EXCEPT !.pc = pc] \in Attaches
           /\ [r EXCEPT !.pc = pc].pc = pc
           /\ [r EXCEPT !.pc = pc].own = r.own
           /\ [r EXCEPT !.pc = pc].peer = r.peer
BY DEF Attaches

LEMMA IdleIs ==
    ASSUME MaxCounter \in Nat,
           NEW pc \in {"out", "raised", "look"}
    PROVE  /\ [Idle EXCEPT !.pc = pc] \in Attaches
           /\ [Idle EXCEPT !.pc = pc].pc = pc
           /\ Idle \in Attaches /\ Idle.pc = "out"
BY DEF Idle, Attaches, NoDescriptor, Descriptors, MaybeBroker

LEMMA AgainIs ==
    ASSUME TypeOK, MaxCounter \in Nat, NEW c \in Clients
    PROVE  /\ Again(c) \in Attaches /\ Again(c).pc = "look" /\ Again(c).own = client[c].own
<1>1. PICK r \in Attaches : r = client[c]
  BY DEF TypeOK
<1>2. PICK a : a = [r EXCEPT !.pc = "look", !.desc = NoDescriptor, !.saw = Nobody,
                             !.key = Nobody, !.peer = Nobody]
  OBVIOUS
<1>3. NoDescriptor \in Descriptors /\ Nobody \in MaybeBroker
  BY DEF NoDescriptor, Descriptors, MaybeBroker
<1>4. a \in Attaches /\ a.pc = "look" /\ a.own = r.own
  BY <1>2, <1>3 DEF Attaches
<1> QED BY <1>1, <1>2, <1>4 DEF Again

-----------------------------------------------------------------------------
(* Steps that leave the connections alone.                                  *)

LEMMA Counted == MaxCounter \in Nat \ {0} /\ MaxMishaps \in Nat
BY CanBrokerAssumption

\* A step that moves one client, and nothing but it.
LEMMA ClientMoves ==
    ASSUME IInv, NEW c \in Clients, NEW n \in Attaches,
           client' = [client EXCEPT ![c] = n], mishaps' \in 0..MaxMishaps,
           UNCHANGED <<busLock, holder, descriptor, keyFile, broker, conns>>,
           n.pc = "probing" => busLock = c,
           n.pc = "grace" => n.own \in Brokers,
           n.pc \in {"asked", "seated", "detaching"} => n.peer \in Brokers,
           \A b \in Brokers : \A k \in conns[b] : k.who = c /\ k.open =>
               /\ n.peer = b
               /\ n.pc = "asked" \/ (n.pc \in {"seated", "detaching"} /\ k.st = "seated"),
           n.pc = "seated" /\ broker[n.peer].st # "exited" =>
               \E k \in conns[n.peer] : k.who = c /\ k.open /\ k.st = "seated"
    PROVE  IInv'
<1>1. TypeOK'
  BY DEF IInv, TypeOK
<1>2. Published'
  BY DEF IInv, Published
<1>3. ASSUME NEW b \in Brokers PROVE BrokerOf(b)'
  <2>1. LockOf(b)' /\ StopOf(b)' /\ SeatsOf(b)'
    BY DEF IInv, BrokerOf, LockOf, StopOf, SeatsOf, Seats
  <2>2. ASSUME NEW k \in conns[b], k.open
        PROVE  /\ client'[k.who].peer = b
               /\ client'[k.who].pc = "asked" \/ (client'[k.who].pc \in {"seated", "detaching"} /\ k.st = "seated")
    <3>1. k.who \in Clients
      BY DEF IInv, TypeOK, Connections
    <3>2. CASE k.who = c
      BY <2>2, <3>2 DEF IInv, TypeOK
    <3>3. CASE k.who # c
      BY <2>2, <3>1, <3>3 DEF IInv, TypeOK, BrokerOf, EndsOf
    <3> QED BY <3>2, <3>3
  <2>3. EndsOf(b)'
    BY <2>2 DEF EndsOf
  <2> QED BY <2>1, <2>3 DEF BrokerOf
<1>4. ASSUME NEW d \in Clients PROVE ClientOf(d)'
  <2>1. CASE d = c
    BY <2>1 DEF IInv, TypeOK, ClientOf
  <2>2. CASE d # c
    BY <2>2 DEF IInv, TypeOK, ClientOf
  <2> QED BY <2>1, <2>2
<1> QED BY <1>1, <1>2, <1>3, <1>4 DEF IInv

\* A client that is not at a connection has none open.
LEMMA NoneOpen ==
    ASSUME IInv, NEW c \in Clients,
           \/ client[c].pc \notin {"asked", "seated", "detaching"}
           \/ client[c].peer \in Brokers /\ broker[client[c].peer].st = "exited"
    PROVE  \A b \in Brokers : \A k \in conns[b] : ~(k.who = c /\ k.open)
<1>1. "exited" \notin Threaded
  BY DEF Threaded, Leaving
<1> QED BY <1>1 DEF IInv, BrokerOf, EndsOf, StopOf

\* What most such steps do: a client goes on, and has no connection.
LEMMA ClientGoesOn ==
    ASSUME IInv, NEW c \in Clients, NEW n \in Attaches,
           client' = [client EXCEPT ![c] = n], mishaps' \in 0..MaxMishaps,
           UNCHANGED <<busLock, holder, descriptor, keyFile, broker, conns>>,
           n.pc \notin {"probing", "grace", "asked", "seated", "detaching"},
           \/ client[c].pc \notin {"asked", "seated", "detaching"}
           \/ client[c].peer \in Brokers /\ broker[client[c].peer].st = "exited"
    PROVE  IInv'
<1>1. \A b \in Brokers : \A k \in conns[b] : ~(k.who = c /\ k.open)
  BY NoneOpen
<1> QED BY <1>1, ClientMoves

\* A step that moves one broker, and neither a connection nor a client.
LEMMA BrokerMoves ==
    ASSUME IInv, NEW b \in Brokers, NEW r \in Processes,
           broker' = [broker EXCEPT ![b] = r], UNCHANGED <<conns, client>>, mishaps' \in 0..MaxMishaps,
           busLock' \in {busLock, b, Nobody}, \A a \in Clients \cup (Brokers \ {b}) : busLock' = a <=> busLock = a,
           holder' \in MaybeBroker, keyFile' \in MaybeBroker, descriptor' \in Descriptors,
           r.st \in Owning <=> busLock' = b,
           r.st \notin Threaded => conns[b] = {},
           r.st \in Leaving /\ conns[b] # {} => r.stopping,
           r.why = "last" => r.stopping /\ Seats(b) = {},
           r.st # "exited" => broker[b].st # "exited" \/ \A c \in Clients : client[c].peer # b,
           Published'
    PROVE  IInv'
<1>1. TypeOK'
  BY DEF IInv, TypeOK, MaybeBroker
<1>3. ASSUME NEW d \in Brokers PROVE BrokerOf(d)'
  <2>1. LockOf(d)' /\ StopOf(d)'
    <3>1. CASE d = b
      BY <3>1 DEF IInv, TypeOK, LockOf, StopOf, Seats
    <3>2. CASE d # b
      BY <3>2 DEF IInv, TypeOK, BrokerOf, LockOf, StopOf, Seats
    <3> QED BY <3>1, <3>2
  <2>2. SeatsOf(d)' /\ EndsOf(d)'
    BY DEF IInv, BrokerOf, SeatsOf, EndsOf
  <2> QED BY <2>1, <2>2 DEF BrokerOf
<1>4. ASSUME NEW c \in Clients PROVE ClientOf(c)'
  <2>1. CASE client[c].peer = b
    BY <2>1 DEF IInv, TypeOK, ClientOf
  <2>2. CASE client[c].peer # b
    BY <2>2 DEF IInv, TypeOK, ClientOf
  <2> QED BY <2>1, <2>2
<1> QED BY <1>1, <1>3, <1>4 DEF IInv

-----------------------------------------------------------------------------
(* The client's steps that touch nothing but the client.                    *)

LEMMA AttachKeeps == ASSUME IInv, NEW c \in Clients, Attach(c) PROVE IInv'
<1>1. [Idle EXCEPT !.pc = "look"] \in Attaches /\ [Idle EXCEPT !.pc = "look"].pc = "look"
  BY IdleIs, Counted
<1> QED BY <1>1, ClientGoesOn DEF Attach, Ends, disk, IInv, TypeOK

LEMMA ReadDescriptorKeeps == ASSUME IInv, NEW c \in Clients, ReadDescriptor(c) PROVE IInv'
<1>1. PICK n : n = [client[c] EXCEPT !.pc = "read", !.desc = descriptor, !.saw = holder]
  OBVIOUS
<1>2. client[c] \in Attaches /\ descriptor \in Descriptors /\ holder \in MaybeBroker
  BY DEF IInv, TypeOK
<1>3. n \in Attaches /\ n.pc = "read"
  BY <1>1, <1>2 DEF Attaches
<1>4. client' = [client EXCEPT ![c] = n]
  BY <1>1 DEF ReadDescriptor
<1> QED BY <1>3, <1>4, ClientGoesOn DEF ReadDescriptor, Looking, disk, IInv, TypeOK

LEMMA ReadExitKeeps == ASSUME IInv, NEW c \in Clients, ReadExit(c) PROVE IInv'
<1>1. PICK n : n = [client[c] EXCEPT !.own = Nobody]
  OBVIOUS
<1>2. client[c] \in Attaches /\ Nobody \in MaybeBroker
  BY DEF IInv, TypeOK, MaybeBroker
<1>3. n \in Attaches /\ n.pc = client[c].pc
  BY <1>1, <1>2 DEF Attaches
<1>4. [Idle EXCEPT !.pc = "out"] \in Attaches /\ [Idle EXCEPT !.pc = "out"].pc = "out"
  BY IdleIs, Counted
<1>5. CASE client' = [client EXCEPT ![c].own = Nobody]
  <2>1. client' = [client EXCEPT ![c] = n]
    BY <1>1, <1>5
  <2> QED BY <1>3, <2>1, ClientGoesOn DEF ReadExit, Looking, disk, IInv, TypeOK
<1>6. CASE Ends(c, "out")
  BY <1>4, <1>6, ClientGoesOn DEF ReadExit, Looking, Ends, disk, IInv, TypeOK
<1> QED BY <1>5, <1>6 DEF ReadExit

LEMMA ProbeHeldKeeps == ASSUME IInv, NEW c \in Clients, ProbeHeld(c) PROVE IInv'
<1>1. PICK n : n = [client[c] EXCEPT !.pc = "key", !.saw = Nobody, !.desc.owner = Nobody]
  OBVIOUS
<1>2. client[c] \in Attaches /\ Nobody \in MaybeBroker
  BY DEF IInv, TypeOK, MaybeBroker
<1>3. PICK d : d = [client[c].desc EXCEPT !.owner = Nobody]
  OBVIOUS
<1>4. d \in Descriptors
  BY <1>2, <1>3 DEF Attaches, Descriptors
<1>5. n = [client[c] EXCEPT !.pc = "key", !.saw = Nobody, !.desc = d]
  BY <1>1, <1>3
<1>6. n \in Attaches /\ n.pc = "key"
  BY <1>2, <1>4, <1>5 DEF Attaches
<1>7. [Idle EXCEPT !.pc = "out"] \in Attaches /\ [Idle EXCEPT !.pc = "out"].pc = "out"
  BY IdleIs, Counted
<1>8. Again(c) \in Attaches /\ Again(c).pc = "look"
  BY AgainIs, Counted DEF IInv
<1>9. CASE TryAgain(c)
  BY <1>8, <1>9, ClientGoesOn DEF ProbeHeld, TryAgain, disk, IInv, TypeOK
<1>10. CASE Ends(c, "out")
  BY <1>7, <1>10, ClientGoesOn DEF ProbeHeld, Ends, disk, IInv, TypeOK
<1>11. CASE client' = [client EXCEPT ![c].pc = "key", ![c].saw = Nobody, ![c].desc.owner = Nobody]
  <2>1. client' = [client EXCEPT ![c] = n]
    BY <1>1, <1>11
  <2> QED BY <1>6, <2>1, ClientGoesOn DEF ProbeHeld, disk, IInv, TypeOK
<1> QED BY <1>9, <1>10, <1>11 DEF ProbeHeld

LEMMA ReadKeyKeeps == ASSUME IInv, NEW c \in Clients, ReadKey(c) PROVE IInv'
<1>1. PICK n : n = [client[c] EXCEPT !.pc = "dial", !.key = keyFile]
  OBVIOUS
<1>2. client[c] \in Attaches /\ keyFile \in MaybeBroker
  BY DEF IInv, TypeOK
<1>3. n \in Attaches /\ n.pc = "dial"
  BY <1>1, <1>2 DEF Attaches
<1>4. Again(c) \in Attaches /\ Again(c).pc = "look"
  BY AgainIs, Counted DEF IInv
<1>5. CASE TryAgain(c)
  BY <1>4, <1>5, ClientGoesOn DEF ReadKey, TryAgain, disk, IInv, TypeOK
<1>6. CASE client' = [client EXCEPT ![c].pc = "dial", ![c].key = keyFile]
  <2>1. client' = [client EXCEPT ![c] = n]
    BY <1>1, <1>6
  <2> QED BY <1>3, <2>1, ClientGoesOn DEF ReadKey, disk, IInv, TypeOK
<1> QED BY <1>5, <1>6 DEF ReadKey

LEMMA DialKeeps == ASSUME IInv, NEW c \in Clients, Dial(c) PROVE IInv'
<1>1. Again(c) \in Attaches /\ Again(c).pc = "look"
  BY AgainIs, Counted DEF IInv
<1>2. CASE TryAgain(c)
  BY <1>1, <1>2, ClientGoesOn DEF Dial, TryAgain, disk, IInv, TypeOK
<1>3. ASSUME NEW b \in Brokers, client' = [client EXCEPT ![c].pc = "dialed", ![c].peer = b] PROVE IInv'
  <2>1. PICK n : n = [client[c] EXCEPT !.pc = "dialed", !.peer = b]
    OBVIOUS
  <2>2. client[c] \in Attaches /\ b \in MaybeBroker
    BY DEF IInv, TypeOK, MaybeBroker
  <2>3. n \in Attaches /\ n.pc = "dialed"
    BY <2>1, <2>2 DEF Attaches
  <2>4. client' = [client EXCEPT ![c] = n]
    BY <1>3, <2>1
  <2> QED BY <2>3, <2>4, ClientGoesOn DEF Dial, disk, IInv, TypeOK
<1> QED BY <1>2, <1>3 DEF Dial

LEMMA LineDropsKeeps == ASSUME IInv, NEW c \in Clients, LineDrops(c) PROVE IInv'
<1>1. Again(c) \in Attaches /\ Again(c).pc = "look"
  BY AgainIs, Counted DEF IInv
<1>2. [Idle EXCEPT !.pc = "out"] \in Attaches /\ [Idle EXCEPT !.pc = "out"].pc = "out"
  BY IdleIs, Counted
<1>3. client[c].peer \in Brokers
  BY DEF LineDrops, IInv, TypeOK, Attaches, MaybeBroker
<1>4. \/ client[c].pc \notin {"asked", "seated", "detaching"}
      \/ broker[client[c].peer].st = "exited"
  BY DEF LineDrops, At
<1>5. CASE TryAgain(c)
  BY <1>1, <1>3, <1>4, <1>5, ClientGoesOn DEF LineDrops, TryAgain, disk, IInv, TypeOK
<1>6. CASE Ends(c, "out")
  BY <1>2, <1>3, <1>4, <1>6, ClientGoesOn DEF LineDrops, Ends, disk, IInv, TypeOK
<1> QED BY <1>5, <1>6 DEF LineDrops

LEMMA AnsweredKeeps == ASSUME IInv, NEW c \in Clients, Answered(c) PROVE IInv'
<1>1. PICK n : n = [client[c] EXCEPT !.pc = "seated", !.own = Nobody]
  OBVIOUS
<1>2. client[c] \in Attaches /\ Nobody \in MaybeBroker
  BY DEF IInv, TypeOK, MaybeBroker
<1>3. n \in Attaches /\ n.pc = "seated" /\ n.peer = client[c].peer
  BY <1>1, <1>2 DEF Attaches
<1>4. client' = [client EXCEPT ![c] = n] /\ client[c].pc = "asked"
  BY <1>1 DEF Answered
<1>5. PICK b \in Brokers : \E k \in conns[b] : k.who = c /\ k.open /\ k.st = "seated"
  BY DEF Answered, MyConns
<1>6. PICK k \in conns[b] : k.who = c /\ k.open /\ k.st = "seated"
  BY <1>5
<1>7. client[c].peer = b
  BY <1>6 DEF IInv, BrokerOf, EndsOf
<1>8. \A d \in Brokers : \A j \in conns[d] : j.who = c /\ j.open => d = b /\ j = k
  BY <1>6, <1>7 DEF IInv, BrokerOf, EndsOf, SeatsOf
<1>9. mishaps' \in 0..MaxMishaps /\ UNCHANGED <<busLock, holder, descriptor, keyFile, broker, conns>>
  BY DEF Answered, disk, IInv, TypeOK
<1>10. \A d \in Brokers : \A j \in conns[d] : j.who = c /\ j.open =>
          n.peer = d /\ (n.pc = "asked" \/ (n.pc \in {"seated", "detaching"} /\ j.st = "seated"))
  BY <1>3, <1>6, <1>7, <1>8
<1>11. n.pc = "seated" /\ broker[n.peer].st # "exited" =>
          \E j \in conns[n.peer] : j.who = c /\ j.open /\ j.st = "seated"
  BY <1>3, <1>6, <1>7
<1>12. n.pc \in {"asked", "seated", "detaching"} => n.peer \in Brokers
  BY <1>3, <1>7
<1> QED
  BY <1>3, <1>4, <1>9, <1>10, <1>11, <1>12, ClientMoves

LEMMA AskDetachKeeps == ASSUME IInv, NEW c \in Clients, AskDetach(c) PROVE IInv'
<1>1. PICK n : n = [client[c] EXCEPT !.pc = "detaching"]
  OBVIOUS
<1>2. n \in Attaches /\ n.pc = "detaching" /\ n.peer = client[c].peer
  BY <1>1 DEF IInv, TypeOK, Attaches
<1>3. client' = [client EXCEPT ![c] = n] /\ client[c].pc = "seated"
  BY <1>1 DEF AskDetach, Move
<1>4. n.peer \in Brokers
  BY <1>2, <1>3 DEF IInv, ClientOf
<1>5. \A b \in Brokers : \A k \in conns[b] : k.who = c /\ k.open => n.peer = b /\ k.st = "seated"
  BY <1>2, <1>3 DEF IInv, BrokerOf, EndsOf
<1>6. mishaps' \in 0..MaxMishaps /\ UNCHANGED <<busLock, holder, descriptor, keyFile, broker, conns>>
  BY DEF AskDetach, disk, IInv, TypeOK
<1>7. \A b \in Brokers : \A k \in conns[b] : k.who = c /\ k.open =>
          n.peer = b /\ (n.pc = "asked" \/ (n.pc \in {"seated", "detaching"} /\ k.st = "seated"))
  BY <1>2, <1>5
<1> QED BY <1>2, <1>3, <1>4, <1>6, <1>7, ClientMoves

LEMMA GiveUpKeeps == ASSUME IInv, NEW c \in Clients, GiveUp(c) PROVE IInv'
<1>1. CASE Ends(c, "out")
  <2>1. [Idle EXCEPT !.pc = "out"] \in Attaches /\ [Idle EXCEPT !.pc = "out"].pc = "out"
    BY IdleIs, Counted
  <2> QED BY <1>1, <2>1, ClientGoesOn DEF GiveUp, Ends, disk, IInv, TypeOK
<1>2. CASE client[c].own # Nobody /\ Move(c, "grace")
  <2>1. PICK n : n = [client[c] EXCEPT !.pc = "grace"]
    OBVIOUS
  <2>2. n \in Attaches /\ n.pc = "grace" /\ n.own = client[c].own
    BY <2>1 DEF IInv, TypeOK, Attaches
  <2>3. n.own \in Brokers
    BY <1>2, <2>2 DEF IInv, TypeOK, Attaches, MaybeBroker
  <2>4. \A b \in Brokers : \A k \in conns[b] : ~(k.who = c /\ k.open)
    BY NoneOpen DEF GiveUp
  <2>5. client' = [client EXCEPT ![c] = n]
    BY <1>2, <2>1 DEF Move
  <2> QED BY <2>2, <2>3, <2>4, <2>5, ClientMoves DEF GiveUp, disk, IInv, TypeOK
<1> QED BY <1>1, <1>2 DEF GiveUp

-----------------------------------------------------------------------------
(* The client's probe and its removal of a stale rendezvous.                *)

LEMMA MishapCounts == ASSUME IInv, UNCHANGED mishaps \/ Mishap PROVE mishaps' \in 0..MaxMishaps
BY Counted DEF IInv, TypeOK, Mishap

LEMMA ClientAndFiles ==
    ASSUME IInv, NEW c \in Clients, NEW n \in Attaches,
           client' = [client EXCEPT ![c] = n], UNCHANGED <<broker, conns>>, mishaps' \in 0..MaxMishaps,
           busLock' \in {busLock, c, Nobody}, holder' \in MaybeBroker, keyFile' \in MaybeBroker,
           descriptor' \in {descriptor, NoDescriptor},
           \A a \in (Clients \ {c}) \cup Brokers : busLock' = a <=> busLock = a,
           n.pc \notin {"grace", "asked", "seated", "detaching"}, n.pc = "probing" => busLock' = c,
           client[c].pc \notin {"asked", "seated", "detaching"}
    PROVE  IInv'
<1>1. \A b \in Brokers : \A k \in conns[b] : ~(k.who = c /\ k.open)
  BY NoneOpen
<1>2. TypeOK'
  <2>1. NoDescriptor \in Descriptors
    BY Counted DEF NoDescriptor, Descriptors, MaybeBroker
  <2> QED BY <2>1 DEF IInv, TypeOK, MaybeBroker
<1>3. Published'
  BY DEF IInv, Published
<1>4. ASSUME NEW b \in Brokers PROVE BrokerOf(b)'
  <2>1. LockOf(b)' /\ StopOf(b)' /\ SeatsOf(b)'
    BY DEF IInv, BrokerOf, LockOf, StopOf, SeatsOf, Seats
  <2>2. EndsOf(b)'
    BY <1>1 DEF IInv, BrokerOf, EndsOf, TypeOK, Connections
  <2> QED BY <2>1, <2>2 DEF BrokerOf
<1>5. ASSUME NEW d \in Clients PROVE ClientOf(d)'
  <2>1. CASE d = c
    BY <2>1 DEF IInv, TypeOK, ClientOf
  <2>2. CASE d # c
    BY <2>2 DEF IInv, TypeOK, ClientOf
  <2> QED BY <2>1, <2>2
<1> QED BY <1>2, <1>3, <1>4, <1>5 DEF IInv

LEMMA ProbeTakesKeeps == ASSUME IInv, NEW c \in Clients, ProbeTakes(c) PROVE IInv'
<1>1. Again(c) \in Attaches
  BY AgainIs, Counted DEF IInv
<1>2. [Again(c) EXCEPT !.pc = "probing"] \in Attaches /\ [Again(c) EXCEPT !.pc = "probing"].pc = "probing"
  BY <1>1, PlaceOf
<1>3. \A a \in (Clients \ {c}) \cup Brokers : busLock' = a <=> busLock = a
  BY CanBrokerAssumption DEF ProbeTakes
<1>4. UNCHANGED <<broker, conns, mishaps, holder, keyFile, descriptor>> /\ busLock' = c
  BY DEF ProbeTakes, disk
<1>5. client' = [client EXCEPT ![c] = [Again(c) EXCEPT !.pc = "probing"]] /\ client[c].pc = "read"
  BY DEF ProbeTakes
<1>6. holder \in MaybeBroker /\ keyFile \in MaybeBroker /\ mishaps' \in 0..MaxMishaps
  BY <1>4, MishapCounts DEF IInv, TypeOK
<1> QED BY <1>2, <1>3, <1>4, <1>5, <1>6, ClientAndFiles

LEMMA ProbeGivesKeeps == ASSUME IInv, NEW c \in Clients, ProbeGives(c) PROVE IInv'
<1>0. client[c] \in Attaches
  BY DEF IInv, TypeOK
<1>1. [client[c] EXCEPT !.pc = "stale"] \in Attaches /\ [client[c] EXCEPT !.pc = "stale"].pc = "stale"
  BY <1>0, PlaceOf
<1>2. busLock = c
  BY DEF ProbeGives, IInv, ClientOf
<1>3. \A a \in (Clients \ {c}) \cup Brokers : busLock' = a <=> busLock = a
  BY <1>2, CanBrokerAssumption DEF ProbeGives
<1>4. UNCHANGED <<broker, conns, mishaps, holder, keyFile, descriptor>> /\ busLock' = Nobody
  BY DEF ProbeGives, disk
<1>5. client' = [client EXCEPT ![c] = [client[c] EXCEPT !.pc = "stale"]] /\ client[c].pc = "probing"
  BY DEF ProbeGives, Move
<1>6. holder \in MaybeBroker /\ keyFile \in MaybeBroker /\ mishaps' \in 0..MaxMishaps
  BY <1>4, MishapCounts DEF IInv, TypeOK
<1> QED BY <1>1, <1>3, <1>4, <1>5, <1>6, ClientAndFiles

LEMMA RemoveStaleKeeps == ASSUME IInv, NEW c \in Clients, RemoveStale(c) PROVE IInv'
<1>1. holder \in MaybeBroker /\ keyFile \in MaybeBroker /\ Nobody \in MaybeBroker
  BY DEF IInv, TypeOK, MaybeBroker
<1>2. CASE client[c].pc = "stale" /\ Move(c, "unkey")
  <2>0. client[c] \in Attaches
    BY DEF IInv, TypeOK
  <2>1. [client[c] EXCEPT !.pc = "unkey"] \in Attaches /\ [client[c] EXCEPT !.pc = "unkey"].pc = "unkey"
    BY <2>0, PlaceOf
  <2>2. client' = [client EXCEPT ![c] = [client[c] EXCEPT !.pc = "unkey"]]
    BY <1>2 DEF Move
  <2>3. /\ UNCHANGED <<broker, conns, busLock, holder, keyFile>> /\ descriptor' \in {descriptor, NoDescriptor}
        /\ mishaps' \in 0..MaxMishaps
    BY <1>2, MishapCounts DEF RemoveStale, Or, FileFails
  <2> QED BY <1>1, <1>2, <2>1, <2>2, <2>3, ClientAndFiles
<1>3. CASE client[c].pc = "unkey"
  <2>1. Again(c) \in Attaches /\ Again(c).pc = "look"
    BY AgainIs, Counted DEF IInv
  <2>2. client' = [client EXCEPT ![c] = Again(c)]
    BY <1>3 DEF RemoveStale, TryAgain
  <2>3. /\ UNCHANGED <<broker, conns, busLock, holder, descriptor>> /\ keyFile' \in MaybeBroker
        /\ mishaps' \in 0..MaxMishaps
    BY <1>1, <1>3, MishapCounts DEF RemoveStale, Or, FileFails
  <2> QED BY <1>1, <1>3, <2>1, <2>2, <2>3, ClientAndFiles
<1> QED BY <1>2, <1>3 DEF RemoveStale

-----------------------------------------------------------------------------
(* The broker's steps that touch no connection.                             *)

\* A step of one process that leaves the lock and the files alone.
LEMMA BrokerGoesOn ==
    ASSUME IInv, NEW b \in Brokers, NEW r \in Processes,
           broker' = [broker EXCEPT ![b] = r], mishaps' \in 0..MaxMishaps,
           UNCHANGED <<conns, client, busLock, holder, keyFile, descriptor>>,
           r.st \in Owning <=> broker[b].st \in Owning,
           r.st \notin Threaded => conns[b] = {},
           r.st \in Leaving /\ conns[b] # {} => r.stopping,
           r.why = "last" => r.stopping /\ Seats(b) = {},
           r.st # "exited" => broker[b].st # "exited",
           broker[b].st \in {"serving", "closed"} => r.st \in {"serving", "closed"},
           broker[b].st \notin {"unpublished", "exited"}
    PROVE  IInv'
<1>1. Published'
  BY DEF IInv, TypeOK, Published
<1>2. r.st \in Owning <=> busLock = b
  BY DEF IInv, BrokerOf, LockOf
<1>3. holder \in MaybeBroker /\ keyFile \in MaybeBroker /\ descriptor \in Descriptors
  BY DEF IInv, TypeOK
<1> QED BY <1>1, <1>2, <1>3, BrokerMoves

LEMMA TakeBusKeeps == ASSUME IInv, NEW b \in Brokers, TakeBus(b) PROVE IInv'
<1>1. PICK r : r = [broker[b] EXCEPT !.st = "locked"]
  OBVIOUS
<1>2. broker[b] \in Processes /\ broker[b].st = "spawned"
  BY DEF IInv, TypeOK, TakeBus, At
<1>3. r \in Processes /\ r.st = "locked" /\ r.why = broker[b].why /\ r.stopping = broker[b].stopping
  BY <1>1, <1>2, StageOf DEF Running, Starting
<1>4. /\ broker' = [broker EXCEPT ![b] = r] /\ busLock = Nobody /\ busLock' = b /\ holder' \in {b, holder}
      /\ UNCHANGED <<descriptor, keyFile, conns, client>> /\ (UNCHANGED mishaps \/ Mishap)
  BY <1>1 DEF TakeBus, GoTo, Or, FileFails
<1>5. \A a \in Clients \cup (Brokers \ {b}) : busLock' = a <=> busLock = a
  BY <1>4, CanBrokerAssumption
<1>6. conns[b] = {} /\ (broker[b].why = "last" => broker[b].stopping /\ Seats(b) = {})
  BY <1>2 DEF IInv, BrokerOf, StopOf, Threaded, Leaving
<1>7. Published'
  BY <1>2, <1>4 DEF IInv, TypeOK, Published
<1>8. r.st \in Owning /\ r.st \notin Threaded /\ r.st \notin Leaving
  BY <1>3 DEF Owning, Running, Starting, Leaving, Threaded
<1>9. holder' \in MaybeBroker /\ keyFile' \in MaybeBroker /\ descriptor' \in Descriptors /\ mishaps' \in 0..MaxMishaps
  BY <1>4, MishapCounts DEF IInv, TypeOK, MaybeBroker
<1> QED BY <1>2, <1>3, <1>4, <1>5, <1>6, <1>7, <1>8, <1>9, BrokerMoves

LEMMA NotStartedKeeps == ASSUME IInv, NEW b \in Brokers, NotStarted(b) PROVE IInv'
<1>1. PICK code \in Codes : Exits(b, code)
  BY DEF NotStarted, Codes
<1>2. broker[b].left \in BOOLEAN /\ broker[b].st = "spawned"
  BY DEF IInv, TypeOK, Processes, NotStarted, At
<1>3. PICK r : r = Ended(code, broker[b].left)
  OBVIOUS
<1>4. r \in Processes /\ r.st = "exited" /\ r.why = "none"
  BY <1>2, <1>3, ExitOf, Counted
<1>5. UNCHANGED <<busLock, holder, descriptor, keyFile, conns, client>> /\ broker' = [broker EXCEPT ![b] = r]
  BY <1>1, <1>3 DEF NotStarted, Exits, Ended, disk
<1>6. conns[b] = {}
  BY <1>2 DEF IInv, BrokerOf, StopOf, Threaded, Leaving
<1>7. mishaps' \in 0..MaxMishaps
  BY MishapCounts DEF NotStarted, FileFails
<1>8. r.st \notin Owning /\ broker[b].st \notin Owning
  BY <1>2, <1>4 DEF Owning, Running, Starting, Leaving
<1> QED BY <1>2, <1>4, <1>5, <1>6, <1>7, <1>8, BrokerGoesOn

LEMMA OpenBusKeeps == ASSUME IInv, NEW b \in Brokers, OpenBus(b) PROVE IInv'
<1>1. broker[b] \in Processes /\ broker[b].st = "locked"
  BY DEF OpenBus, At, IInv, TypeOK
<1>2. conns[b] = {} /\ (broker[b].why = "last" => broker[b].stopping /\ Seats(b) = {})
  BY <1>1 DEF IInv, BrokerOf, StopOf, Threaded, Leaving
<1>3. mishaps' \in 0..MaxMishaps
  BY MishapCounts DEF OpenBus, FileFails
<1>4. UNCHANGED <<conns, client, busLock, holder, keyFile, descriptor>>
  BY DEF OpenBus, disk
<1>5. CASE GoTo(b, "opened")
  <2>1. PICK r : r = [broker[b] EXCEPT !.st = "opened"]
    OBVIOUS
  <2>2. r \in Processes /\ r.st = "opened" /\ r.why = broker[b].why /\ r.stopping = broker[b].stopping
    BY <1>1, <2>1, StageOf DEF Running, Starting
  <2>3. broker' = [broker EXCEPT ![b] = r]
    BY <1>5, <2>1 DEF GoTo
  <2>4. r.st \in Owning /\ broker[b].st \in Owning
    BY <1>1, <2>2 DEF Owning, Running, Starting, Leaving
  <2> QED BY <1>1, <1>2, <1>3, <1>4, <2>2, <2>3, <2>4, BrokerGoesOn
<1>6. ASSUME NEW code \in Codes, Closes(b, code) PROVE IInv'
  <2>1. PICK r \in Processes :
           /\ broker' = [broker EXCEPT ![b] = r] /\ r.st = "closed"
           /\ r.stopping = broker[b].stopping /\ r.why = broker[b].why
    BY <1>1, <1>6, ClosedOf
  <2>2. r.st \in Owning /\ broker[b].st \in Owning
    BY <1>1, <2>1 DEF Owning, Running, Starting, Leaving
  <2> QED BY <1>1, <1>2, <1>3, <1>4, <2>1, <2>2, BrokerGoesOn
<1> QED BY <1>5, <1>6 DEF OpenBus, Codes

LEMMA PublishKeeps == ASSUME IInv, NEW b \in Brokers, Publish(b) PROVE IInv'
<1>1. broker[b] \in Processes /\ busLock = b
      /\ UNCHANGED <<busLock, conns, client, holder>> /\ broker[b].st \in {"opened", "keyed"}
  BY DEF Publish, At, IInv, TypeOK, BrokerOf, LockOf, Owning, Running, Starting, Leaving
<1>2. conns[b] = {} /\ (broker[b].why = "last" => broker[b].stopping /\ Seats(b) = {})
  BY <1>1 DEF IInv, BrokerOf, StopOf, Threaded, Leaving
<1>3. mishaps' \in 0..MaxMishaps /\ holder' \in MaybeBroker /\ keyFile' \in MaybeBroker
  <2>1. UNCHANGED mishaps \/ Mishap
    BY DEF Publish, Or, FileFails
  <2>2. holder' = holder /\ keyFile' \in {keyFile, b, Nobody}
    BY DEF Publish, Or
  <2> QED BY <2>1, <2>2, MishapCounts DEF IInv, TypeOK, MaybeBroker
<1>4. \/ GoTo(b, "keyed") /\ UNCHANGED descriptor
      \/ Closes(b, "error") /\ UNCHANGED descriptor
      \/ GoTo(b, "serving") /\ descriptor' = [owner |-> b, counter |-> 0]
      \/ Closes(b, "error") /\ descriptor' = [owner |-> b, counter |-> 0]
  BY DEF Publish, Or
<1>5. PICK r \in Processes :
         /\ broker' = [broker EXCEPT ![b] = r] /\ r.why = broker[b].why /\ r.stopping = broker[b].stopping
         /\ \/ r.st \in {"keyed", "closed"} /\ UNCHANGED descriptor
            \/ r.st \in {"serving", "closed"} /\ descriptor' = [owner |-> b, counter |-> 0]
  <2>1. ASSUME NEW st \in {"keyed", "serving"}, GoTo(b, st)
        PROVE  \E r \in Processes : /\ broker' = [broker EXCEPT ![b] = r] /\ r.why = broker[b].why
                                    /\ r.stopping = broker[b].stopping /\ r.st = st
    <3>1. PICK r : r = [broker[b] EXCEPT !.st = st]
      OBVIOUS
    <3>2. r \in Processes /\ r.st = st /\ r.why = broker[b].why /\ r.stopping = broker[b].stopping
      BY <1>1, <3>1, StageOf DEF Running, Starting
    <3> QED BY <2>1, <3>1, <3>2 DEF GoTo
  <2>2. ASSUME Closes(b, "error")
        PROVE  \E r \in Processes : /\ broker' = [broker EXCEPT ![b] = r] /\ r.why = broker[b].why
                                    /\ r.stopping = broker[b].stopping /\ r.st = "closed"
    <3>1. "error" \in Codes
      BY DEF Codes
    <3> QED BY <1>1, <2>2, <3>1, ClosedOf
  <2> QED BY <1>4, <2>1, <2>2
<1>6. descriptor' \in Descriptors /\ Published'
  <2>1. CASE UNCHANGED descriptor
    BY <1>1, <1>5, <2>1 DEF IInv, TypeOK, Published
  <2>2. CASE r.st \in {"serving", "closed"} /\ descriptor' = [owner |-> b, counter |-> 0]
    <3>1. [owner |-> b, counter |-> 0] \in Descriptors
      BY Counted DEF Descriptors, MaybeBroker
    <3> QED BY <1>5, <2>2, <3>1 DEF IInv, TypeOK, Published
  <2> QED BY <1>5, <2>1, <2>2
<1>7. r.st \in Owning /\ (r.st \in Leaving => conns[b] = {}) /\ r.st # "exited"
  BY <1>2, <1>5 DEF Owning, Running, Starting, Leaving
<1> QED BY <1>1, <1>2, <1>3, <1>5, <1>6, <1>7, BrokerMoves

LEMMA WatchKeeps == ASSUME IInv, NEW b \in Brokers, Watch(b) PROVE IInv'
<1>1. PICK r : r = [broker[b] EXCEPT !.empty = TRUE]
  OBVIOUS
<1>2. broker[b] \in Processes /\ broker[b].st = "serving"
  BY DEF Watch, At, IInv, TypeOK
<1>3. r \in Processes /\ r.st = "serving" /\ r.why = broker[b].why /\ r.stopping = broker[b].stopping
  BY <1>1, <1>2 DEF Processes
<1>4. broker' = [broker EXCEPT ![b] = r] /\ UNCHANGED <<conns, client, busLock, holder, keyFile, descriptor>>
      /\ mishaps' \in 0..MaxMishaps
  BY <1>1 DEF Watch, disk, IInv, TypeOK
<1>5. broker[b].why = "last" => broker[b].stopping /\ Seats(b) = {}
  BY DEF IInv, BrokerOf, StopOf
<1>6. r.st \in Threaded /\ r.st \notin Leaving
  BY <1>3 DEF Threaded, Leaving
<1> QED BY <1>2, <1>3, <1>4, <1>5, <1>6, BrokerGoesOn

LEMMA WatchStopKeeps == ASSUME IInv, NEW b \in Brokers, WatchStop(b) PROVE IInv'
<1>1. PICK r : r = [broker[b] EXCEPT !.stopping = TRUE, !.why = "watchdog", !.empty = FALSE]
  OBVIOUS
<1>2. broker[b] \in Processes /\ broker[b].st = "serving"
  BY DEF WatchStop, At, IInv, TypeOK
<1>3. r \in Processes /\ r.st = "serving" /\ r.why = "watchdog"
  BY <1>1, <1>2 DEF Processes
<1>4. broker' = [broker EXCEPT ![b] = r] /\ UNCHANGED <<conns, client, busLock, holder, keyFile, descriptor>>
      /\ mishaps' \in 0..MaxMishaps
  BY <1>1 DEF WatchStop, Stop, disk, IInv, TypeOK
<1>5. r.st \in Threaded /\ r.st \notin Leaving
  BY <1>3 DEF Threaded, Leaving
<1> QED BY <1>2, <1>3, <1>4, <1>5, BrokerGoesOn

LEMMA IncidentKeeps == ASSUME IInv, NEW b \in Brokers, Incident(b) PROVE IInv'
<1>1. PICK r : r = [broker[b] EXCEPT !.gated = TRUE]
  OBVIOUS
<1>2. broker[b] \in Processes /\ broker[b].st = "serving"
  BY DEF Incident, At, IInv, TypeOK
<1>3. r \in Processes /\ r.st = "serving" /\ r.why = broker[b].why /\ r.stopping = broker[b].stopping
  BY <1>1, <1>2 DEF Processes
<1>4. broker' = [broker EXCEPT ![b] = r] /\ UNCHANGED <<conns, client, busLock, holder, keyFile, descriptor>>
  BY <1>1 DEF Incident, disk
<1>5. mishaps' \in 0..MaxMishaps
  BY MishapCounts DEF Incident
<1>6. broker[b].why = "last" => broker[b].stopping /\ Seats(b) = {}
  BY DEF IInv, BrokerOf, StopOf
<1>7. r.st \in Threaded /\ r.st \notin Leaving
  BY <1>3 DEF Threaded, Leaving
<1> QED BY <1>2, <1>3, <1>4, <1>5, <1>6, <1>7, BrokerGoesOn

\* What a broker is after its accept loop.
LEMMA ServeEndsIs ==
    ASSUME IInv, NEW b \in Brokers, ServeEnds(b)
    PROVE  \E r \in Processes :
              /\ broker' = [broker EXCEPT ![b] = r] /\ broker[b].st = "serving"
              /\ r.st = "closed" /\ r.stopping /\ r.why = broker[b].why
<1>1. broker[b] \in Processes /\ broker[b].st = "serving" /\ broker[b].stopping /\ Closes(b, "ok")
  BY DEF ServeEnds, At, IInv, TypeOK
<1>2. "ok" \in Codes
  BY DEF Codes
<1> QED BY <1>1, <1>2, ClosedOf

LEMMA WokenKeeps == ASSUME IInv, NEW b \in Brokers, Woken(b) PROVE IInv'
<1>1. PICK r \in Processes :
         /\ broker' = [broker EXCEPT ![b] = r] /\ broker[b].st = "serving"
         /\ r.st = "closed" /\ r.stopping /\ r.why = broker[b].why
  BY ServeEndsIs DEF Woken
<1>2. UNCHANGED <<conns, client, busLock, holder, keyFile, descriptor>> /\ mishaps' \in 0..MaxMishaps
  BY DEF Woken, disk, IInv, TypeOK
<1>3. broker[b].why = "last" => Seats(b) = {}
  BY DEF IInv, BrokerOf, StopOf
<1>4. r.st \in Threaded /\ (r.st \in Owning <=> broker[b].st \in Owning)
  BY <1>1 DEF Threaded, Leaving, Owning, Running, Starting
<1> QED BY <1>1, <1>2, <1>3, <1>4, BrokerGoesOn

LEMMA HungUpKeeps == ASSUME IInv, NEW b \in Brokers, NEW c \in Clients, HungUp(b, c) PROVE IInv'
<1>1. PICK r \in Processes :
         /\ broker' = [broker EXCEPT ![b] = r] /\ broker[b].st = "serving"
         /\ r.st = "closed" /\ r.stopping /\ r.why = broker[b].why
  BY ServeEndsIs DEF HungUp
<1>2. PICK n \in Attaches : client' = [client EXCEPT ![c] = n] /\ n.pc = "raised"
  BY IdleIs, Counted DEF HungUp, Ends
<1>3. UNCHANGED <<conns, busLock, holder, keyFile, descriptor, mishaps>>
  BY DEF HungUp, disk
<1>4. \A d \in Brokers : \A k \in conns[d] : ~(k.who = c /\ k.open)
  BY NoneOpen DEF HungUp
<1>5. TypeOK'
  BY <1>1, <1>2, <1>3 DEF IInv, TypeOK
<1>6. Published'
  BY <1>1, <1>3 DEF IInv, TypeOK, Published
<1>7. ASSUME NEW d \in Brokers PROVE BrokerOf(d)'
  <2>1. LockOf(d)'
    BY <1>1, <1>3 DEF IInv, TypeOK, BrokerOf, LockOf, Owning, Running, Starting, Leaving
  <2>2. StopOf(d)'
    BY <1>1, <1>3 DEF IInv, TypeOK, BrokerOf, StopOf, Seats, Threaded, Leaving
  <2>3. SeatsOf(d)'
    BY <1>3 DEF IInv, BrokerOf, SeatsOf
  <2>4. EndsOf(d)'
    BY <1>2, <1>3, <1>4 DEF IInv, BrokerOf, EndsOf, TypeOK, Connections
  <2> QED BY <2>1, <2>2, <2>3, <2>4 DEF BrokerOf
<1>8. ASSUME NEW d \in Clients PROVE ClientOf(d)'
  <2>1. CASE d = c
    BY <1>2, <2>1 DEF IInv, TypeOK, ClientOf
  <2>2. CASE d # c
    <3>1. client'[d] = client[d] /\ ClientOf(d)
      BY <1>2, <2>2 DEF IInv, TypeOK
    <3>2. \A e \in Brokers : broker'[e].st # "exited" => broker[e].st # "exited"
      BY <1>1 DEF IInv, TypeOK
    <3> QED BY <1>3, <3>1, <3>2 DEF ClientOf
  <2> QED BY <2>1, <2>2
<1> QED BY <1>5, <1>6, <1>7, <1>8 DEF IInv

LEMMA SpawnKeeps == ASSUME IInv, NEW c \in Clients, Spawn(c) PROVE IInv'
<1>1. PICK b \in Brokers :
         /\ Free(b) /\ broker' = [broker EXCEPT ![b] = [Absent EXCEPT !.st = "spawned"]]
         /\ client' = [client EXCEPT ![c].own = b]
  BY DEF Spawn
<1>2. UNCHANGED <<mishaps, busLock, holder, keyFile, descriptor, conns>> /\ client[c].pc = "look"
      /\ descriptor = NoDescriptor
  BY DEF Spawn, Looking, disk
<1>3. PICK r : r = [Absent EXCEPT !.st = "spawned"]
  OBVIOUS
<1>4. r \in Processes /\ r.st = "spawned" /\ r.why = "none" /\ r.stopping = FALSE
  <2>1. Absent \in Processes /\ Absent.stopping = FALSE /\ Absent.why = "none"
    BY Counted DEF Absent, Processes, Codes
  <2> QED BY <1>3, <2>1, StageOf DEF Running, Starting
<1>5. PICK n : n = [client[c] EXCEPT !.own = b]
  OBVIOUS
<1>6. n \in Attaches /\ n.pc = "look"
  <2>1. client[c] \in Attaches /\ b \in MaybeBroker
    BY DEF IInv, TypeOK, MaybeBroker
  <2> QED BY <1>2, <1>5, <2>1 DEF Attaches
<1>7. broker' = [broker EXCEPT ![b] = r] /\ client' = [client EXCEPT ![c] = n]
  BY <1>1, <1>3, <1>5
<1>8. conns[b] = {} /\ busLock # b /\ \A d \in Clients : client[d].peer # b
  BY <1>1 DEF Free, IInv, BrokerOf, StopOf, LockOf, Threaded, Owning, Running, Starting, Leaving
<1>9. TypeOK'
  BY <1>2, <1>4, <1>6, <1>7 DEF IInv, TypeOK
<1>10. Published'
  BY <1>2 DEF Published
<1>11. ASSUME NEW d \in Brokers PROVE BrokerOf(d)'
  <2>1. LockOf(d)' /\ StopOf(d)'
    <3>1. CASE d = b
      BY <1>2, <1>4, <1>7, <1>8, <3>1 DEF IInv, TypeOK, LockOf, StopOf, Owning, Running, Starting, Leaving
    <3>2. CASE d # b
      BY <1>2, <1>7, <3>2 DEF IInv, TypeOK, BrokerOf, LockOf, StopOf, Seats
    <3> QED BY <3>1, <3>2
  <2>2. SeatsOf(d)'
    BY <1>2 DEF IInv, BrokerOf, SeatsOf
  <2>3. \A e \in Brokers : \A k \in conns[e] : ~(k.who = c /\ k.open)
    BY <1>2, NoneOpen
  <2>4. EndsOf(d)'
    BY <1>2, <1>7, <2>3 DEF IInv, BrokerOf, EndsOf, TypeOK, Connections
  <2> QED BY <2>1, <2>2, <2>4 DEF BrokerOf
<1>12. ASSUME NEW d \in Clients PROVE ClientOf(d)'
  <2>1. CASE d = c
    BY <1>6, <1>7, <2>1 DEF IInv, TypeOK, ClientOf
  <2>2. CASE d # c
    <3>1. client'[d] = client[d] /\ ClientOf(d) /\ client[d].peer # b
      BY <1>7, <1>8, <2>2 DEF IInv, TypeOK
    <3>2. \A e \in Brokers \ {b} : broker'[e] = broker[e]
      BY <1>7 DEF IInv, TypeOK
    <3> QED BY <1>2, <3>1, <3>2 DEF ClientOf
  <2> QED BY <2>1, <2>2
<1> QED BY <1>9, <1>10, <1>11, <1>12 DEF IInv

-----------------------------------------------------------------------------
(* A broker's end takes its connections with it.                            *)

LEMMA BrokerEnds ==
    ASSUME IInv, NEW b \in Brokers, NEW r \in Processes,
           broker' = [broker EXCEPT ![b] = r], r.st = "exited", r.why = "none",
           conns' = [conns EXCEPT ![b] = {}], mishaps' \in 0..MaxMishaps,
           holder' \in MaybeBroker, UNCHANGED <<descriptor, keyFile>>,
           busLock' = IF busLock = b THEN Nobody ELSE busLock,
           descriptor # NoDescriptor /\ descriptor.owner = b => r.code = "killed" \/ r.left,
           \/ UNCHANGED client
           \/ \E c \in Clients, n \in Attaches :
                 /\ client' = [client EXCEPT ![c] = n] /\ n.pc = "out"
                 /\ client[c].pc \notin {"asked", "seated", "detaching"}
    PROVE  IInv'
<1>1. TypeOK'
  BY DEF IInv, TypeOK, MaybeBroker
<1>2. Published'
  BY DEF IInv, TypeOK, Published
<1>3. \A d \in Clients :
         \/ client'[d] = client[d]
         \/ client'[d].pc = "out" /\ client[d].pc \notin {"asked", "seated", "detaching"}
  BY DEF IInv, TypeOK
<1>4. \A a \in Clients \cup (Brokers \ {b}) : busLock' = a <=> busLock = a
  BY CanBrokerAssumption
<1>5. busLock' # b
  BY CanBrokerAssumption
<1>6. ASSUME NEW d \in Brokers PROVE BrokerOf(d)'
  <2>1. CASE d = b
    <3>1. conns'[d] = {} /\ broker'[d] = r
      BY <2>1 DEF IInv, TypeOK
    <3> QED
      BY <1>5, <2>1, <3>1
      DEF BrokerOf, LockOf, StopOf, SeatsOf, EndsOf, Owning, Running, Starting, Leaving
  <2>2. CASE d # b
    <3>1. conns'[d] = conns[d] /\ broker'[d] = broker[d] /\ BrokerOf(d)
      BY <2>2 DEF IInv, TypeOK
    <3>2. LockOf(d)' /\ StopOf(d)' /\ SeatsOf(d)'
      BY <1>4, <2>2, <3>1 DEF BrokerOf, LockOf, StopOf, SeatsOf, Seats
    <3>3. conns[d] \subseteq Connections
      BY DEF IInv, TypeOK
    <3>4. EndsOf(d)'
      BY <1>3, <3>1, <3>3 DEF BrokerOf, EndsOf, Connections
    <3> QED BY <3>2, <3>4 DEF BrokerOf
  <2> QED BY <2>1, <2>2
<1>7. ASSUME NEW d \in Clients PROVE ClientOf(d)'
  <2>1. CASE client'[d].pc = "out"
    BY <2>1 DEF ClientOf
  <2>2. CASE client'[d] = client[d]
    <3>1. ClientOf(d) /\ (busLock = d => busLock' = d)
      BY <1>4 DEF IInv
    <3>2. broker'[b].st = "exited" /\ \A e \in Brokers \ {b} : broker'[e] = broker[e] /\ conns'[e] = conns[e]
      BY DEF IInv, TypeOK
    <3> QED BY <2>2, <3>1, <3>2 DEF ClientOf
  <2> QED BY <1>3, <2>1, <2>2
<1> QED BY <1>1, <1>2, <1>6, <1>7 DEF IInv

LEMMA ShutdownKeeps == ASSUME IInv, NEW b \in Brokers, Shutdown(b) PROVE IInv'
<1>1. broker[b] \in Processes /\ broker[b].st \in {"closed", "unpublished"} /\ busLock = b
  BY DEF Shutdown, At, IInv, TypeOK, BrokerOf, LockOf, Owning, Running, Starting, Leaving
<1>2. CASE broker[b].st = "closed"
  <2>1. PICK left \in BOOLEAN : left = (descriptor' # NoDescriptor)
    OBVIOUS
  <2>2. PICK r : r = [broker[b] EXCEPT !.st = "unpublished", !.left = left]
    OBVIOUS
  <2>3. /\ r \in Processes /\ r.st = "unpublished" /\ r.left = left
        /\ r.why = broker[b].why /\ r.stopping = broker[b].stopping
    BY <1>1, <2>2 DEF Processes, Running, Leaving
  <2>4. /\ broker' = [broker EXCEPT ![b] = r] /\ UNCHANGED <<busLock, holder, conns, client>>
        /\ descriptor' \in {descriptor, NoDescriptor} /\ keyFile' \in {keyFile, Nobody}
        /\ UNCHANGED mishaps \/ Mishap
    BY <1>2, <2>1, <2>2 DEF Shutdown, At, Or, FileFails
  <2>5. holder' \in MaybeBroker /\ keyFile' \in MaybeBroker /\ descriptor' \in Descriptors /\ mishaps' \in 0..MaxMishaps
    BY <2>4, Counted, MishapCounts DEF IInv, TypeOK, MaybeBroker, Descriptors, NoDescriptor
  <2>6. Published'
    BY <2>1, <2>3, <2>4 DEF IInv, TypeOK, Published
  <2>7. (broker[b].why = "last" => broker[b].stopping /\ Seats(b) = {}) /\ (conns[b] # {} => broker[b].stopping)
    BY <1>2 DEF IInv, BrokerOf, StopOf, Leaving
  <2>8. r.st \in Owning /\ r.st \in Threaded /\ r.st # "exited" /\ broker[b].st # "exited"
    BY <1>2, <2>3 DEF Owning, Threaded, Running, Leaving
  <2> QED BY <1>1, <2>3, <2>4, <2>5, <2>6, <2>7, <2>8, BrokerMoves
<1>3. CASE broker[b].st = "unpublished"
  <2>1. broker[b].code \in Codes /\ broker[b].left \in BOOLEAN
    BY <1>1 DEF Processes
  <2>2. PICK r : r = Ended(broker[b].code, broker[b].left)
    OBVIOUS
  <2>3. r \in Processes /\ r.st = "exited" /\ r.why = "none" /\ r.left = broker[b].left
    BY <2>1, <2>2, ExitOf, Counted
  <2>4. /\ broker' = [broker EXCEPT ![b] = r] /\ UNCHANGED <<descriptor, keyFile, client>>
        /\ busLock' = Nobody /\ holder' \in {holder, Nobody} /\ conns' = [conns EXCEPT ![b] = {}]
        /\ UNCHANGED mishaps \/ Mishap
    BY <1>3, <2>2 DEF Shutdown, Exits, Ended, At, Or, FileFails
  <2>5. descriptor # NoDescriptor /\ descriptor.owner = b => r.left
    BY <1>3, <2>3 DEF IInv, Published
  <2>6. holder' \in MaybeBroker /\ mishaps' \in 0..MaxMishaps
    BY <2>4, MishapCounts DEF IInv, TypeOK, MaybeBroker
  <2> QED BY <1>1, <2>3, <2>4, <2>5, <2>6, BrokerEnds
<1> QED BY <1>1, <1>2, <1>3

\* What a kill leaves.
LEMMA KilledIs ==
    ASSUME IInv, NEW b \in Brokers, Killed(b)
    PROVE  /\ \E r \in Processes : /\ broker' = [broker EXCEPT ![b] = r]
                                   /\ r.st = "exited" /\ r.why = "none" /\ r.code = "killed"
           /\ conns' = [conns EXCEPT ![b] = {}] /\ UNCHANGED <<holder, descriptor, keyFile>>
           /\ busLock' = IF busLock = b THEN Nobody ELSE busLock
           /\ holder' \in MaybeBroker
<1>0. broker[b].left \in BOOLEAN /\ "killed" \in Codes
  BY DEF IInv, TypeOK, Processes, Codes
<1>1. PICK r : r = Ended("killed", broker[b].left)
  OBVIOUS
<1>2. r \in Processes /\ r.st = "exited" /\ r.why = "none" /\ r.code = "killed"
  BY <1>0, <1>1, ExitOf, Counted
<1>3. broker' = [broker EXCEPT ![b] = r]
  BY <1>1 DEF Killed, Exits, Ended
<1> QED BY <1>2, <1>3 DEF Killed, disk, IInv, TypeOK

LEMMA BrokerDiesKeeps == ASSUME IInv, NEW b \in Brokers, BrokerDies(b) PROVE IInv'
<1>1. Killed(b) /\ UNCHANGED client /\ mishaps' \in 0..MaxMishaps
  BY MishapCounts DEF BrokerDies
<1> QED BY <1>1, KilledIs, BrokerEnds

LEMMA TerminateKeeps == ASSUME IInv, NEW c \in Clients, Terminate(c) PROVE IInv'
<1>1. PICK n \in Attaches : client' = [client EXCEPT ![c] = n] /\ n.pc = "out"
  BY IdleIs, Counted DEF Terminate, Ends
<1>2. client[c].pc = "grace" /\ client[c].own \in Brokers /\ mishaps' \in 0..MaxMishaps
  BY DEF Terminate, IInv, TypeOK, ClientOf
<1>3. CASE At(client[c].own, "exited")
  <2>1. UNCHANGED <<busLock, holder, descriptor, keyFile, broker, conns>>
    BY <1>3 DEF Terminate, disk
  <2> QED BY <1>1, <1>2, <2>1, ClientGoesOn
<1>4. CASE Killed(client[c].own)
  BY <1>1, <1>2, <1>4, KilledIs, BrokerEnds
<1> QED BY <1>3, <1>4 DEF Terminate

-----------------------------------------------------------------------------
(* A client that closes its end.                                            *)

\* Every connection of the client is closed at its end, and nothing else
\* happens to one.
LEMMA HangsIs ==
    ASSUME IInv, NEW c \in Clients, conns' = Hangs(c)
    PROVE  /\ conns' \in [Brokers -> SUBSET Connections]
           /\ \A b \in Brokers :
                /\ \A k \in conns'[b] : \E j \in conns[b] :
                      /\ k.who = j.who /\ k.st = j.st
                      /\ IF j.who = c THEN k.open = FALSE /\ k = [j EXCEPT !.open = FALSE] ELSE k = j
                /\ \A k \in conns[b] : k.who # c => k \in conns'[b]
                /\ conns[b] = {} => conns'[b] = {}
<1>1. \A j \in Connections :
         /\ [j EXCEPT !.open = FALSE] \in Connections
         /\ [j EXCEPT !.open = FALSE].who = j.who /\ [j EXCEPT !.open = FALSE].st = j.st
         /\ [j EXCEPT !.open = FALSE].open = FALSE
  BY DEF Connections
<1>2. \A b \in Brokers : conns[b] \subseteq Connections
  BY DEF IInv, TypeOK
<1>3. ASSUME NEW b \in Brokers
      PROVE  conns'[b] = {IF k.who = c THEN [k EXCEPT !.open = FALSE] ELSE k : k \in conns[b]}
  BY DEF Hangs
<1>4. ASSUME NEW b \in Brokers
      PROVE  /\ \A k \in conns'[b] : \E j \in conns[b] :
                    /\ k.who = j.who /\ k.st = j.st
                    /\ IF j.who = c THEN k.open = FALSE /\ k = [j EXCEPT !.open = FALSE] ELSE k = j
             /\ \A k \in conns[b] : k.who # c => k \in conns'[b]
             /\ conns[b] = {} => conns'[b] = {}
  <2>1. ASSUME NEW k \in conns'[b]
        PROVE  \E j \in conns[b] :
                  /\ k.who = j.who /\ k.st = j.st
                  /\ IF j.who = c THEN k.open = FALSE /\ k = [j EXCEPT !.open = FALSE] ELSE k = j
    <3>1. PICK j \in conns[b] : k = IF j.who = c THEN [j EXCEPT !.open = FALSE] ELSE j
      BY <1>3, <2>1
    <3>2. j \in Connections
      BY <1>2
    <3>3. CASE j.who = c
      BY <1>1, <3>1, <3>2, <3>3
    <3>4. CASE j.who # c
      BY <3>1, <3>4
    <3> QED BY <3>3, <3>4
  <2>2. \A k \in conns[b] : k.who # c => k \in conns'[b]
    BY <1>3
  <2>3. conns[b] = {} => conns'[b] = {}
    BY <1>3
  <2> QED BY <2>1, <2>2, <2>3
<1>5. ASSUME NEW b \in Brokers PROVE conns'[b] \subseteq Connections
  BY <1>1, <1>2, <1>3
<1>6. conns' \in [Brokers -> SUBSET Connections]
  BY <1>5 DEF Hangs
<1> QED BY <1>4, <1>6

LEMMA HangUp ==
    ASSUME IInv, NEW c \in Clients, NEW n \in Attaches,
           client' = [client EXCEPT ![c] = n], n.pc \in {"out", "look"}, conns' = Hangs(c),
           UNCHANGED <<broker, holder, descriptor, keyFile>>, mishaps' \in 0..MaxMishaps,
           busLock' \in {busLock, Nobody}, \A a \in (Clients \ {c}) \cup Brokers : busLock' = a <=> busLock = a
    PROVE  IInv'
<1>1. conns' \in [Brokers -> SUBSET Connections]
  BY HangsIs
<1>2. \A b \in Brokers :
        /\ \A k \in conns'[b] : \E j \in conns[b] :
              /\ k.who = j.who /\ k.st = j.st
              /\ IF j.who = c THEN k.open = FALSE /\ k = [j EXCEPT !.open = FALSE] ELSE k = j
        /\ \A k \in conns[b] : k.who # c => k \in conns'[b]
        /\ conns[b] = {} => conns'[b] = {}
  BY HangsIs
<1>3. TypeOK'
  BY <1>1 DEF IInv, TypeOK, MaybeBroker
<1>4. Published'
  BY DEF IInv, Published
<1>5. ASSUME NEW b \in Brokers PROVE BrokerOf(b)'
  <2>1. LockOf(b)'
    BY DEF IInv, BrokerOf, LockOf
  <2>2. StopOf(b)'
    <3>1. Seats(b) = {} => Seats(b)' = {}
      BY <1>2 DEF Seats
    <3> QED BY <1>2, <3>1 DEF IInv, BrokerOf, StopOf
  <2>3. ASSUME NEW j \in conns'[b], NEW k \in conns'[b], j.who = k.who
        PROVE  /\ j.st = "seated" /\ k.st = "seated" => j = k
               /\ j.open /\ k.open => j = k
    <3>1. PICK p \in conns[b] : j.who = p.who /\ j.st = p.st
             /\ IF p.who = c THEN j.open = FALSE /\ j = [p EXCEPT !.open = FALSE] ELSE j = p
      BY <1>2
    <3>2. PICK q \in conns[b] : k.who = q.who /\ k.st = q.st
             /\ IF q.who = c THEN k.open = FALSE /\ k = [q EXCEPT !.open = FALSE] ELSE k = q
      BY <1>2
    <3>3. /\ p.st = "seated" /\ q.st = "seated" => p = q
          /\ p.open /\ q.open => p = q
      BY <2>3, <3>1, <3>2 DEF IInv, BrokerOf, SeatsOf
    <3> QED BY <2>3, <3>1, <3>2, <3>3
  <2>4. SeatsOf(b)'
    BY <2>3 DEF SeatsOf
  <2>5. ASSUME NEW k \in conns'[b], k.open
        PROVE  /\ client'[k.who].peer = b
               /\ client'[k.who].pc = "asked" \/ (client'[k.who].pc \in {"seated", "detaching"} /\ k.st = "seated")
    <3>1. k \in conns[b] /\ k.who # c
      BY <1>2, <2>5
    <3>2. k.who \in Clients
      BY <3>1 DEF IInv, TypeOK, Connections
    <3> QED BY <2>5, <3>1, <3>2 DEF IInv, TypeOK, BrokerOf, EndsOf
  <2>6. EndsOf(b)'
    BY <2>5 DEF EndsOf
  <2> QED BY <2>1, <2>2, <2>4, <2>6 DEF BrokerOf
<1>6. ASSUME NEW d \in Clients PROVE ClientOf(d)'
  <2>1. CASE d = c
    BY <2>1 DEF IInv, TypeOK, ClientOf
  <2>2. CASE d # c
    <3>1. client'[d] = client[d] /\ ClientOf(d)
      BY <2>2 DEF IInv, TypeOK
    <3> QED BY <1>2, <2>2, <3>1 DEF ClientOf
  <2> QED BY <2>1, <2>2
<1> QED BY <1>3, <1>4, <1>5, <1>6 DEF IInv

LEMMA AnswerTimeoutKeeps == ASSUME IInv, NEW c \in Clients, AnswerTimeout(c) PROVE IInv'
<1>1. Again(c) \in Attaches /\ Again(c).pc = "look"
  BY AgainIs, Counted DEF IInv
<1>2. mishaps' \in 0..MaxMishaps
  BY MishapCounts DEF AnswerTimeout
<1> QED BY <1>1, <1>2, HangUp DEF AnswerTimeout, TryAgain, disk

LEMMA DetachedKeeps == ASSUME IInv, NEW c \in Clients, Detached(c) PROVE IInv'
<1>1. [Idle EXCEPT !.pc = "out"] \in Attaches /\ [Idle EXCEPT !.pc = "out"].pc = "out"
  BY IdleIs, Counted
<1>2. mishaps' \in 0..MaxMishaps
  BY MishapCounts DEF Detached
<1> QED BY <1>1, <1>2, HangUp DEF Detached, Ends, disk

LEMMA ClientDiesKeeps == ASSUME IInv, NEW c \in Clients, ClientDies(c) PROVE IInv'
<1>1. Idle \in Attaches /\ Idle.pc = "out"
  BY IdleIs, Counted
<1>2. mishaps' \in 0..MaxMishaps
  BY MishapCounts DEF ClientDies
<1>3. \A a \in (Clients \ {c}) \cup Brokers : busLock' = a <=> busLock = a
  BY CanBrokerAssumption DEF ClientDies
<1> QED BY <1>1, <1>2, <1>3, HangUp DEF ClientDies, disk

-----------------------------------------------------------------------------
(* The broker's connections.                                                *)

LEMMA AcceptKeeps == ASSUME IInv, NEW b \in Brokers, NEW c \in Clients, Accept(b, c) PROVE IInv'
<1>1. client[c] \in Attaches /\ client[c].pc = "dialed" /\ client[c].peer = b
      /\ broker[b].st = "serving" /\ UNCHANGED <<mishaps, busLock, holder, descriptor, keyFile, broker>>
  BY DEF Accept, At, disk, IInv, TypeOK
<1>2. CASE client[c].key # b
  <2>1. [Idle EXCEPT !.pc = "out"] \in Attaches /\ [Idle EXCEPT !.pc = "out"].pc = "out"
    BY IdleIs, Counted
  <2>2. client' = [client EXCEPT ![c] = [Idle EXCEPT !.pc = "out"]] /\ UNCHANGED conns
    BY <1>2 DEF Accept, Ends
  <2>3. mishaps' \in 0..MaxMishaps
    BY <1>1 DEF IInv, TypeOK
  <2> QED BY <1>1, <2>1, <2>2, <2>3, ClientGoesOn
<1>3. CASE client[c].key = b
  <2>1. PICK n : n = [Again(c) EXCEPT !.pc = "asked", !.peer = b]
    OBVIOUS
  <2>2. n \in Attaches /\ n.pc = "asked" /\ n.peer = b
    <3>1. Again(c) \in Attaches /\ b \in MaybeBroker
      BY AgainIs, Counted DEF IInv, MaybeBroker
    <3> QED BY <2>1, <3>1 DEF Attaches
  <2>3. PICK k : k = [who |-> c, counter |-> client[c].desc.counter, st |-> "asked", open |-> TRUE]
    OBVIOUS
  <2>4. k \in Connections /\ k.who = c /\ k.st = "asked" /\ k.open
    BY <1>1, <2>3 DEF Connections, Attaches, Descriptors
  <2>5. client' = [client EXCEPT ![c] = n] /\ conns' = [conns EXCEPT ![b] = conns[b] \cup {k}]
    BY <1>3, <2>1, <2>3 DEF Accept
  <2>6. \A d \in Brokers : \A j \in conns[d] : ~(j.who = c /\ j.open)
    BY <1>1, NoneOpen
  <2>7. TypeOK'
    BY <1>1, <2>2, <2>4, <2>5 DEF IInv, TypeOK
  <2>8. Published'
    BY <1>1 DEF IInv, Published
  <2>9. ASSUME NEW d \in Brokers PROVE BrokerOf(d)'
    <3>1. LockOf(d)'
      BY <1>1 DEF IInv, BrokerOf, LockOf
    <3>2. BrokerOf(d) /\ conns[d] \subseteq Connections
      BY DEF IInv, TypeOK
    <3>3. conns'[d] = IF d = b THEN conns[d] \cup {k} ELSE conns[d]
      BY <2>5 DEF IInv, TypeOK
    <3>4. Seats(d)' = Seats(d)
      BY <2>4, <3>3 DEF Seats
    <3>5. StopOf(d)'
      BY <1>1, <3>2, <3>3, <3>4 DEF BrokerOf, StopOf, Threaded, Leaving
    <3>6. SeatsOf(d)'
      BY <2>4, <2>6, <3>2, <3>3 DEF BrokerOf, SeatsOf
    <3>7. ASSUME NEW j \in conns'[d], j.open
          PROVE  /\ client'[j.who].peer = d
                 /\ client'[j.who].pc = "asked" \/ (client'[j.who].pc \in {"seated", "detaching"} /\ j.st = "seated")
      <4>1. CASE j = k /\ d = b
        BY <2>2, <2>4, <2>5, <4>1 DEF IInv, TypeOK
      <4>2. CASE j \in conns[d]
        <5>1. j.who # c /\ j.who \in Clients
          BY <2>6, <3>2, <3>7, <4>2 DEF Connections
        <5> QED BY <2>5, <3>2, <3>7, <4>2, <5>1 DEF IInv, TypeOK, BrokerOf, EndsOf
      <4> QED BY <3>3, <3>7, <4>1, <4>2
    <3>8. EndsOf(d)'
      BY <3>7 DEF EndsOf
    <3> QED BY <3>1, <3>5, <3>6, <3>8 DEF BrokerOf
  <2>10. ASSUME NEW d \in Clients PROVE ClientOf(d)'
    <3>1. CASE d = c
      BY <2>2, <2>5, <3>1 DEF IInv, TypeOK, ClientOf
    <3>2. CASE d # c
      <4>1. client'[d] = client[d] /\ ClientOf(d)
        BY <2>5, <3>2 DEF IInv, TypeOK
      <4>2. \A e \in Brokers : conns[e] \subseteq conns'[e]
        BY <2>5 DEF IInv, TypeOK
      <4> QED BY <1>1, <4>1, <4>2 DEF ClientOf
    <3> QED BY <3>1, <3>2
  <2> QED BY <2>7, <2>8, <2>9, <2>10 DEF IInv
<1> QED BY <1>2, <1>3

LEMMA RefuseKeeps ==
    ASSUME IInv, NEW b \in Brokers, NEW k \in conns[b], NEW heard \in Attaches, heard.pc \in {"look", "out"},
           k.st = "asked", Refuse(b, k, heard), UNCHANGED <<busLock, holder, keyFile>>
    PROVE  IInv'
<1>1. k \in Connections /\ k.who \in Clients
  BY DEF IInv, TypeOK, Connections
<1>2. conns' = [conns EXCEPT ![b] = conns[b] \ {k}] /\ UNCHANGED <<mishaps, broker, descriptor>>
      /\ client' = IF k.open THEN [client EXCEPT ![k.who] = heard] ELSE client
  BY DEF Refuse
<1>3. TypeOK'
  BY <1>1, <1>2 DEF IInv, TypeOK
<1>4. Published'
  BY <1>2 DEF IInv, Published
<1>5. \A d \in Brokers : conns'[d] = IF d = b THEN conns[d] \ {k} ELSE conns[d]
  BY <1>2 DEF IInv, TypeOK
<1>6. k.open => client[k.who].pc = "asked" /\ client[k.who].peer = b
  BY DEF IInv, BrokerOf, EndsOf
<1>7. ASSUME NEW d \in Brokers PROVE BrokerOf(d)'
  <2>1. BrokerOf(d) /\ conns[d] \subseteq Connections /\ conns'[d] \subseteq conns[d]
    BY <1>5 DEF IInv, TypeOK
  <2>2. LockOf(d)'
    BY <1>2, <2>1 DEF BrokerOf, LockOf
  <2>3. Seats(d)' \subseteq Seats(d)
    BY <2>1 DEF Seats
  <2>4. StopOf(d)' /\ SeatsOf(d)'
    BY <1>2, <2>1, <2>3 DEF BrokerOf, StopOf, SeatsOf
  <2>5. ASSUME NEW j \in conns'[d], j.open
        PROVE  /\ client'[j.who].peer = d
               /\ client'[j.who].pc = "asked" \/ (client'[j.who].pc \in {"seated", "detaching"} /\ j.st = "seated")
    <3>1. j \in conns[d] /\ j.who \in Clients /\ EndsOf(d)
      BY <2>1 DEF Connections, BrokerOf
    <3>2. CASE k.open /\ j.who = k.who
      <4>1. d = b
        BY <1>6, <2>5, <3>1, <3>2 DEF EndsOf
      <4>2. j = k
        BY <2>1, <2>5, <3>1, <3>2, <4>1 DEF BrokerOf, SeatsOf
      <4> QED BY <1>5, <4>1, <4>2
    <3>3. CASE ~(k.open /\ j.who = k.who)
      <4>1. client'[j.who] = client[j.who]
        BY <1>2, <3>1, <3>3 DEF IInv, TypeOK
      <4> QED BY <2>5, <3>1, <4>1 DEF EndsOf
    <3> QED BY <3>2, <3>3
  <2>6. EndsOf(d)'
    BY <2>5 DEF EndsOf
  <2> QED BY <2>2, <2>4, <2>6 DEF BrokerOf
<1>8. ASSUME NEW d \in Clients PROVE ClientOf(d)'
  <2>1. CASE k.open /\ d = k.who
    <3>1. client'[d] = heard
      BY <1>1, <1>2, <2>1 DEF IInv, TypeOK
    <3> QED BY <3>1 DEF ClientOf
  <2>2. CASE ~(k.open /\ d = k.who)
    <3>1. client'[d] = client[d] /\ ClientOf(d)
      BY <1>2, <2>2 DEF IInv, TypeOK
    <3>2. \A e \in Brokers : \A j \in conns[e] : j.st = "seated" => j \in conns'[e]
      BY <1>5
    <3> QED BY <1>2, <3>1, <3>2 DEF ClientOf
  <2> QED BY <2>1, <2>2
<1> QED BY <1>3, <1>4, <1>7, <1>8 DEF IInv

LEMMA SeatKeeps ==
    ASSUME IInv, NEW b \in Brokers, NEW k \in conns[b], k.st = "asked",
           broker[b].st \in Threaded, ~RetryLater(b, k),
           Seat(b, k), UNCHANGED <<busLock, holder, keyFile>>
    PROVE  IInv'
<1>1. k \in Connections /\ k.who \in Clients /\ broker[b] \in Processes
  BY DEF IInv, TypeOK, Connections
<1>2. ~broker[b].stopping /\ k.who \notin Seats(b)
  BY DEF RetryLater
<1>3. broker[b].st = "serving"
  BY <1>2 DEF IInv, BrokerOf, StopOf, Threaded
<1>4. PICK next \in 0..MaxCounter :
         /\ broker' = [broker EXCEPT ![b].counter = next]
         /\ descriptor' \in {descriptor, [owner |-> b, counter |-> next]}
         /\ conns' = [conns EXCEPT ![b] = (conns[b] \ {k}) \cup {[k EXCEPT !.st = "seated"]}]
         /\ UNCHANGED client /\ (UNCHANGED mishaps \/ Mishap)
  <2>1. (IF broker[b].counter = MaxCounter THEN 1 ELSE broker[b].counter + 1) \in 0..MaxCounter
    BY <1>1, Counted DEF Processes
  <2> QED BY <2>1 DEF Seat, Or, FileFails
<1>5. PICK r : r = [broker[b] EXCEPT !.counter = next]
  OBVIOUS
<1>6. r \in Processes /\ r.st = "serving" /\ r.why = broker[b].why /\ r.stopping = broker[b].stopping
      /\ r.code = broker[b].code /\ r.left = broker[b].left
  BY <1>1, <1>3, <1>5 DEF Processes
<1>7. broker' = [broker EXCEPT ![b] = r]
  BY <1>4, <1>5
<1>8. PICK s : s = [k EXCEPT !.st = "seated"]
  OBVIOUS
<1>9. s \in Connections /\ s.who = k.who /\ s.st = "seated" /\ s.open = k.open
  BY <1>1, <1>8 DEF Connections
<1>10. conns' = [conns EXCEPT ![b] = (conns[b] \ {k}) \cup {s}]
  BY <1>4, <1>8
<1>11. [owner |-> b, counter |-> next] \in Descriptors
  BY DEF Descriptors, MaybeBroker
<1>12. TypeOK'
  <2>1. mishaps' \in 0..MaxMishaps
    BY <1>4, MishapCounts
  <2> QED BY <1>4, <1>6, <1>7, <1>9, <1>10, <1>11, <2>1 DEF IInv, TypeOK
<1>13. Published'
  <2>1. CASE UNCHANGED descriptor
    BY <1>3, <1>6, <1>7, <2>1 DEF IInv, TypeOK, Published
  <2>2. CASE descriptor' = [owner |-> b, counter |-> next]
    BY <1>6, <1>7, <2>2 DEF IInv, TypeOK, Published
  <2> QED BY <1>4, <2>1, <2>2
<1>14. \A d \in Brokers :
          /\ conns'[d] = IF d = b THEN (conns[d] \ {k}) \cup {s} ELSE conns[d]
          /\ broker'[d].st = broker[d].st /\ broker'[d].why = broker[d].why
          /\ broker'[d].stopping = broker[d].stopping
  BY <1>3, <1>6, <1>7, <1>10 DEF IInv, TypeOK
<1>15. ASSUME NEW d \in Brokers PROVE BrokerOf(d)'
  <2>1. BrokerOf(d) /\ conns[d] \subseteq Connections
    BY DEF IInv, TypeOK
  <2>2. LockOf(d)'
    BY <1>14, <2>1 DEF BrokerOf, LockOf
  <2>3. StopOf(d)'
    <3>1. CASE d = b
      BY <1>2, <1>3, <1>14, <2>1, <3>1 DEF BrokerOf, StopOf, Threaded, Leaving
    <3>2. CASE d # b
      BY <1>14, <2>1, <3>2 DEF BrokerOf, StopOf, Seats
    <3> QED BY <3>1, <3>2
  <2>4. SeatsOf(d)'
    <3>1. CASE d = b
      <4>1. \A j \in conns[b] : j.st = "seated" => j.who # k.who
        BY <1>2 DEF Seats
      <4>2. \A j \in conns'[b] : j = s \/ (j \in conns[b] /\ j # k)
        BY <1>14
      <4>3. SeatsOf(b)
        BY <2>1, <3>1 DEF BrokerOf
      <4>4. ASSUME NEW i \in conns'[b], NEW j \in conns'[b], i.who = j.who
            PROVE  (i.st = "seated" /\ j.st = "seated" => i = j) /\ (i.open /\ j.open => i = j)
        <5>1. CASE i = s /\ j = s
          BY <5>1
        <5>2. CASE i = s /\ j \in conns[b] /\ j # k
          BY <1>9, <4>1, <4>3, <4>4, <5>2 DEF SeatsOf
        <5>3. CASE j = s /\ i \in conns[b] /\ i # k
          BY <1>9, <4>1, <4>3, <4>4, <5>3 DEF SeatsOf
        <5>4. CASE i \in conns[b] /\ j \in conns[b]
          BY <4>3, <4>4, <5>4 DEF SeatsOf
        <5> QED BY <4>2, <5>1, <5>2, <5>3, <5>4
      <4> QED BY <3>1, <4>4 DEF SeatsOf
    <3>2. CASE d # b
      BY <1>14, <2>1, <3>2 DEF BrokerOf, SeatsOf
    <3> QED BY <3>1, <3>2
  <2>5. ASSUME NEW j \in conns'[d], j.open
        PROVE  /\ client[j.who].peer = d
               /\ client[j.who].pc = "asked" \/ (client[j.who].pc \in {"seated", "detaching"} /\ j.st = "seated")
    <3>1. CASE j \in conns[d]
      BY <2>1, <2>5, <3>1 DEF BrokerOf, EndsOf
    <3>2. CASE j = s /\ d = b
      <4>1. k.open /\ k \in conns[d]
        BY <1>9, <2>5, <3>2
      <4> QED BY <1>9, <2>1, <3>2, <4>1 DEF BrokerOf, EndsOf
    <3> QED BY <1>14, <2>5, <3>1, <3>2
  <2>6. EndsOf(d)'
    BY <1>4, <2>5 DEF EndsOf
  <2> QED BY <2>2, <2>3, <2>4, <2>6 DEF BrokerOf
<1>16. ASSUME NEW c \in Clients PROVE ClientOf(c)'
  <2>1. \A e \in Brokers : \A j \in conns[e] : j.st = "seated" => j \in conns'[e]
    BY <1>14
  <2>2. ClientOf(c) /\ client'[c] = client[c] /\ busLock' = busLock
    BY <1>4 DEF IInv
  <2> QED BY <1>14, <2>1, <2>2 DEF ClientOf
<1> QED BY <1>12, <1>13, <1>15, <1>16 DEF IInv

LEMMA HandleAttachKeeps ==
    ASSUME IInv, NEW b \in Brokers, NEW k \in conns[b], HandleAttach(b, k) PROVE IInv'
<1>1. k.st = "asked" /\ broker[b].st \in Threaded /\ UNCHANGED <<busLock, holder, keyFile>>
  BY DEF HandleAttach, Threaded
<1>2. CASE Refuse(b, k, Again(k.who))
  <2>1. k.who \in Clients
    BY DEF IInv, TypeOK, Connections
  <2>2. Again(k.who) \in Attaches /\ Again(k.who).pc = "look"
    BY <2>1, AgainIs, Counted DEF IInv
  <2> QED BY <1>1, <1>2, <2>2, RefuseKeeps
<1>3. CASE Refuse(b, k, Idle)
  <2>1. Idle \in Attaches /\ Idle.pc = "out"
    BY IdleIs, Counted
  <2> QED BY <1>1, <1>3, <2>1, RefuseKeeps
<1>4. CASE ~RetryLater(b, k) /\ Seat(b, k)
  BY <1>1, <1>4, SeatKeeps
<1> QED BY <1>2, <1>3, <1>4 DEF HandleAttach

LEMMA HandleDetachKeeps ==
    ASSUME IInv, NEW b \in Brokers, NEW k \in conns[b], HandleDetach(b, k) PROVE IInv'
<1>1. k \in Connections /\ k.who \in Clients /\ broker[b] \in Processes
  BY DEF IInv, TypeOK, Connections
<1>2. k.st = "seated" /\ broker[b].st \in Threaded /\ (~k.open \/ client[k.who].pc = "detaching")
      /\ conns' = [conns EXCEPT ![b] = conns[b] \ {k}]
      /\ UNCHANGED <<mishaps, busLock, holder, descriptor, keyFile, client>>
  BY DEF HandleDetach, Threaded, disk
<1>3. PICK r \in Processes :
         /\ broker' = [broker EXCEPT ![b] = r] /\ r.st = broker[b].st /\ r.code = broker[b].code
         /\ r.left = broker[b].left
         /\ \/ r = broker[b]
            \/ r.stopping /\ Seats(b) = {k.who}
  <2>1. CASE UNCHANGED broker
    BY <1>1, <2>1 DEF IInv, TypeOK
  <2>2. CASE Stop(b, "last") /\ Seats(b) = {k.who}
    <3>1. PICK r : r = [broker[b] EXCEPT !.stopping = TRUE, !.why = "last", !.empty = FALSE]
      OBVIOUS
    <3>2. r \in Processes /\ r.st = broker[b].st /\ r.code = broker[b].code /\ r.left = broker[b].left
          /\ r.stopping
      BY <1>1, <3>1 DEF Processes
    <3>3. broker' = [broker EXCEPT ![b] = r]
      BY <2>2, <3>1 DEF Stop
    <3> QED BY <2>2, <3>2, <3>3
  <2> QED BY <2>1, <2>2 DEF HandleDetach
<1>4. TypeOK'
  BY <1>2, <1>3 DEF IInv, TypeOK
<1>5. \A d \in Brokers :
         /\ conns'[d] = IF d = b THEN conns[d] \ {k} ELSE conns[d]
         /\ broker'[d].st = broker[d].st /\ broker'[d].code = broker[d].code
         /\ broker'[d].left = broker[d].left
         /\ d # b => broker'[d] = broker[d]
  BY <1>2, <1>3 DEF IInv, TypeOK
<1>6. Published'
  BY <1>2, <1>5 DEF IInv, Published
<1>7. ASSUME NEW d \in Brokers PROVE BrokerOf(d)'
  <2>1. BrokerOf(d) /\ conns[d] \subseteq Connections /\ conns'[d] \subseteq conns[d]
    BY <1>5 DEF IInv, TypeOK
  <2>2. LockOf(d)'
    BY <1>2, <1>5, <2>1 DEF BrokerOf, LockOf
  <2>3. Seats(d)' \subseteq Seats(d)
    BY <2>1 DEF Seats
  <2>4. StopOf(d)'
    <3>1. CASE d = b /\ r = broker[b]
      BY <1>3, <1>5, <2>1, <2>3, <3>1 DEF BrokerOf, StopOf, IInv, TypeOK
    <3>2. CASE d = b /\ r.stopping /\ Seats(b) = {k.who}
      <4>1. Seats(d)' = {}
        <5>1. \A j \in conns[b] : j.st = "seated" => j.who = k.who
          BY <3>2 DEF Seats
        <5>2. \A j \in conns[b] : j.st = "seated" => j = k
          BY <1>2, <2>1, <3>2, <5>1 DEF BrokerOf, SeatsOf
        <5> QED BY <1>5, <3>2, <5>2 DEF Seats
      <4>2. broker'[d].stopping
        BY <1>3, <3>2 DEF IInv, TypeOK
      <4> QED BY <1>2, <1>5, <3>2, <4>1, <4>2 DEF StopOf
    <3>3. CASE d # b
      BY <1>5, <2>1, <2>3, <3>3 DEF BrokerOf, StopOf
    <3> QED BY <1>3, <3>1, <3>2, <3>3
  <2>5. SeatsOf(d)' /\ EndsOf(d)'
    BY <1>2, <2>1 DEF BrokerOf, SeatsOf, EndsOf
  <2> QED BY <2>2, <2>4, <2>5 DEF BrokerOf
<1>8. ASSUME NEW c \in Clients PROVE ClientOf(c)'
  <2>1. ClientOf(c) /\ client'[c] = client[c] /\ busLock' = busLock
    BY <1>2 DEF IInv
  <2>2. client[c].pc = "seated" => \A e \in Brokers : \A j \in conns[e] : j.who = c /\ j.open => j \in conns'[e]
    BY <1>2, <1>5
  <2> QED BY <1>5, <2>1, <2>2 DEF ClientOf
<1> QED BY <1>4, <1>6, <1>7, <1>8 DEF IInv

-----------------------------------------------------------------------------
(* The theorems.                                                            *)

LEMMA InitHolds == Init => IInv
<1> SUFFICES ASSUME Init PROVE IInv
  OBVIOUS
<1>1. Absent \in Processes /\ Absent.why = "none" /\ Absent.st = "none"
  BY Counted DEF Absent, Processes, Codes
<1>2. Idle \in Attaches /\ Idle.pc = "out" /\ NoDescriptor \in Descriptors
  BY Counted, IdleIs DEF NoDescriptor, Descriptors, MaybeBroker
<1>3. TypeOK
  BY <1>1, <1>2, Counted DEF Init, TypeOK, MaybeBroker
<1>4. ASSUME NEW b \in Brokers PROVE BrokerOf(b)
  BY <1>1, CanBrokerAssumption
  DEF Init, BrokerOf, LockOf, StopOf, SeatsOf, EndsOf, Owning, Running, Starting, Leaving
<1>5. ASSUME NEW c \in Clients PROVE ClientOf(c)
  BY <1>2 DEF Init, ClientOf
<1>6. Published
  BY DEF Init, Published
<1> QED BY <1>3, <1>4, <1>5, <1>6 DEF IInv

LEMMA StutterKeeps == ASSUME IInv, UNCHANGED vars PROVE IInv'
BY DEF vars, IInv, TypeOK, Published, BrokerOf, LockOf, StopOf, SeatsOf, EndsOf, Seats, ClientOf

LEMMA NextKeeps == ASSUME IInv, Next PROVE IInv'
<1>1. ASSUME NEW b \in Brokers, Lifecycle(b) PROVE IInv'
  BY <1>1, TakeBusKeeps, NotStartedKeeps, OpenBusKeeps, PublishKeeps, WatchKeeps, WatchStopKeeps,
     WokenKeeps, ShutdownKeeps DEF Lifecycle
<1>2. ASSUME NEW b \in Brokers, Incident(b) \/ BrokerDies(b) PROVE IInv'
  BY <1>2, IncidentKeeps, BrokerDiesKeeps
<1>3. ASSUME NEW c \in Clients, Attaching(c) PROVE IInv'
  BY <1>3, ReadDescriptorKeeps, SpawnKeeps, ReadExitKeeps, ProbeTakesKeeps, ProbeGivesKeeps, ProbeHeldKeeps,
     RemoveStaleKeeps, ReadKeyKeeps, DialKeeps, LineDropsKeeps, AnswerTimeoutKeeps, AnsweredKeeps,
     GiveUpKeeps, TerminateKeeps DEF Attaching
<1>4. ASSUME NEW c \in Clients, Connection(c) PROVE IInv'
  BY <1>4, AcceptKeeps, HungUpKeeps, HandleAttachKeeps, HandleDetachKeeps DEF Connection
<1>5. ASSUME NEW c \in Clients, Attach(c) \/ AskDetach(c) \/ Detached(c) \/ ClientDies(c) PROVE IInv'
  BY <1>5, AttachKeeps, AskDetachKeeps, DetachedKeeps, ClientDiesKeeps
<1> QED BY <1>1, <1>2, <1>3, <1>4, <1>5 DEF Next

\* The strengthening holds in every state.
THEOREM AlwaysIInv == Spec => []IInv
<1>1. IInv /\ [Next]_vars => IInv'
  BY NextKeeps, StutterKeeps
<1> QED BY <1>1, InitHolds, PTL DEF Spec

\* Type correctness of the rendezvous for any clients, brokers and bounds.
THEOREM TypesHold == Spec => []TypeOK
<1>1. IInv => TypeOK
  BY DEF IInv
<1> QED BY <1>1, AlwaysIInv, PTL

\* What the files of a bus say of its broker is so: a published descriptor whose
\* bus lock no broker holds was left by one that is gone, and was killed or could
\* not unlink it.  And seats are given
\* and taken only by those who ask: nobody is seated on a bus its last participant
\* has closed, and a seated client keeps its seat while its broker lives.
THEOREM RendezvousIsHonest == Spec => []RendezvousHonest
<1>1. IInv => FreeMeansDead
  <2> SUFFICES ASSUME IInv, descriptor # NoDescriptor, busLock \notin Brokers
               PROVE  /\ At(descriptor.owner, "exited")
                      /\ broker[descriptor.owner].code = "killed" \/ broker[descriptor.owner].left
    BY DEF FreeMeansDead
  <2>1. descriptor.owner \in Brokers /\ broker[descriptor.owner].st \notin Owning
    BY DEF IInv, Published, BrokerOf, LockOf
  <2> QED BY <2>1 DEF IInv, Published, At, Owning, Running, Leaving
<1>2. IInv => LastDetachAlone
  BY DEF IInv, BrokerOf, StopOf, LastDetachAlone
<1>3. IInv => SeatKept
  BY DEF IInv, ClientOf, SeatKept, At
<1>4. IInv => RendezvousHonest
  BY <1>1, <1>2, <1>3 DEF RendezvousHonest, SeatsHonest
<1> QED BY <1>4, AlwaysIInv, PTL

-----------------------------------------------------------------------------
(* The frames a broker passes on, for any participants, filters, budgets    *)
(* and buffers.                                                             *)

CONSTANTS Writers, Readers, Silent, View, Ids, Budget, Buffer, MaxSeq, MaxHeard
VARIABLES seq, heard, closing

Frames == INSTANCE CanFrames

\* A budget and a buffer hold a frame (config.py:3916, config.schema.json:620); a
\* filter accepts identifiers.
FrameBounds ==
    /\ Budget \in [Participants -> Nat \ {0}] /\ Buffer \in Nat \ {0}
    /\ MaxSeq \in Nat /\ MaxHeard \in Nat
    /\ View \in [Participants -> SUBSET Ids]

\* A set of numbers that is not empty has a least one.
LEMMA Least ==
    ASSUME NEW S \in SUBSET Nat, S # {}
    PROVE  \E n \in S : \A k \in S : n <= k
<1>1. PICK n \in S : \A k \in S : ~(<<k, n>> \in OpToRel(<, Nat))
  BY WFMin, NatLessThanWellFounded
<1>2. \A k \in S : ~(k < n)
  BY <1>1 DEF OpToRel
<1> QED BY <1>2

\* The places of a sequence t among the first m of a sequence s, in their order.
Places(t, s, m) ==
    {h \in [1..Len(t) -> 1..m] :
        /\ \A i, j \in 1..Len(t) : i < j => h[i] < h[j]
        /\ \A i \in 1..Len(t) : t[i] = s[h[i]]}

\* What is left of the first m of s when frames are taken out.
Left(t, s, m) == t \in Seq(Frames!Frame) /\ Places(t, s, m) # {}
Thin(t, s) == Left(t, s, Len(s))

\* What For has kept of the first n frames.
Kept(p, frames, f, m) ==
    f = [n \in 0..m |-> IF n = 0 THEN <<>>
                        ELSE IF Frames!Sees(p, frames[n]) THEN Append(f[n - 1], frames[n]) ELSE f[n - 1]]

LEMMA KeptNext ==
    ASSUME NEW p, NEW frames, NEW f, NEW m \in Nat, m # 0, Kept(p, frames, f, m - 1)
    PROVE  \E g : Kept(p, frames, g, m)
<1> DEFINE g == [n \in 0..m |-> IF n = m THEN (IF Frames!Sees(p, frames[m]) THEN Append(f[m - 1], frames[m]) ELSE f[m - 1])
                                ELSE f[n]]
<1>1. \A n \in 0..m : n # m => n \in 0..(m - 1)
  OBVIOUS
<1>2. \A n \in 0..(m - 1) : f[n] = IF n = 0 THEN <<>>
                        ELSE IF Frames!Sees(p, frames[n]) THEN Append(f[n - 1], frames[n]) ELSE f[n - 1]
  BY DEF Kept
<1>3. \A n \in 0..m : g[n] = IF n = 0 THEN <<>>
                        ELSE IF Frames!Sees(p, frames[n]) THEN Append(g[n - 1], frames[n]) ELSE g[n - 1]
  <2> TAKE n \in 0..m
  <2>1. CASE n = m
    <3>1. n # 0 /\ n - 1 \in 0..m /\ n - 1 # m
      BY <2>1
    <3>2. g[n - 1] = f[m - 1]
      BY <3>1, <2>1
    <3> QED BY <3>1, <3>2, <2>1
  <2>2. CASE n # m
    <3>1. n \in 0..(m - 1) /\ g[n] = f[n]
      BY <2>2, <1>1
    <3>2. CASE n = 0
      BY <3>1, <3>2, <1>2
    <3>3. CASE n # 0
      <4>1. n - 1 \in 0..m /\ n - 1 # m
        BY <3>1, <3>3
      <4>2. g[n - 1] = f[n - 1]
        BY <4>1
      <4> QED BY <4>2, <3>1, <3>3, <1>2
    <3> QED BY <3>2, <3>3
  <2> QED BY <2>1, <2>2
<1>4. g = [n \in 0..m |-> IF n = 0 THEN <<>>
                        ELSE IF Frames!Sees(p, frames[n]) THEN Append(g[n - 1], frames[n]) ELSE g[n - 1]]
  BY <1>3
<1> QED BY <1>4 DEF Kept

LEMMA KeptExists ==
    ASSUME NEW p, NEW frames, NEW m \in Nat
    PROVE  \E f : Kept(p, frames, f, m)
<1> DEFINE Bad == {n \in Nat : ~\E f : Kept(p, frames, f, n)}
<1>1. SUFFICES ASSUME Bad # {} PROVE FALSE
  OBVIOUS
<1>2. PICK n \in Bad : \A k \in Bad : n <= k
  BY <1>1, Least
<1>3. CASE n = 0
  <2>1. Kept(p, frames, [k \in 0..0 |-> <<>>], 0)
    BY DEF Kept
  <2> QED BY <1>2, <1>3, <2>1
<1>4. CASE n # 0
  <2>1. n - 1 \in Nat /\ ~(n <= n - 1)
    BY <1>2, <1>4
  <2>2. PICK f : Kept(p, frames, f, n - 1)
    BY <2>1, <1>2
  <2> QED BY <2>2, <1>2, <1>4, KeptNext
<1> QED BY <1>3, <1>4

LEMMA ForKeeps ==
    ASSUME NEW p, NEW frames, Len(frames) \in Nat
    PROVE  \E f : Kept(p, frames, f, Len(frames)) /\ Frames!For(p, frames) = f[Len(frames)]
<1>1. \E f : Kept(p, frames, f, Len(frames))
  BY KeptExists
<1> DEFINE g == CHOOSE f : f = [n \in 0..Len(frames) |-> IF n = 0 THEN <<>>
                        ELSE IF Frames!Sees(p, frames[n]) THEN Append(f[n - 1], frames[n]) ELSE f[n - 1]]
<1>2. Kept(p, frames, g, Len(frames))
  BY <1>1 DEF Kept
<1>3. Frames!For(p, frames) = g[Len(frames)]
  BY DEF Frames!For
<1> QED BY <1>2, <1>3

LEMMA LeftLonger ==
    ASSUME NEW t, NEW s, NEW m \in Nat, NEW n \in Nat, m <= n, Left(t, s, m)
    PROVE  Left(t, s, n)
<1>1. PICK h \in Places(t, s, m) : TRUE
  BY DEF Left
<1>2. Len(t) \in Nat
  BY LenProperties DEF Left
<1>3. h \in [1..Len(t) -> 1..n]
  BY <1>1 DEF Places
<1>4. h \in Places(t, s, n)
  BY <1>1, <1>3 DEF Places
<1> QED BY <1>4 DEF Left

LEMMA LeftAppend ==
    ASSUME NEW t, NEW s, NEW m \in Nat, m # 0, Left(t, s, m - 1), s[m] \in Frames!Frame
    PROVE  Left(Append(t, s[m]), s, m)
<1>1. PICK h \in Places(t, s, m - 1) : TRUE
  BY DEF Left
<1>2. t \in Seq(Frames!Frame) /\ Len(t) \in Nat
  BY LenProperties DEF Left
<1>3. PICK u : u = Append(t, s[m])
  OBVIOUS
<1>4. u \in Seq(Frames!Frame) /\ Len(u) = Len(t) + 1 /\ (\A i \in 1..Len(t) : u[i] = t[i]) /\ u[Len(t) + 1] = s[m]
  BY <1>2, <1>3, AppendProperties
<1> DEFINE g == [i \in 1..Len(u) |-> IF i <= Len(t) THEN h[i] ELSE m]
<1>5. \A i \in 1..Len(u) : IF i <= Len(t) THEN i \in 1..Len(t) /\ h[i] \in 1..(m - 1) ELSE i = Len(t) + 1
  BY <1>1, <1>2, <1>4 DEF Places
<1>6. g \in [1..Len(u) -> 1..m]
  <2>1. \A i \in 1..Len(u) : (IF i <= Len(t) THEN h[i] ELSE m) \in 1..m
    BY <1>5
  <2> QED BY <2>1
<1>7. \A i, j \in 1..Len(u) : i < j => g[i] < g[j]
  <2> SUFFICES ASSUME NEW i \in 1..Len(u), NEW j \in 1..Len(u), i < j PROVE g[i] < g[j]
    OBVIOUS
  <2>1. i \in 1..Len(t) /\ g[i] = h[i] /\ h[i] \in 1..(m - 1)
    BY <1>2, <1>4, <1>5
  <2>2. CASE j <= Len(t)
    BY <1>1, <1>5, <2>1, <2>2 DEF Places
  <2>3. CASE ~(j <= Len(t))
    BY <2>1, <2>3
  <2> QED BY <2>2, <2>3
<1>8. \A i \in 1..Len(u) : u[i] = s[g[i]]
  BY <1>1, <1>4, <1>5 DEF Places
<1> HIDE DEF g
<1>9. g \in Places(u, s, m)
  BY <1>6, <1>7, <1>8 DEF Places
<1> QED BY <1>3, <1>4, <1>9 DEF Left

LEMMA ForThin ==
    ASSUME NEW p, NEW frames \in Seq(Frames!Frame)
    PROVE  Thin(Frames!For(p, frames), frames)
<1>0. Len(frames) \in Nat /\ \A n \in 1..Len(frames) : frames[n] \in Frames!Frame
  BY LenProperties, ElementOfSeq
<1>1. PICK f : Kept(p, frames, f, Len(frames)) /\ Frames!For(p, frames) = f[Len(frames)]
  BY <1>0, ForKeeps
<1>2. \A n \in 0..Len(frames) : f[n] = IF n = 0 THEN <<>>
                        ELSE IF Frames!Sees(p, frames[n]) THEN Append(f[n - 1], frames[n]) ELSE f[n - 1]
  BY <1>1 DEF Kept
<1> DEFINE Bad == {n \in 0..Len(frames) : ~Left(f[n], frames, n)}
<1>3. Bad \in SUBSET Nat
  BY <1>0
<1>4. ASSUME Bad # {} PROVE FALSE
  <2>1. PICK n \in Bad : \A k \in Bad : n <= k
    BY <1>3, <1>4, Least
  <2>2. n \in 0..Len(frames) /\ n \in Nat
    BY <2>1, <1>0
  <2>3. CASE n = 0
    <3>1. f[n] = <<>>
      BY <1>2, <2>2, <2>3
    <3>2. f[n] \in Seq(Frames!Frame) /\ Len(f[n]) = 0
      BY <3>1, EmptySeq
    <3>3. [i \in 1..Len(f[n]) |-> 0] \in Places(f[n], frames, n)
      BY <3>2 DEF Places
    <3> QED BY <2>1, <3>2, <3>3 DEF Left
  <2>4. CASE n # 0
    <3>1. n - 1 \in 0..Len(frames) /\ n - 1 \in Nat /\ ~(n <= n - 1) /\ n \in 1..Len(frames)
      BY <2>2, <2>4
    <3>2. Left(f[n - 1], frames, n - 1)
      BY <2>1, <3>1
    <3>3. CASE Frames!Sees(p, frames[n])
      <4>1. Left(Append(f[n - 1], frames[n]), frames, n)
        BY <3>1, <3>2, <2>2, <2>4, <1>0, LeftAppend
      <4> QED BY <4>1, <3>3, <2>4, <2>2, <1>2, <2>1
    <3>4. CASE ~Frames!Sees(p, frames[n])
      <4>1. Left(f[n - 1], frames, n)
        BY <3>1, <3>2, <2>2, LeftLonger
      <4> QED BY <4>1, <3>4, <2>4, <2>2, <1>2, <2>1
    <3> QED BY <3>3, <3>4
  <2> QED BY <2>3, <2>4
<1>5. Left(f[Len(frames)], frames, Len(frames))
  <2>1. Len(frames) \in 0..Len(frames)
    BY <1>0
  <2> QED BY <2>1, <1>4
<1> QED BY <1>1, <1>5 DEF Thin

LEMMA ThinTransitive ==
    ASSUME NEW t, NEW s, NEW r, Thin(t, s), Thin(s, r)
    PROVE  Thin(t, r)
<1>1. PICK h \in Places(t, s, Len(s)) : TRUE
  BY DEF Thin, Left
<1>2. PICK g \in Places(s, r, Len(r)) : TRUE
  BY DEF Thin, Left
<1> DEFINE k == [i \in 1..Len(t) |-> g[h[i]]]
<1>3. \A i \in 1..Len(t) : h[i] \in 1..Len(s)
  BY <1>1 DEF Places
<1>4. k \in [1..Len(t) -> 1..Len(r)]
  BY <1>2, <1>3 DEF Places
<1>5. \A i, j \in 1..Len(t) : i < j => k[i] < k[j]
  BY <1>1, <1>2, <1>3 DEF Places
<1>6. \A i \in 1..Len(t) : t[i] = r[k[i]]
  BY <1>1, <1>2, <1>3 DEF Places
<1> HIDE DEF k
<1>7. k \in Places(t, r, Len(r))
  BY <1>4, <1>5, <1>6 DEF Places
<1> QED BY <1>7 DEF Thin, Left

LEMMA ThinPrefix ==
    ASSUME NEW s \in Seq(Frames!Frame), NEW m \in Int, m <= Len(s)
    PROVE  Thin(SubSeq(s, 1, m), s)
<1>0. Len(s) \in Nat /\ \A n \in 1..Len(s) : s[n] \in Frames!Frame
  BY LenProperties, ElementOfSeq
<1>1. \A i \in 1..m : s[i] \in Frames!Frame
  BY <1>0
<1>2. PICK t : t = SubSeq(s, 1, m)
  OBVIOUS
<1>3. t \in Seq(Frames!Frame) /\ Len(t) = (IF 1 <= m THEN m ELSE 0) /\ \A i \in 1..m : t[i] = s[i]
  <2>1. /\ SubSeq(s, 1, m) \in Seq(Frames!Frame)
        /\ Len(SubSeq(s, 1, m)) = IF 1 <= m THEN m - 1 + 1 ELSE 0
        /\ \A i \in 1 .. m - 1 + 1 : SubSeq(s, 1, m)[i] = s[1 + i - 1]
    BY <1>1, SubSeqProperties
  <2> QED BY <2>1, <1>2
<1>4. [i \in 1..Len(t) |-> i] \in Places(t, s, Len(s))
  BY <1>0, <1>3 DEF Places
<1> QED BY <1>2, <1>3, <1>4 DEF Thin, Left

LEMMA ThinDrop ==
    ASSUME NEW s \in Seq(Frames!Frame), NEW q \in Seq(Frames!Frame), NEW n \in Nat, n <= Len(q)
    PROVE  Thin(s \o SubSeq(q, n + 1, Len(q)), s \o q)
<1>0. Len(s) \in Nat /\ Len(q) \in Nat /\ \A i \in 1..Len(q) : q[i] \in Frames!Frame
  BY LenProperties, ElementOfSeq
<1>1. PICK r : r = SubSeq(q, n + 1, Len(q))
  OBVIOUS
<1>2. r \in Seq(Frames!Frame) /\ Len(r) = Len(q) - n /\ \A i \in 1..Len(r) : r[i] = q[n + i]
  <2>1. \A i \in (n + 1)..Len(q) : q[i] \in Frames!Frame
    BY <1>0
  <2>2. /\ SubSeq(q, n + 1, Len(q)) \in Seq(Frames!Frame)
        /\ Len(SubSeq(q, n + 1, Len(q))) = IF n + 1 <= Len(q) THEN Len(q) - (n + 1) + 1 ELSE 0
        /\ \A i \in 1 .. Len(q) - (n + 1) + 1 : SubSeq(q, n + 1, Len(q))[i] = q[n + 1 + i - 1]
    BY <2>1, <1>0, SubSeqProperties
  <2> QED BY <2>2, <1>0, <1>1
<1>3. PICK t : t = s \o r
  OBVIOUS
<1>4. PICK w : w = s \o q
  OBVIOUS
<1>5. /\ t \in Seq(Frames!Frame) /\ Len(t) = Len(s) + Len(r)
      /\ \A i \in 1..Len(s) + Len(r) : t[i] = IF i <= Len(s) THEN s[i] ELSE r[i - Len(s)]
  BY <1>2, <1>3, ConcatProperties
<1>6. /\ w \in Seq(Frames!Frame) /\ Len(w) = Len(s) + Len(q)
      /\ \A i \in 1..Len(s) + Len(q) : w[i] = IF i <= Len(s) THEN s[i] ELSE q[i - Len(s)]
  BY <1>4, ConcatProperties
<1> DEFINE h == [i \in 1..Len(t) |-> IF i <= Len(s) THEN i ELSE i + n]
<1>7. h \in [1..Len(t) -> 1..Len(w)]
  BY <1>0, <1>2, <1>5, <1>6
<1>8. \A i, j \in 1..Len(t) : i < j => h[i] < h[j]
  BY <1>0, <1>2, <1>5
<1>9. \A i \in 1..Len(t) : t[i] = w[h[i]]
  <2> SUFFICES ASSUME NEW i \in 1..Len(t) PROVE t[i] = w[h[i]]
    OBVIOUS
  <2>1. CASE i <= Len(s)
    BY <2>1, <1>0, <1>2, <1>5, <1>6
  <2>2. CASE ~(i <= Len(s))
    <3>1. i - Len(s) \in 1..Len(r) /\ i + n \in 1..Len(w) /\ ~(i + n <= Len(s)) /\ h[i] = i + n
      BY <2>2, <1>0, <1>2, <1>5, <1>6
    <3>2. t[i] = r[i - Len(s)] /\ r[i - Len(s)] = q[n + (i - Len(s))]
      BY <3>1, <2>2, <1>2, <1>5
    <3>3. w[i + n] = q[i + n - Len(s)] /\ i + n - Len(s) = n + (i - Len(s))
      BY <3>1, <1>0, <1>6
    <3> QED BY <3>1, <3>2, <3>3
  <2> QED BY <2>1, <2>2
<1> HIDE DEF h
<1>10. h \in Places(t, w, Len(w))
  BY <1>7, <1>8, <1>9 DEF Places
<1> QED BY <1>1, <1>3, <1>4, <1>5, <1>10 DEF Thin, Left

-----------------------------------------------------------------------------
Pcs == {"idle", "spend", "send", "sent", "gate", "read", "draw", "fan", "take", "over"}
Drawn == [id : Ids, wire : 1..MaxHeard]
SeatType == [on : BOOLEAN, abort : {"none", "participant", "bus"}, used : Nat, queue : Seq(Frames!Frame)]
CallType == [pc : Pcs, id : Ids \cup {0}, seq : 0..MaxSeq, want : 0..Buffer, drawn : Seq(Drawn)]

Typed ==
    /\ seat \in [Participants -> SeatType] /\ call \in [Participants -> CallType]
    /\ seq \in 0..MaxSeq /\ heard \in 0..MaxHeard
    /\ gated \in BOOLEAN /\ closing \in BOOLEAN
    /\ owed \in [Participants -> Seq(Frames!Frame)] /\ got \in [Participants -> Seq(Frames!Frame)]

\* A call is one of a seat; a send has its identifier; what is over a budget is
\* about to be told, or was.
CallOf(s, c, p) ==
    /\ ~s.on => c = Frames!NoCall
    /\ c.pc \in {"spend", "send", "sent"} => c.id \in Ids
    /\ s.used <= Budget[p] + Buffer
    /\ s.used > Budget[p] => c.pc = "over" \/ (s.abort # "none" /\ c = Frames!NoCall)
    /\ Len(s.queue) <= Buffer /\ Len(s.queue) <= Budget[p]

Calls == \A p \in Participants : CallOf(seat[p], call[p], p)

LEMMA QueueBoundOf ==
    ASSUME FrameBounds, NEW s \in SeatType, NEW p \in Participants
    PROVE  Frames!QueueBound(s, p) \in Nat /\ Frames!QueueBound(s, p) <= Buffer /\ Frames!QueueBound(s, p) <= Budget[p]
<1>1. s.used \in Nat /\ Budget[p] \in Nat /\ Budget[p] # 0 /\ Buffer \in Nat /\ Buffer # 0
  BY DEF FrameBounds, SeatType
<1> QED BY <1>1 DEF Frames!QueueBound

\* What Queued adds to a queue.
Added(s, p, frames) ==
    IF frames = <<>> \/ s.abort # "none" THEN <<>>
    ELSE IF Len(s.queue) + Len(frames) <= Frames!QueueBound(s, p) THEN frames
    ELSE SubSeq(frames, 1, Frames!QueueBound(s, p) - Len(s.queue))

LEMMA QueuedOf ==
    ASSUME FrameBounds, NEW s \in SeatType, NEW p \in Participants, NEW frames \in Seq(Frames!Frame), NEW r, r = Frames!Queued(s, p, frames)
    PROVE  /\ r \in SeatType /\ r.on = s.on /\ r.used = s.used
           /\ s.abort # "none" => r = s
           /\ r.abort # s.abort => r.abort = "participant" /\ s.abort = "none"
           /\ Len(r.queue) <= Len(s.queue) \/ Len(r.queue) <= Frames!QueueBound(s, p)
           /\ Thin(Added(s, p, frames), frames) /\ r.queue = s.queue \o Added(s, p, frames)
           /\ r.abort = "none" => Added(s, p, frames) = frames
<1> DEFINE bound == Frames!QueueBound(s, p)
<1>0. bound \in Nat
  BY QueueBoundOf
<1>1. /\ s.queue \in Seq(Frames!Frame) /\ Len(s.queue) \in Nat /\ Len(frames) \in Nat
      /\ s.abort \in {"none", "participant", "bus"}
  BY LenProperties DEF SeatType
<1>2. \A m \in Int : m <= Len(frames) => Thin(SubSeq(frames, 1, m), frames)
  BY ThinPrefix
<1>3. \A b \in Seq(Frames!Frame) : /\ s.queue \o b \in Seq(Frames!Frame)
                            /\ Len(s.queue \o b) = Len(s.queue) + Len(b)
  BY <1>1, ConcatProperties
<1>4. SubSeq(frames, 1, Len(frames)) = frames /\ SubSeq(frames, 1, 0) = <<>>
  BY SubSeqFull, SubSeqEmpty
<1>5. Thin(frames, frames) /\ Thin(<<>>, frames)
  <2>1. Len(frames) \in Int /\ 0 \in Int /\ Len(frames) <= Len(frames) /\ 0 <= Len(frames)
    BY <1>1
  <2>2. Thin(SubSeq(frames, 1, Len(frames)), frames) /\ Thin(SubSeq(frames, 1, 0), frames)
    BY <2>1, <1>2
  <2>3. SubSeq(frames, 1, 0) = <<>>
    BY SubSeqEmpty
  <2> QED BY <2>2, <2>3, <1>4
<1>6. CASE frames = <<>> \/ s.abort # "none"
  <2>1. r = s
    BY <1>6 DEF Frames!Queued
  <2>2. s.queue \o <<>> = s.queue
    BY <1>1, ConcatEmptySeq
  <2>3. r.abort = "none" => <<>> = frames
    BY <2>1, <1>6
  <2>4. Added(s, p, frames) = <<>>
    BY <1>6 DEF Added
  <2> QED BY <1>1, <1>5, <2>1, <2>2, <2>3, <2>4
<1>7. CASE ~(frames = <<>> \/ s.abort # "none") /\ Len(s.queue) + Len(frames) <= bound
  <2>1. r = [s EXCEPT !.queue = @ \o frames]
    BY <1>7 DEF Frames!Queued
  <2>2. PICK q : q = s.queue \o frames
    OBVIOUS
  <2>3. r = [s EXCEPT !.queue = q] /\ q \in Seq(Frames!Frame) /\ Len(q) = Len(s.queue) + Len(frames)
    BY <2>1, <2>2, <1>3
  <2>4. r \in SeatType /\ r.on = s.on /\ r.used = s.used /\ r.abort = s.abort /\ r.queue = q
    BY <2>3 DEF SeatType
  <2>5. Added(s, p, frames) = frames
    BY <1>7 DEF Added
  <2> QED BY <1>5, <1>7, <2>2, <2>3, <2>4, <2>5
<1>8. CASE ~(frames = <<>> \/ s.abort # "none") /\ ~(Len(s.queue) + Len(frames) <= bound)
  <2>0. PICK b : b = SubSeq(frames, 1, bound - Len(s.queue))
    OBVIOUS
  <2>1. r = [s EXCEPT !.queue = s.queue \o b, !.abort = "participant"]
    BY <1>8, <2>0 DEF Frames!Queued
  <2>2. PICK q : q = s.queue \o b
    OBVIOUS
  <2>3. Thin(b, frames)
    <3>1. bound - Len(s.queue) \in Int /\ bound - Len(s.queue) <= Len(frames)
      BY <1>0, <1>1, <1>8
    <3> QED BY <3>1, <2>0, <1>2
  <2>4. b \in Seq(Frames!Frame) /\ Len(b) = (IF bound - Len(s.queue) >= 1 THEN bound - Len(s.queue) ELSE 0)
    <3>1. \A i \in 1..(bound - Len(s.queue)) : frames[i] \in Frames!Frame
      <4>1. \A i \in 1..Len(frames) : frames[i] \in Frames!Frame
        BY ElementOfSeq
      <4> QED BY <4>1, <1>0, <1>1, <1>8
    <3>2. bound - Len(s.queue) \in Int
      BY <1>0, <1>1
    <3>3. /\ SubSeq(frames, 1, bound - Len(s.queue)) \in Seq(Frames!Frame)
          /\ Len(SubSeq(frames, 1, bound - Len(s.queue))) =
                IF 1 <= bound - Len(s.queue) THEN bound - Len(s.queue) - 1 + 1 ELSE 0
      BY <3>1, <3>2, SubSeqProperties
    <3> HIDE DEF bound
    <3> QED BY <3>2, <3>3, <2>0, <1>0, <1>1
  <2>5. r = [s EXCEPT !.queue = q, !.abort = "participant"] /\ q \in Seq(Frames!Frame) /\ Len(q) = Len(s.queue) + Len(b)
    BY <2>1, <2>2, <2>4, <1>3
  <2>6. r \in SeatType /\ r.on = s.on /\ r.used = s.used /\ r.abort = "participant" /\ r.queue = q
    BY <2>5 DEF SeatType
  <2>7. Len(q) <= Len(s.queue) \/ Len(q) <= bound
    <3> HIDE DEF bound
    <3> QED BY <2>4, <2>5, <1>0, <1>1
  <2>8. s.abort = "none"
    BY <1>8
  <2>9. Added(s, p, frames) = b
    BY <1>8, <2>0 DEF Added
  <2> QED BY <2>2, <2>3, <2>6, <2>7, <2>8, <2>9
<1> QED BY <1>6, <1>7, <1>8

LEMMA QueuedThin ==
    ASSUME FrameBounds, NEW s \in SeatType, NEW p \in Participants, NEW fr \in Seq(Frames!Frame)
    PROVE  /\ Frames!Queued(s, p, fr) \in SeatType /\ Frames!Queued(s, p, fr).on = s.on /\ Frames!Queued(s, p, fr).used = s.used
           /\ s.abort # "none" => Frames!Queued(s, p, fr) = s
           /\ Len(Frames!Queued(s, p, fr).queue) <= Len(s.queue) \/ Len(Frames!Queued(s, p, fr).queue) <= Frames!QueueBound(s, p)
           /\ Thin(Added(s, p, fr), fr)
           /\ Frames!Queued(s, p, fr).queue = s.queue \o Added(s, p, fr)
           /\ Frames!Queued(s, p, fr).abort = "none" => Added(s, p, fr) = fr
  BY QueuedOf

\* What passing frames on does to each seat.
LEMMA PassOnOf ==
    ASSUME FrameBounds, Typed, NEW frames \in Seq(Frames!Frame), NEW to, Frames!PassOn(frames, to)
    PROVE  /\ seat' \in [Participants -> SeatType] /\ owed' \in [Participants -> Seq(Frames!Frame)]
           /\ \A p \in Participants :
                 /\ seat'[p].on = seat[p].on /\ seat'[p].used = seat[p].used
                 /\ seat[p].abort # "none" => seat'[p] = seat[p]
                 /\ Len(seat'[p].queue) <= Len(seat[p].queue) \/ Len(seat'[p].queue) <= Frames!QueueBound(seat[p], p)
                 /\ \E b : /\ Thin(b, frames) /\ seat'[p].queue = seat[p].queue \o b
                           /\ seat'[p].abort = "none" => owed'[p] = owed[p] \o b
<1> DEFINE for(p) == IF p \in to THEN Frames!For(p, frames) ELSE <<>>
<1>0. Len(frames) \in Nat
  BY LenProperties
<1>1. /\ seat' = [p \in Participants |-> Frames!Queued(seat[p], p, for(p))]
      /\ owed' = [p \in Participants |-> owed[p] \o for(p)]
  BY DEF Frames!PassOn
<1>2. \A p \in Participants : Thin(for(p), frames)
  <2>1. Thin(<<>>, frames)
    <3>1. SubSeq(frames, 1, 0) = <<>>
      BY SubSeqEmpty
    <3>2. Thin(SubSeq(frames, 1, 0), frames)
      <4>1. 0 \in Int /\ 0 <= Len(frames)
        BY <1>0
      <4> QED BY <4>1, ThinPrefix
    <3> QED BY <3>1, <3>2
  <2> QED BY <2>1, ForThin
<1>3. \A p \in Participants : for(p) \in Seq(Frames!Frame)
  BY <1>2 DEF Thin, Left
<1> HIDE DEF for
<1>4. ASSUME NEW p \in Participants
      PROVE  /\ seat'[p] \in SeatType /\ owed'[p] \in Seq(Frames!Frame)
             /\ seat'[p].on = seat[p].on /\ seat'[p].used = seat[p].used
             /\ seat[p].abort # "none" => seat'[p] = seat[p]
             /\ Len(seat'[p].queue) <= Len(seat[p].queue) \/ Len(seat'[p].queue) <= Frames!QueueBound(seat[p], p)
             /\ \E b : /\ Thin(b, frames) /\ seat'[p].queue = seat[p].queue \o b
                       /\ seat'[p].abort = "none" => owed'[p] = owed[p] \o b
  <2>1. PICK s : s = seat[p]
    OBVIOUS
  <2>2. PICK fr : fr = for(p)
    OBVIOUS
  <2>3. PICK o : o = owed[p]
    OBVIOUS
  <2>4. s \in SeatType /\ o \in Seq(Frames!Frame) /\ Thin(fr, frames) /\ fr \in Seq(Frames!Frame) /\ p \in Participants
    BY <1>2, <1>3, <1>4, <2>1, <2>2, <2>3 DEF Typed
  <2>5. PICK r, u : r = Frames!Queued(s, p, fr) /\ u = o \o fr
    OBVIOUS
  <2>6. seat'[p] = r /\ owed'[p] = u
    BY <1>1, <1>4, <2>1, <2>2, <2>3, <2>5
  <2>7. /\ r \in SeatType /\ r.on = s.on /\ r.used = s.used
        /\ s.abort # "none" => r = s
        /\ Len(r.queue) <= Len(s.queue) \/ Len(r.queue) <= Frames!QueueBound(s, p)
        /\ u \in Seq(Frames!Frame)
        /\ Thin(Added(s, p, fr), frames) /\ r.queue = s.queue \o Added(s, p, fr)
        /\ r.abort = "none" => u = o \o Added(s, p, fr)
    <3>1. r \in SeatType /\ r.on = s.on /\ r.used = s.used /\ (s.abort # "none" => r = s)
      BY <2>4, <2>5, QueuedThin
    <3>2. Len(r.queue) <= Len(s.queue) \/ Len(r.queue) <= Frames!QueueBound(s, p)
      BY <2>4, <2>5, QueuedThin
    <3>3. u \in Seq(Frames!Frame)
      BY <2>4, <2>5, ConcatProperties
    <3>4. Thin(Added(s, p, fr), frames) /\ r.queue = s.queue \o Added(s, p, fr)
      BY <2>4, <2>5, QueuedThin, ThinTransitive
    <3>5. r.abort = "none" => u = o \o Added(s, p, fr)
      BY <2>4, <2>5, QueuedThin
    <3> QED BY <3>1, <3>2, <3>3, <3>4, <3>5
  <2> QED BY <2>1, <2>3, <2>6, <2>7
<1>5. seat' \in [Participants -> SeatType]
  BY <1>1, <1>4
<1>6. owed' \in [Participants -> Seq(Frames!Frame)]
  BY <1>1, <1>4
<1> QED BY <1>4, <1>5, <1>6

-----------------------------------------------------------------------------
(* Numbers.  S are the participants seated, seen what each has seen, n the  *)
(* last number, T the numbers of the sends under way, with their senders.   *)

Below(S, seen, n, T) ==
    /\ \A p \in S : \A i \in 1..Len(seen[p]) :
          seen[p][i].seq <= n /\ \A x \in T : x[2] # seen[p][i].seq
    /\ \A x \in T : x[2] \in 1..n /\ \A y \in T : x[2] = y[2] => x = y

Unique(S, seen) ==
    \A p, q \in S : \A i \in 1..Len(seen[p]), j \in 1..Len(seen[q]) :
        seen[p][i].seq = seen[q][j].seq => seen[p][i] = seen[q][j]

Grow(s) ==
    \A i, j \in 1..Len(s) : i < j /\ s[i].wire # 0 /\ s[j].wire # 0 => s[i].seq < s[j].seq

\* A frame of a thinner sequence is one of the thicker.
LEMMA ThinHas ==
    ASSUME NEW t, NEW s, Thin(t, s)
    PROVE  /\ \A i \in 1..Len(t) : \E k \in 1..Len(s) : t[i] = s[k]
           /\ Grow(s) /\ s \in Seq(Frames!Frame) => Grow(t)
<1>1. PICK h \in Places(t, s, Len(s)) : TRUE
  BY DEF Thin, Left
<1>2. \A i \in 1..Len(t) : h[i] \in 1..Len(s) /\ t[i] = s[h[i]]
  BY <1>1 DEF Places
<1>3. ASSUME Grow(s) PROVE Grow(t)
  <2> SUFFICES ASSUME NEW i \in 1..Len(t), NEW j \in 1..Len(t), i < j, t[i].wire # 0, t[j].wire # 0
               PROVE  t[i].seq < t[j].seq
    BY DEF Grow
  <2>1. h[i] < h[j]
    BY <1>1 DEF Places
  <2> QED BY <2>1, <1>2, <1>3 DEF Grow
<1> QED BY <1>2, <1>3

\* Nobody sees a new frame.
LEMMA NothingNew ==
    ASSUME FrameBounds, NEW S, NEW R, NEW seen, NEW more, NEW n \in Nat, NEW m \in Nat, NEW T, NEW U,
           Below(S, seen, n, T), Unique(S, seen), \A p \in S : Grow(seen[p]) /\ seen[p] \in Seq(Frames!Frame),
           \A p \in R : more[p] = <<>> \/ (p \in S /\ Thin(more[p], seen[p])),
           n <= m,
           U \subseteq T \/ (m = n + 1 /\ \E a : U \subseteq T \cup {<<a, m>>})
    PROVE  Below(R, more, m, U) /\ Unique(R, more) /\ \A p \in R : Grow(more[p])
<1>1. Len(<<>>) = 0
  BY EmptySeq
<1>2. ASSUME NEW p \in R, NEW i \in 1..Len(more[p])
      PROVE  p \in S /\ Thin(more[p], seen[p]) /\ \E k \in 1..Len(seen[p]) : more[p][i] = seen[p][k]
  <2>1. more[p] # <<>>
    BY <1>1, <1>2
  <2>2. p \in S /\ Thin(more[p], seen[p])
    BY <2>1, <1>2
  <2> QED BY <2>2, <1>2, ThinHas
<1>3. ASSUME NEW p \in S, NEW k \in 1..Len(seen[p])
      PROVE  seen[p][k].seq \in Nat
  <2>1. seen[p][k] \in Frames!Frame
    BY <1>3, ElementOfSeq
  <2> QED BY <2>1 DEF FrameBounds, Frames!Frame
<1>4. Unique(R, more)
  <2> SUFFICES ASSUME NEW p \in R, NEW q \in R, NEW i \in 1..Len(more[p]), NEW j \in 1..Len(more[q]),
                      more[p][i].seq = more[q][j].seq
               PROVE  more[p][i] = more[q][j]
    BY DEF Unique
  <2>1. PICK k \in 1..Len(seen[p]) : more[p][i] = seen[p][k]
    BY <1>2
  <2>2. PICK l \in 1..Len(seen[q]) : more[q][j] = seen[q][l]
    BY <1>2
  <2>3. p \in S /\ q \in S
    BY <1>2
  <2> QED BY <2>1, <2>2, <2>3 DEF Unique
<1>5. ASSUME NEW p \in R PROVE Grow(more[p])
  <2>1. CASE more[p] = <<>>
    BY <1>1, <2>1 DEF Grow
  <2>2. CASE more[p] # <<>>
    BY <1>5, <2>2, ThinHas
  <2> QED BY <2>1, <2>2
<1>6. ASSUME NEW x \in U PROVE x[2] \in 1..m /\ (x \in T \/ (m = n + 1 /\ x[2] = m))
  <2>1. CASE U \subseteq T
    BY <1>6, <2>1 DEF Below
  <2>2. CASE m = n + 1 /\ \E a : U \subseteq T \cup {<<a, m>>}
    <3>1. x \in T \/ \E a : x = <<a, m>>
      BY <1>6, <2>2
    <3>2. CASE x \in T
      BY <3>2, <2>2 DEF Below
    <3>3. CASE \E a : x = <<a, m>>
      BY <3>3, <2>2
    <3> QED BY <3>1, <3>2, <3>3
  <2> QED BY <2>1, <2>2
<1>7. ASSUME NEW x \in U, NEW y \in U, x[2] = y[2] PROVE x = y
  <2>1. CASE U \subseteq T
    BY <1>7, <2>1 DEF Below
  <2>2. CASE m = n + 1 /\ \E a : U \subseteq T \cup {<<a, m>>}
    <3>1. PICK a : U \subseteq T \cup {<<a, m>>}
      BY <2>2
    <3>2. \A z \in T : z[2] # m
      BY <2>2 DEF Below
    <3> QED BY <3>1, <3>2, <1>7 DEF Below
  <2> QED BY <2>1, <2>2
<1>8. ASSUME NEW p \in R, NEW i \in 1..Len(more[p])
      PROVE  more[p][i].seq <= m /\ \A x \in U : x[2] # more[p][i].seq
  <2>1. PICK k \in 1..Len(seen[p]) : more[p][i] = seen[p][k]
    BY <1>2, <1>8
  <2>2. p \in S /\ seen[p][k].seq \in Nat /\ seen[p][k].seq <= n
    BY <2>1, <1>2, <1>3, <1>8 DEF Below
  <2>3. ASSUME NEW x \in U PROVE x[2] # seen[p][k].seq
    <3>1. CASE x \in T
      BY <3>1, <2>1, <2>2 DEF Below
    <3>2. CASE m = n + 1 /\ x[2] = m
      BY <3>2, <2>2
    <3> QED BY <3>1, <3>2, <2>3, <1>6
  <2> QED BY <2>1, <2>2, <2>3
<1>9. Below(R, more, m, U)
  BY <1>6, <1>7, <1>8 DEF Below
<1> QED BY <1>4, <1>5, <1>9

\* A sequence behind another.
LEMMA Behind ==
    ASSUME NEW s \in Seq(Frames!Frame), NEW a \in Seq(Frames!Frame)
    PROVE  /\ Len(s) \in Nat /\ Len(a) \in Nat /\ Len(s \o a) = Len(s) + Len(a)
           /\ \A i \in 1..Len(s \o a) : IF i <= Len(s) THEN i \in 1..Len(s) /\ (s \o a)[i] = s[i]
                                      ELSE i - Len(s) \in 1..Len(a) /\ (s \o a)[i] = a[i - Len(s)]
<1>1. Len(s) \in Nat /\ Len(a) \in Nat
  BY LenProperties
<1>2. Len(s \o a) = Len(s) + Len(a)
  BY ConcatProperties
<1>3. \A i \in 1..Len(s) + Len(a) : (s \o a)[i] = IF i <= Len(s) THEN s[i] ELSE a[i - Len(s)]
  BY ConcatProperties
<1> QED BY <1>1, <1>2, <1>3

\* What each sees more of a batch.
Adds(S, seen, more, add, frames) ==
    \A p \in S : /\ seen[p] \in Seq(Frames!Frame) /\ Grow(seen[p])
                 /\ Thin(add[p], frames) /\ more[p] = seen[p] \o add[p]

\* Numbers that are nobody's yet.
Fresh(S, seen, n, m, U, frames) ==
    /\ \A i \in 1..Len(frames) :
          /\ frames[i].seq <= m /\ \A x \in U : x[2] # frames[i].seq
          /\ \/ frames[i].seq > n
             \/ frames[i].wire = 0 /\ \A p \in S : \A k \in 1..Len(seen[p]) : seen[p][k].seq # frames[i].seq
    /\ \A i, j \in 1..Len(frames) : i < j => frames[i].seq < frames[j].seq

\* Frames are passed on under numbers that are nobody's yet.
LEMMA NewOnes ==
    ASSUME FrameBounds, NEW S, NEW seen, NEW more, NEW add, NEW n \in Nat, NEW m \in Nat, NEW T, NEW U, NEW frames \in Seq(Frames!Frame),
           Below(S, seen, n, T), Unique(S, seen), Adds(S, seen, more, add, frames),
           n <= m, U \subseteq T, Fresh(S, seen, n, m, U, frames)
    PROVE  Below(S, more, m, U) /\ Unique(S, more) /\ \A p \in S : Grow(more[p])
<1>0. \A i \in 1..Len(frames) : frames[i].seq \in Nat
  <2>1. \A i \in 1..Len(frames) : frames[i] \in Frames!Frame
    BY ElementOfSeq
  <2> QED BY <2>1 DEF FrameBounds, Frames!Frame
<1>1. ASSUME NEW p \in S
      PROVE  /\ add[p] \in Seq(Frames!Frame) /\ Len(seen[p]) \in Nat
             /\ \A i \in 1..Len(more[p]) :
                   IF i <= Len(seen[p]) THEN i \in 1..Len(seen[p]) /\ more[p][i] = seen[p][i]
                   ELSE i - Len(seen[p]) \in 1..Len(add[p]) /\ more[p][i] = add[p][i - Len(seen[p])]
  <2>1. add[p] \in Seq(Frames!Frame) /\ seen[p] \in Seq(Frames!Frame) /\ more[p] = seen[p] \o add[p]
    BY <1>1 DEF Adds, Thin, Left
  <2>2. PICK s : s = seen[p]
    OBVIOUS
  <2>3. PICK a : a = add[p]
    OBVIOUS
  <2>4. s \in Seq(Frames!Frame) /\ a \in Seq(Frames!Frame) /\ more[p] = s \o a
    BY <2>1, <2>2, <2>3
  <2>5. /\ Len(s) \in Nat
        /\ \A i \in 1..Len(s \o a) : IF i <= Len(s) THEN i \in 1..Len(s) /\ (s \o a)[i] = s[i]
                                   ELSE i - Len(s) \in 1..Len(a) /\ (s \o a)[i] = a[i - Len(s)]
    BY <2>4, Behind
  <2>6. /\ Len(s) \in Nat
        /\ \A i \in 1..Len(more[p]) : IF i <= Len(s) THEN i \in 1..Len(s) /\ more[p][i] = s[i]
                                   ELSE i - Len(s) \in 1..Len(a) /\ more[p][i] = a[i - Len(s)]
    BY <2>4, <2>5
  <2> QED BY <2>1, <2>2, <2>3, <2>6
<1>2. ASSUME NEW p \in S, NEW k \in 1..Len(seen[p])
      PROVE  seen[p][k].seq \in Nat /\ seen[p][k].seq <= n
  <2>1. seen[p] \in Seq(Frames!Frame)
    BY <1>2 DEF Adds
  <2>2. seen[p][k] \in Frames!Frame
    BY <1>2, <2>1, ElementOfSeq
  <2> QED BY <2>2, <1>2 DEF FrameBounds, Frames!Frame, Below
\* What one sees now it saw before, or it is one of the new ones.
<1>3. ASSUME NEW p \in S, NEW i \in 1..Len(more[p])
      PROVE  \/ i \in 1..Len(seen[p]) /\ more[p][i] = seen[p][i]
             \/ ~(i <= Len(seen[p])) /\ \E k \in 1..Len(frames) : more[p][i] = frames[k]
  <2>1. CASE i <= Len(seen[p])
    BY <2>1, <1>1, <1>3
  <2>2. CASE ~(i <= Len(seen[p]))
    <3>1. i - Len(seen[p]) \in 1..Len(add[p]) /\ more[p][i] = add[p][i - Len(seen[p])]
      BY <2>2, <1>1, <1>3
    <3>2. Thin(add[p], frames)
      BY <1>3 DEF Adds
    <3>3. \A j \in 1..Len(add[p]) : \E k \in 1..Len(frames) : add[p][j] = frames[k]
      BY <3>2, ThinHas
    <3> QED BY <3>1, <3>3, <2>2
  <2> QED BY <2>1, <2>2
<1>4. ASSUME NEW p \in S, NEW i \in 1..Len(seen[p]), NEW k \in 1..Len(frames)
      PROVE  seen[p][i].seq # frames[k].seq
  <2>1. seen[p][i].seq \in Nat /\ seen[p][i].seq <= n /\ frames[k].seq \in Nat
    BY <1>0, <1>2, <1>4
  <2>2. CASE frames[k].seq > n
    BY <2>1, <2>2
  <2>3. CASE ~(frames[k].seq > n)
    BY <2>3, <1>4 DEF Fresh
  <2> QED BY <2>2, <2>3
<1>5. ASSUME NEW k \in 1..Len(frames), NEW l \in 1..Len(frames), frames[k].seq = frames[l].seq
      PROVE  frames[k] = frames[l]
  <2>0. Len(frames) \in Nat
    BY LenProperties
  <2>1. ~(k < l) /\ ~(l < k)
    BY <1>0, <1>5 DEF Fresh
  <2> QED BY <2>0, <2>1
<1>6. Unique(S, more)
  <2> SUFFICES ASSUME NEW p \in S, NEW q \in S, NEW i \in 1..Len(more[p]), NEW j \in 1..Len(more[q]),
                      more[p][i].seq = more[q][j].seq
               PROVE  more[p][i] = more[q][j]
    BY DEF Unique
  <2>1. CASE (i \in 1..Len(seen[p]) /\ more[p][i] = seen[p][i]) /\ (j \in 1..Len(seen[q]) /\ more[q][j] = seen[q][j])
    BY <2>1 DEF Unique
  <2>2. CASE (i \in 1..Len(seen[p]) /\ more[p][i] = seen[p][i]) /\ \E k \in 1..Len(frames) : more[q][j] = frames[k]
    BY <2>2, <1>4
  <2>3. CASE (\E k \in 1..Len(frames) : more[p][i] = frames[k]) /\ (j \in 1..Len(seen[q]) /\ more[q][j] = seen[q][j])
    BY <2>3, <1>4
  <2>4. CASE (\E k \in 1..Len(frames) : more[p][i] = frames[k]) /\ (\E k \in 1..Len(frames) : more[q][j] = frames[k])
    BY <2>4, <1>5
  <2> QED BY <2>1, <2>2, <2>3, <2>4, <1>3
<1>7. ASSUME NEW p \in S PROVE Grow(more[p])
  <2> SUFFICES ASSUME NEW i \in 1..Len(more[p]), NEW j \in 1..Len(more[p]), i < j,
                      more[p][i].wire # 0, more[p][j].wire # 0
               PROVE  more[p][i].seq < more[p][j].seq
    BY DEF Grow
  <2>1. CASE i <= Len(seen[p]) /\ j <= Len(seen[p])
    <3>1. i \in 1..Len(seen[p]) /\ j \in 1..Len(seen[p]) /\ more[p][i] = seen[p][i] /\ more[p][j] = seen[p][j]
      BY <2>1, <1>1, <1>7
    <3>2. Grow(seen[p])
      BY <1>7 DEF Adds
    <3> QED BY <3>1, <3>2 DEF Grow
  <2>2. CASE i <= Len(seen[p]) /\ ~(j <= Len(seen[p]))
    <3>1. i \in 1..Len(seen[p]) /\ more[p][i] = seen[p][i]
      BY <2>2, <1>1, <1>7
    <3>2. PICK k \in 1..Len(frames) : more[p][j] = frames[k]
      BY <2>2, <1>3, <1>7
    <3>3. frames[k].seq > n
      BY <3>2 DEF Fresh
    <3>4. seen[p][i].seq \in Nat /\ seen[p][i].seq <= n /\ frames[k].seq \in Nat
      BY <3>1, <1>0, <1>2, <1>7
    <3> QED BY <3>1, <3>2, <3>3, <3>4
  <2>3. CASE ~(i <= Len(seen[p]))
    <3> DEFINE a == i - Len(seen[p])
               b == j - Len(seen[p])
    <3>1. a \in 1..Len(add[p]) /\ b \in 1..Len(add[p]) /\ a < b /\ more[p][i] = add[p][a] /\ more[p][j] = add[p][b]
      BY <2>3, <1>1, <1>7
    <3>2. Grow(frames)
      BY DEF Grow, Fresh
    <3>3. Thin(add[p], frames)
      BY <1>7 DEF Adds
    <3>4. Grow(add[p])
      BY <3>2, <3>3, ThinHas
    <3> HIDE DEF a, b
    <3> QED BY <3>1, <3>4 DEF Grow
  <2>4. Len(seen[p]) \in Nat
    BY <1>1, <1>7
  <2> QED BY <2>1, <2>2, <2>3, <2>4
<1>8. ASSUME NEW p \in S, NEW i \in 1..Len(more[p])
      PROVE  more[p][i].seq <= m /\ \A x \in U : x[2] # more[p][i].seq
  <2>1. CASE i \in 1..Len(seen[p]) /\ more[p][i] = seen[p][i]
    BY <2>1, <1>2, <1>8 DEF Below
  <2>2. CASE \E k \in 1..Len(frames) : more[p][i] = frames[k]
    BY <2>2 DEF Fresh
  <2> QED BY <2>1, <2>2, <1>3, <1>8
<1>9. ASSUME NEW x \in U
      PROVE  x[2] \in 1..m /\ \A y \in U : x[2] = y[2] => x = y
  <2>1. x \in T /\ x[2] \in 1..n /\ \A y \in T : x[2] = y[2] => x = y
    BY <1>9 DEF Below
  <2> QED BY <2>1
<1>10. Below(S, more, m, U)
  BY <1>8, <1>9 DEF Below
<1> QED BY <1>6, <1>7, <1>10

-----------------------------------------------------------------------------
SeenBy == [p \in Participants |-> Seen(p)]
Sent == {<<p, call[p].seq>> : p \in {q \in Participants : call[q].pc = "sent"}}

Numbered ==
    /\ Below(Seated, SeenBy, seq, Sent) /\ Unique(Seated, SeenBy)
    /\ \A p \in Seated : Grow(SeenBy[p])

FramesInv == Typed /\ Calls /\ LossReported /\ IncidentReachesAll /\ Numbered

LEMMA ThinSame ==
    ASSUME NEW s \in Seq(Frames!Frame)
    PROVE  Thin(s, s)
<1>1. Len(s) \in Int /\ Len(s) <= Len(s)
  BY LenProperties
<1>2. Thin(SubSeq(s, 1, Len(s)), s)
  BY <1>1, ThinPrefix
<1> QED BY <1>2, SubSeqFull

LEMMA SeenTyped ==
    ASSUME Typed, NEW p \in Participants
    PROVE  Seen(p) \in Seq(Frames!Frame) /\ SeenBy[p] = Seen(p)
<1>1. got[p] \in Seq(Frames!Frame) /\ seat[p].queue \in Seq(Frames!Frame)
  BY DEF Typed, SeatType
<1>2. got[p] \o seat[p].queue \in Seq(Frames!Frame)
  BY <1>1, ConcatProperties
<1> QED BY <1>2 DEF Seen, SeenBy

\* A step in which nobody sees a new frame.
LEMMA NumberedKept ==
    ASSUME FrameBounds, Typed, Typed', Numbered, seq <= seq',
           \A q \in Seated' : Seen(q)' = <<>> \/ (q \in Seated /\ Thin(Seen(q)', Seen(q))),
           Sent' \subseteq Sent \/ (seq' = seq + 1 /\ \E a : Sent' \subseteq Sent \cup {<<a, seq'>>})
    PROVE  Numbered'
<1>1. PICK S : S = Seated
  OBVIOUS
<1>2. PICK R : R = Seated'
  OBVIOUS
<1>3. PICK seen : seen = SeenBy
  OBVIOUS
<1>4. PICK more : more = SeenBy'
  OBVIOUS
<1>5. PICK n, m : n = seq /\ m = seq'
  OBVIOUS
<1>6. PICK T, U : T = Sent /\ U = Sent'
  OBVIOUS
<1>7. n \in Nat /\ m \in Nat /\ n <= m
  BY <1>5 DEF FrameBounds, Typed
<1>8. Below(S, seen, n, T) /\ Unique(S, seen) /\ \A p \in S : Grow(seen[p])
  BY <1>1, <1>3, <1>5, <1>6 DEF Numbered
<1>9. \A p \in S : seen[p] \in Seq(Frames!Frame)
  BY <1>1, <1>3, SeenTyped DEF Seated
<1>10. \A p \in R : more[p] = <<>> \/ (p \in S /\ Thin(more[p], seen[p]))
  <2> SUFFICES ASSUME NEW p \in R PROVE more[p] = <<>> \/ (p \in S /\ Thin(more[p], seen[p]))
    OBVIOUS
  <2>1. p \in Seated' /\ p \in Participants
    BY <1>2 DEF Seated
  <2>2. more[p] = Seen(p)' /\ seen[p] = Seen(p)
    BY <1>3, <1>4, <2>1 DEF SeenBy
  <2> QED BY <1>1, <2>1, <2>2
<1>11. U \subseteq T \/ (m = n + 1 /\ \E a : U \subseteq T \cup {<<a, m>>})
  BY <1>5, <1>6
<1>12. Below(R, more, m, U) /\ Unique(R, more) /\ \A p \in R : Grow(more[p])
  BY <1>7, <1>8, <1>9, <1>10, <1>11, NothingNew
<1>13. Below(Seated, SeenBy, seq, Sent)' /\ Unique(Seated, SeenBy)' /\ (\A p \in Seated : Grow(SeenBy[p]))'
  BY <1>12, <1>2, <1>4, <1>5, <1>6
<1> QED BY <1>13 DEF Numbered

\* A participant's seat and call move on.
Moves(p, s, c) ==
    /\ s \in SeatType /\ c \in CallType /\ CallOf(s, c, p)
    /\ seat' = [seat EXCEPT ![p] = s] /\ call' = [call EXCEPT ![p] = c]

\* It sees no frame and loses none, and no incident is taken back.
Quiet(p, s, c) ==
    /\ s.queue = seat[p].queue \/ ~s.on
    /\ s.on => seat[p].on
    /\ s.on /\ seat[p].abort # "none" => s.abort # "none"
    /\ s.on /\ s.abort = "none" /\ call[p].pc = "over" => c.pc = "over"
    /\ \/ c.pc = "sent" => call[p].pc = "sent" /\ c.seq = call[p].seq
       \/ seq' = seq + 1 /\ c.seq = seq'

LEMMA QuietStep ==
    ASSUME FrameBounds, FramesInv, NEW p \in Participants, NEW s, NEW c, Moves(p, s, c), Quiet(p, s, c),
           seq' \in {seq, seq + 1}, seq' <= MaxSeq, heard' \in 0..MaxHeard, closing' \in BOOLEAN,
           UNCHANGED <<gated, owed, got>>
    PROVE  FramesInv'
<1>1. Typed'
  BY DEF FrameBounds, FramesInv, Typed, Moves
<1>2. Calls'
  BY DEF FramesInv, Typed, Calls, Moves
<1>3. \A q \in Seated' : q \in Seated /\ Seen(q)' = Seen(q)
  BY DEF FramesInv, Typed, Moves, Quiet, Seated, Seen
<1>4. LossReported'
  BY <1>3 DEF FramesInv, Typed, LossReported, Moves, Quiet, Seated
<1>5. IncidentReachesAll'
  BY <1>3 DEF FramesInv, Typed, IncidentReachesAll, Moves, Quiet, Seated
<1>6. Numbered'
  <2>1. \A q \in Seated' : q \in Seated /\ Thin(Seen(q)', Seen(q))
    <3>1. \A q \in Seated : Seen(q) \in Seq(Frames!Frame)
      BY SeenTyped DEF FramesInv, Seated
    <3> QED BY <1>3, <3>1, ThinSame
  <2>2. Sent' \subseteq Sent \/ (seq' = seq + 1 /\ \E a : Sent' \subseteq Sent \cup {<<a, seq'>>})
    <3>1. \A q \in Participants : q # p => call'[q] = call[q]
      BY DEF Moves, FramesInv, Typed
    <3>2. call'[p] = c
      BY DEF Moves, FramesInv, Typed
    <3>3. CASE c.pc = "sent" => call[p].pc = "sent" /\ c.seq = call[p].seq
      <4>1. Sent' \subseteq Sent
        BY <3>1, <3>2, <3>3 DEF Sent
      <4> QED BY <4>1
    <3>4. CASE seq' = seq + 1 /\ c.seq = seq'
      <4>1. Sent' \subseteq Sent \cup {<<p, seq'>>}
        BY <3>1, <3>2, <3>4 DEF Sent
      <4> QED BY <4>1, <3>4
    <3> QED BY <3>3, <3>4 DEF Quiet
  <2>3. seq <= seq'
    BY DEF FrameBounds, FramesInv, Typed
  <2> QED BY <1>1, <2>1, <2>2, <2>3, NumberedKept DEF FramesInv
<1> QED BY <1>1, <1>2, <1>4, <1>5, <1>6 DEF FramesInv

LEMMA NoSeatNoCall ==
    ASSUME FrameBounds
    PROVE  /\ Frames!NoSeat \in SeatType /\ Frames!NoCall \in CallType /\ Len(Frames!NoSeat.queue) = 0
           /\ Frames!NoCall.pc = "idle" /\ ~Frames!NoSeat.on /\ Frames!NoSeat.used = 0
<1>1. \A S : <<>> \in Seq(S) /\ Len(<<>>) = 0
  BY EmptySeq
<1> QED BY <1>1 DEF FrameBounds, Frames!NoSeat, Frames!NoCall, SeatType, CallType, Pcs

LEMMA SeatAndCall ==
    ASSUME FrameBounds, FramesInv, NEW p \in Participants
    PROVE  /\ seat[p] \in SeatType /\ call[p] \in CallType /\ CallOf(seat[p], call[p], p)
           /\ seat = [seat EXCEPT ![p] = seat[p]] /\ call = [call EXCEPT ![p] = call[p]]
           /\ Budget[p] \in Nat /\ Buffer \in Nat /\ seat[p].used \in Nat
           /\ seat[p].queue \in Seq(Frames!Frame) /\ Len(seat[p].queue) \in Nat
<1>1. seat[p] \in SeatType /\ call[p] \in CallType /\ CallOf(seat[p], call[p], p)
  BY DEF FramesInv, Typed, Calls
<1>2. seat = [seat EXCEPT ![p] = seat[p]] /\ call = [call EXCEPT ![p] = call[p]]
  BY DEF FramesInv, Typed
<1>3. seat[p].queue \in Seq(Frames!Frame) /\ Len(seat[p].queue) \in Nat
  BY <1>1, LenProperties DEF SeatType
<1> QED BY <1>1, <1>2, <1>3 DEF FrameBounds, SeatType

LEMMA DetachKeeps ==
    ASSUME FrameBounds, FramesInv, NEW p \in Participants, Frames!Detach(p)
    PROVE  FramesInv'
<1>1. call[p] = Frames!NoCall /\ seat' = [seat EXCEPT ![p] = Frames!NoSeat] /\ call' = [call EXCEPT ![p] = Frames!NoCall]
  BY SeatAndCall DEF Frames!Detach
<1>2. CallOf(Frames!NoSeat, Frames!NoCall, p)
  BY NoSeatNoCall DEF FrameBounds, CallOf
<1>3. Moves(p, Frames!NoSeat, Frames!NoCall) /\ Quiet(p, Frames!NoSeat, Frames!NoCall)
  BY <1>1, <1>2, NoSeatNoCall DEF Moves, Quiet
<1>4. closing' \in BOOLEAN /\ UNCHANGED <<gated, owed, got, seq, heard>>
  BY DEF Frames!Detach
<1>5. seq' \in {seq, seq + 1} /\ seq' <= MaxSeq /\ heard' \in 0..MaxHeard
  BY <1>4 DEF FrameBounds, FramesInv, Typed
<1> QED BY <1>3, <1>4, <1>5, QuietStep

LEMMA FramesStand ==
    ASSUME FrameBounds, FramesInv, UNCHANGED <<seq, heard, closing>>
    PROVE  seq' \in {seq, seq + 1} /\ seq' <= MaxSeq /\ heard' \in 0..MaxHeard /\ closing' \in BOOLEAN
  BY DEF FrameBounds, FramesInv, Typed

LEMMA AbortKeeps ==
    ASSUME FrameBounds, FramesInv, NEW p \in Participants, Frames!Abort(p, "participant"),
           \/ call[p] = Frames!NoCall /\ UNCHANGED call
           \/ call[p].pc \in {"spend", "over"} /\ Frames!Ends(p),
           UNCHANGED <<seq, heard, gated, closing, owed, got>>
    PROVE  FramesInv'
<1>1. PICK s : s = [seat[p] EXCEPT !.abort = "participant"]
  OBVIOUS
<1>2. seat[p] \in SeatType /\ CallOf(seat[p], call[p], p)
  BY SeatAndCall
<1>3. s \in SeatType /\ s.on = seat[p].on /\ s.abort = "participant" /\ s.used = seat[p].used /\ s.queue = seat[p].queue
  BY <1>1, <1>2 DEF SeatType
<1>4. seat' = [seat EXCEPT ![p] = s] /\ call' = [call EXCEPT ![p] = Frames!NoCall]
  BY <1>1, SeatAndCall DEF Frames!Abort, Frames!Ends
<1>5. CallOf(s, Frames!NoCall, p)
  BY <1>2, <1>3, NoSeatNoCall DEF CallOf
<1>6. Moves(p, s, Frames!NoCall) /\ Quiet(p, s, Frames!NoCall)
  BY <1>3, <1>4, <1>5, NoSeatNoCall DEF Moves, Quiet
<1> QED BY <1>6, FramesStand, QuietStep

\* The thread goes on with its call, and nobody's seat changes.
LEMMA CallKeeps ==
    ASSUME FrameBounds, FramesInv, NEW p \in Participants, NEW c \in CallType,
           call' = [call EXCEPT ![p] = c], UNCHANGED <<seat, gated, owed, got>>,
           c = Frames!NoCall \/ seat[p].on,
           c.pc \in {"spend", "send", "sent"} => c.id \in Ids,
           seat[p].used > Budget[p] => seat[p].abort # "none" /\ c = Frames!NoCall,
           call[p].pc # "over",
           c.pc = "sent" => seq' = seq + 1 /\ c.seq = seq',
           seq' \in {seq, seq + 1}, seq' <= MaxSeq, heard' \in 0..MaxHeard, closing' \in BOOLEAN
    PROVE  FramesInv'
<1>1. CallOf(seat[p], c, p)
  BY SeatAndCall DEF CallOf
<1>2. Moves(p, seat[p], c)
  BY <1>1, SeatAndCall DEF Moves
<1>3. Quiet(p, seat[p], c)
  BY DEF Quiet
<1> QED BY <1>2, <1>3, QuietStep

LEMMA RequestKeeps ==
    ASSUME FrameBounds, FramesInv, NEW p \in Participants, Frames!Send(p) \/ Frames!Read(p)
    PROVE  FramesInv'
<1>1. Frames!MayAsk(p) /\ UNCHANGED <<seat, seq, heard, gated, closing, owed, got>>
  BY DEF Frames!Send, Frames!Read
<1>2. seat[p].on /\ call[p] = Frames!NoCall /\ seat[p].abort = "none" /\ ~(seat[p].used > Budget[p])
  BY <1>1, SeatAndCall, NoSeatNoCall DEF Frames!MayAsk, CallOf
<1>3. call[p] \in CallType /\ call[p].pc = "idle"
  BY <1>2, NoSeatNoCall
<1>4. CASE Frames!Send(p)
  <2>1. PICK id \in View[p] : call' = [call EXCEPT ![p].pc = "spend", ![p].id = id]
    BY <1>4 DEF Frames!Send
  <2>2. PICK c : c = [call[p] EXCEPT !.pc = "spend", !.id = id]
    OBVIOUS
  <2>3. id \in Ids
    BY <2>1 DEF FrameBounds
  <2>4. c \in CallType /\ c.pc = "spend" /\ c.id \in Ids
    BY <2>2, <2>3, <1>3 DEF CallType, Pcs
  <2>5. call' = [call EXCEPT ![p] = c]
    BY <2>1, <2>2 DEF FramesInv, Typed
  <2> QED BY <1>1, <1>2, <1>3, <2>4, <2>5, FramesStand, CallKeeps
<1>5. CASE Frames!Read(p)
  <2>1. PICK want \in 1..Buffer : call' = [call EXCEPT ![p].pc = "read", ![p].want = want]
    BY <1>5 DEF Frames!Read
  <2>2. PICK c : c = [call[p] EXCEPT !.pc = "read", !.want = want]
    OBVIOUS
  <2>3. want \in 0..Buffer
    BY <2>1 DEF FrameBounds
  <2>4. c \in CallType /\ c.pc = "read"
    BY <2>2, <2>3, <1>3 DEF CallType, Pcs
  <2>5. call' = [call EXCEPT ![p] = c]
    BY <2>1, <2>2 DEF FramesInv, Typed
  <2> QED BY <1>1, <1>2, <1>3, <2>4, <2>5, FramesStand, CallKeeps
<1> QED BY <1>4, <1>5

\* A call under way is a seat's, and within its budget but at "over".
LEMMA UnderWay ==
    ASSUME FrameBounds, FramesInv, NEW p \in Participants, call[p].pc # "idle"
    PROVE  /\ seat[p].on /\ call[p] # Frames!NoCall
           /\ call[p].pc # "over" => ~(seat[p].used > Budget[p])
  BY SeatAndCall, NoSeatNoCall DEF CallOf

\* The call goes to its next step.
LEMMA GoesTo ==
    ASSUME FrameBounds, FramesInv, NEW p \in Participants, NEW pc \in Pcs, Frames!Goes(p, pc)
    PROVE  \E c \in CallType : /\ call' = [call EXCEPT ![p] = c] /\ c.pc = pc
                               /\ c.id = call[p].id /\ c.seq = call[p].seq /\ c.want = call[p].want
<1>1. PICK c : c = [call[p] EXCEPT !.pc = pc]
  OBVIOUS
<1>2. call[p] \in CallType
  BY SeatAndCall
<1>3. c \in CallType /\ c.pc = pc /\ c.id = call[p].id /\ c.seq = call[p].seq /\ c.want = call[p].want
  BY <1>1, <1>2 DEF CallType
<1>4. call' = [call EXCEPT ![p] = c]
  BY <1>1 DEF Frames!Goes, FramesInv, Typed
<1> QED BY <1>3, <1>4

LEMMA SpendKeeps ==
    ASSUME FrameBounds, FramesInv, NEW p \in Participants, Frames!SpendBudget(p)
    PROVE  FramesInv'
<1>1. call[p].pc = "spend" /\ UNCHANGED <<seq, heard, gated, closing, owed, got>>
  BY DEF Frames!SpendBudget
<1>2. CASE seat[p].used >= Budget[p] /\ Frames!Abort(p, "participant") /\ Frames!Ends(p)
  BY <1>1, <1>2, AbortKeeps
<1>3. CASE seat[p].used < Budget[p] /\ seat' = [seat EXCEPT ![p].used = @ + 1] /\ Frames!Goes(p, "send")
  <2>1. PICK c \in CallType : call' = [call EXCEPT ![p] = c] /\ c.pc = "send" /\ c.id = call[p].id
    BY <1>3, GoesTo DEF Pcs
  <2>2. PICK s : s = [seat[p] EXCEPT !.used = @ + 1]
    OBVIOUS
  <2>3. seat[p] \in SeatType /\ CallOf(seat[p], call[p], p) /\ Budget[p] \in Nat /\ Buffer \in Nat
    BY SeatAndCall
  <2>4. s \in SeatType /\ s.on = seat[p].on /\ s.abort = seat[p].abort /\ s.used = seat[p].used + 1 /\ s.queue = seat[p].queue
    BY <2>2, <2>3 DEF SeatType
  <2>5. seat' = [seat EXCEPT ![p] = s]
    BY <1>3, <2>2 DEF FramesInv, Typed
  <2>6. seat[p].on /\ seat[p].used \in Nat
    BY <1>1, UnderWay, SeatAndCall
  <2>7. CallOf(s, c, p)
    BY <1>1, <1>3, <2>1, <2>3, <2>4, <2>6 DEF CallOf
  <2>8. Moves(p, s, c) /\ Quiet(p, s, c)
    BY <1>1, <2>1, <2>4, <2>5, <2>7 DEF Moves, Quiet
  <2> QED BY <1>1, <2>8, FramesStand, QuietStep
<1> QED BY <1>2, <1>3 DEF Frames!SpendBudget

LEMMA SendsKeeps ==
    ASSUME FrameBounds, FramesInv, NEW p \in Participants, Frames!AdapterSends(p)
    PROVE  FramesInv'
<1>1. /\ call[p].pc = "send" /\ seq < MaxSeq /\ seq' = seq + 1
      /\ UNCHANGED <<seat, heard, gated, closing, owed, got>>
  BY DEF Frames!AdapterSends
<1>2. seat[p].on /\ ~(seat[p].used > Budget[p])
  BY <1>1, UnderWay
<1>3. seq' \in {seq, seq + 1} /\ seq' <= MaxSeq /\ heard' \in 0..MaxHeard /\ closing' \in BOOLEAN /\ seq' \in 1..MaxSeq
  BY <1>1 DEF FrameBounds, FramesInv, Typed
<1>4. call[p] \in CallType /\ call[p].id \in Ids
  BY <1>1, SeatAndCall DEF CallOf
<1>5. CASE call' = [call EXCEPT ![p].pc = "sent", ![p].seq = Frames!Number(1)]
  <2>0. PICK n : n = seq'
    OBVIOUS
  <2>1. PICK c : c = [call[p] EXCEPT !.pc = "sent", !.seq = n]
    OBVIOUS
  <2>2. c \in CallType /\ c.pc = "sent" /\ c.id = call[p].id /\ c.seq = n
    <3>1. n \in 0..MaxSeq
      BY <2>0, <1>3 DEF FrameBounds
    <3> QED BY <2>1, <3>1, <1>4 DEF CallType, Pcs
  <2>3. call' = [call EXCEPT ![p] = c]
    BY <1>1, <1>5, <2>0, <2>1 DEF FramesInv, Typed, Frames!Number
  <2> QED BY <1>1, <1>2, <1>3, <1>4, <2>0, <2>2, <2>3, CallKeeps
<1>6. CASE Frames!Ends(p)
  <2>1. call' = [call EXCEPT ![p] = Frames!NoCall]
    BY <1>6 DEF Frames!Ends
  <2> QED BY <1>1, <1>2, <1>3, <2>1, NoSeatNoCall, CallKeeps
<1>7. CASE Frames!Goes(p, "gate")
  <2>1. PICK c \in CallType : call' = [call EXCEPT ![p] = c] /\ c.pc = "gate"
    BY <1>7, GoesTo DEF Pcs
  <2> QED BY <1>1, <1>2, <1>3, <2>1, CallKeeps
<1> QED BY <1>5, <1>6, <1>7 DEF Frames!AdapterSends

LEMMA PendingKeeps ==
    ASSUME FrameBounds, FramesInv, NEW p \in Participants, Frames!Pending(p)
    PROVE  FramesInv'
<1>1. call[p].pc = "read" /\ UNCHANGED <<seat, seq, heard, gated, closing, owed, got>>
  BY DEF Frames!Pending
<1>2. PICK pc \in {"draw", "take"} : Frames!Goes(p, pc)
  BY DEF Frames!Pending
<1>3. PICK c \in CallType : call' = [call EXCEPT ![p] = c] /\ c.pc = pc
  BY <1>2, GoesTo DEF Pcs
<1>4. seat[p].on /\ ~(seat[p].used > Budget[p])
  BY <1>1, UnderWay
<1> QED BY <1>1, <1>2, <1>3, <1>4, FramesStand, CallKeeps

LEMMA DrawKeeps ==
    ASSUME FrameBounds, FramesInv, NEW p \in Participants, Frames!Draw(p)
    PROVE  FramesInv'
<1>1. call[p].pc = "draw" /\ UNCHANGED <<seat, seq, gated, closing, owed, got>>
  BY DEF Frames!Draw
<1>2. seat[p].on /\ ~(seat[p].used > Budget[p])
  BY <1>1, UnderWay
<1>3. seq' \in {seq, seq + 1} /\ seq' <= MaxSeq /\ closing' \in BOOLEAN
  BY <1>1 DEF FrameBounds, FramesInv, Typed
<1>4. ASSUME NEW k \in 0..call[p].want, NEW ids \in [1..k -> Ids], heard + k <= MaxHeard, heard' = heard + k,
             call' = [call EXCEPT ![p].pc = "fan",
                   ![p].drawn = [i \in 1..k |-> [id |-> ids[i], wire |-> heard + i]]]
      PROVE  FramesInv'
  <2>1. PICK d : d = [i \in 1..k |-> [id |-> ids[i], wire |-> heard + i]]
    OBVIOUS
  <2>2. call[p] \in CallType /\ k \in Nat
    BY SeatAndCall, <1>4 DEF FrameBounds, CallType
  <2>3. d \in Seq(Drawn)
    <3>1. \A i \in 1..k : [id |-> ids[i], wire |-> heard + i] \in Drawn
      BY <1>4, <2>2 DEF FrameBounds, FramesInv, Typed, Drawn
    <3>2. d \in [1..k -> Drawn]
      BY <2>1, <3>1
    <3> QED BY <2>2, <3>2, SeqDef
  <2>4. PICK c : c = [call[p] EXCEPT !.pc = "fan", !.drawn = d]
    OBVIOUS
  <2>5. c \in CallType /\ c.pc = "fan"
    BY <2>2, <2>3, <2>4 DEF CallType, Pcs
  <2>6. call' = [call EXCEPT ![p] = c]
    BY <1>4, <2>1, <2>4 DEF FramesInv, Typed
  <2>7. heard' \in 0..MaxHeard
    BY <1>4, <2>2 DEF FrameBounds, FramesInv, Typed
  <2> QED BY <1>1, <1>2, <1>3, <2>5, <2>6, <2>7, CallKeeps
<1>5. CASE Frames!Goes(p, "gate") /\ UNCHANGED heard
  <2>1. PICK c \in CallType : call' = [call EXCEPT ![p] = c] /\ c.pc = "gate"
    BY <1>5, GoesTo DEF Pcs
  <2>2. heard' \in 0..MaxHeard
    BY <1>5 DEF FramesInv, Typed
  <2> QED BY <1>1, <1>2, <1>3, <2>1, <2>2, CallKeeps
<1> QED BY <1>4, <1>5 DEF Frames!Draw

\* The bus is gated, by a call that ends or by a participant that has none.
LEMMA GateKeeps ==
    ASSUME FrameBounds, FramesInv, NEW p \in Participants, Frames!GateBus, call' = [call EXCEPT ![p] = Frames!NoCall],
           UNCHANGED <<seq, heard, closing, owed, got>>
    PROVE  FramesInv'
<1>0. gated' = TRUE
  BY DEF Frames!GateBus
<1>1. ASSUME NEW q \in Participants
      PROVE  /\ seat'[q] \in SeatType /\ seat'[q].on = seat[q].on /\ seat'[q].used = seat[q].used
             /\ seat'[q].queue = seat[q].queue /\ (seat[q].on => seat'[q].abort = "bus")
             /\ (~seat[q].on => seat'[q] = seat[q])
  <2>1. PICK s : s = seat[q]
    OBVIOUS
  <2>2. seat'[q] = IF s.on THEN [s EXCEPT !.abort = "bus"] ELSE s
    BY <1>1, <2>1 DEF Frames!GateBus
  <2>3. s \in SeatType
    BY <1>1, <2>1, SeatAndCall
  <2> QED BY <2>1, <2>2, <2>3 DEF SeatType
<1>2. call' \in [Participants -> CallType] /\ call'[p] = Frames!NoCall /\ \A q \in Participants : q # p => call'[q] = call[q]
  BY NoSeatNoCall DEF FramesInv, Typed
<1>3. Typed'
  <2>1. seat' \in [Participants -> SeatType]
    BY <1>1 DEF Frames!GateBus
  <2> QED BY <1>0, <1>2, <2>1 DEF FramesInv, Typed
<1>4. Calls'
  <2> SUFFICES ASSUME NEW q \in Participants PROVE CallOf(seat'[q], call'[q], q)
    BY DEF Calls
  <2>1. CallOf(seat[q], call[q], q)
    BY SeatAndCall
  <2>2. CASE q = p
    BY <2>1, <2>2, <1>1, <1>2, NoSeatNoCall DEF CallOf
  <2>3. CASE q # p
    BY <2>1, <2>3, <1>1, <1>2 DEF CallOf
  <2> QED BY <2>2, <2>3
<1>5. \A q \in Seated' : q \in Seated /\ Seen(q)' = Seen(q) /\ seat'[q].abort = "bus"
  BY <1>1 DEF Seated, Seen
<1>6. LossReported' /\ IncidentReachesAll'
  BY <1>5 DEF LossReported, IncidentReachesAll
<1>7. Numbered'
  <2>1. \A q \in Seated' : q \in Seated /\ Thin(Seen(q)', Seen(q))
    <3>1. \A q \in Seated : Seen(q) \in Seq(Frames!Frame)
      BY SeenTyped DEF FramesInv, Seated
    <3> QED BY <1>5, <3>1, ThinSame
  <2>2. Sent' \subseteq Sent
    BY <1>2, NoSeatNoCall DEF Sent
  <2>3. seq <= seq'
    BY DEF FrameBounds, FramesInv, Typed
  <2> QED BY <1>3, <2>1, <2>2, <2>3, NumberedKept DEF FramesInv
<1> QED BY <1>3, <1>4, <1>6, <1>7 DEF FramesInv

LEMMA IncidentOfKeeps ==
    ASSUME FrameBounds, FramesInv, NEW p \in Participants, Frames!HandleIncident(p) \/ Frames!RaiseBusIncident(p) \/ Frames!BudgetExhausted(p)
    PROVE  FramesInv'
<1>1. CASE Frames!HandleIncident(p)
  <2>1. call[p] = Frames!NoCall /\ UNCHANGED <<call, seq, heard, closing, owed, got>>
    BY <1>1 DEF Frames!HandleIncident
  <2>2. call' = [call EXCEPT ![p] = Frames!NoCall]
    BY <2>1, SeatAndCall
  <2>3. CASE Frames!GateBus
    BY <2>1, <2>2, <2>3, GateKeeps
  <2>4. CASE Frames!Abort(p, "participant") /\ UNCHANGED gated
    BY <2>1, <2>4, AbortKeeps
  <2> QED BY <1>1, <2>3, <2>4 DEF Frames!HandleIncident
<1>2. CASE Frames!RaiseBusIncident(p)
  BY <1>2, GateKeeps DEF Frames!RaiseBusIncident, Frames!Ends
<1>3. CASE Frames!BudgetExhausted(p)
  BY <1>3, AbortKeeps DEF Frames!BudgetExhausted
<1> QED BY <1>1, <1>2, <1>3

LEMMA Chained ==
    ASSUME NEW s \in Seq(Frames!Frame), NEW t \in Seq(Frames!Frame), NEW u \in Seq(Frames!Frame)
    PROVE  s \o (t \o u) = (s \o t) \o u
  BY ConcatAssociative

LEMMA PassOnKeeps ==
    ASSUME FrameBounds, FramesInv, NEW p \in Participants, NEW frames \in Seq(Frames!Frame), NEW to, Frames!PassOn(frames, to),
           NEW c \in CallType, call' = [call EXCEPT ![p] = c], c = Frames!NoCall \/ c.pc = "take",
           call[p].pc \in {"sent", "fan"}, seq <= seq', seq' \in 0..MaxSeq,
           UNCHANGED <<heard, gated, closing, got>>,
           Fresh(Seated, SeenBy, seq, seq', Sent', frames)
    PROVE  FramesInv'
<1>0. Typed
  BY DEF FramesInv
<1>1. /\ seat' \in [Participants -> SeatType] /\ owed' \in [Participants -> Seq(Frames!Frame)]
      /\ \A q \in Participants :
            /\ seat'[q].on = seat[q].on /\ seat'[q].used = seat[q].used
            /\ seat[q].abort # "none" => seat'[q] = seat[q]
            /\ Len(seat'[q].queue) <= Len(seat[q].queue) \/ Len(seat'[q].queue) <= Frames!QueueBound(seat[q], q)
            /\ \E b : /\ Thin(b, frames) /\ seat'[q].queue = seat[q].queue \o b
                      /\ seat'[q].abort = "none" => owed'[q] = owed[q] \o b
  BY <1>0, PassOnOf
<1>2. call' \in [Participants -> CallType] /\ call'[p] = c /\ \A q \in Participants : q # p => call'[q] = call[q]
  BY DEF FramesInv, Typed
<1>3. Typed'
  BY <1>1, <1>2 DEF FramesInv, Typed
<1>4. Calls'
  <2> SUFFICES ASSUME NEW q \in Participants PROVE CallOf(seat'[q], call'[q], q)
    BY DEF Calls
  <2>1. /\ CallOf(seat[q], call[q], q) /\ seat[q] \in SeatType /\ Len(seat[q].queue) \in Nat
        /\ Budget[q] \in Nat /\ Buffer \in Nat
    BY SeatAndCall
  <2>2. Frames!QueueBound(seat[q], q) \in Nat /\ Frames!QueueBound(seat[q], q) <= Buffer /\ Frames!QueueBound(seat[q], q) <= Budget[q]
    BY <2>1, QueueBoundOf
  <2>3. Len(seat'[q].queue) \in Nat
    BY <1>1, LenProperties DEF SeatType
  <2>4. Len(seat'[q].queue) <= Buffer /\ Len(seat'[q].queue) <= Budget[q]
    <3>1. CASE Len(seat'[q].queue) <= Len(seat[q].queue)
      BY <2>1, <2>3, <3>1 DEF CallOf
    <3>2. CASE Len(seat'[q].queue) <= Frames!QueueBound(seat[q], q)
      BY <2>1, <2>2, <2>3, <3>2
    <3> QED BY <3>1, <3>2, <1>1
  <2>5. /\ seat'[q].on = seat[q].on /\ seat'[q].used = seat[q].used
        /\ seat[q].abort # "none" => seat'[q] = seat[q]
    BY <1>1
  <2>6. CASE q # p
    BY <2>1, <2>4, <2>5, <2>6, <1>2 DEF CallOf
  <2>7. CASE q = p
    <3>1. seat[p].on /\ ~(seat[p].used > Budget[p]) /\ seat[p].used <= Budget[p] + Buffer
      BY UnderWay, SeatAndCall DEF CallOf
    <3>2. c.pc \notin {"spend", "send", "sent"}
      BY NoSeatNoCall
    <3> QED BY <2>4, <2>5, <2>7, <3>1, <3>2, <1>2 DEF CallOf
  <2> QED BY <2>6, <2>7
<1>5. Seated' = Seated
  BY <1>1 DEF Seated
<1>6. LossReported'
  <2> SUFFICES ASSUME NEW q \in Seated, seat'[q].abort = "none", call'[q].pc # "over"
               PROVE  Seen(q)' = owed'[q]
    BY <1>5 DEF LossReported
  <2>1. q \in Participants
    BY DEF Seated
  <2>2. seat[q].abort = "none" /\ call[q].pc # "over"
    BY <1>1, <1>2, <2>1
  <2>3. PICK b : Thin(b, frames) /\ seat'[q].queue = seat[q].queue \o b /\ owed'[q] = owed[q] \o b
    BY <1>1, <2>1
  <2>4. b \in Seq(Frames!Frame) /\ got[q] \in Seq(Frames!Frame) /\ seat[q].queue \in Seq(Frames!Frame)
    BY <2>1, <2>3, SeatAndCall DEF Thin, Left, FramesInv, Typed
  <2>5. got[q] \o (seat[q].queue \o b) = (got[q] \o seat[q].queue) \o b
    BY <2>4, Chained
  <2>6. got[q] \o seat[q].queue = owed[q]
    BY <2>2 DEF FramesInv, LossReported, Seen
  <2> QED BY <2>3, <2>5, <2>6 DEF Seen
<1>7. IncidentReachesAll'
  <2> SUFFICES ASSUME gated, NEW q \in Seated PROVE seat'[q].abort # "none"
    BY <1>5 DEF IncidentReachesAll
  <2>1. seat[q].abort # "none" /\ q \in Participants
    BY DEF FramesInv, IncidentReachesAll, Seated
  <2> QED BY <1>1, <2>1
<1>8. Numbered'
  <2>1. PICK S : S = Seated
    OBVIOUS
  <2>2. PICK seen, more : seen = SeenBy /\ more = SeenBy'
    OBVIOUS
  <2>3. PICK n, m : n = seq /\ m = seq'
    OBVIOUS
  <2>4. PICK T, U : T = Sent /\ U = Sent'
    OBVIOUS
  <2> DEFINE add == [q \in Participants |->
                        CHOOSE b : Thin(b, frames) /\ seat'[q].queue = seat[q].queue \o b]
  <2>5. ASSUME NEW q \in S
        PROVE  seen[q] \in Seq(Frames!Frame) /\ Grow(seen[q]) /\ Thin(add[q], frames) /\ more[q] = seen[q] \o add[q]
    <3>1. q \in Participants /\ q \in Seated
      BY <2>1, <2>5 DEF Seated
    <3>2. seen[q] = got[q] \o seat[q].queue /\ more[q] = got[q] \o seat'[q].queue
      BY <2>2, <3>1 DEF SeenBy, Seen
    <3>3. \E b : Thin(b, frames) /\ seat'[q].queue = seat[q].queue \o b
      BY <1>1, <3>1
    <3>4. Thin(add[q], frames) /\ seat'[q].queue = seat[q].queue \o add[q]
      BY <3>1, <3>3
    <3> HIDE DEF add
    <3>5. add[q] \in Seq(Frames!Frame) /\ got[q] \in Seq(Frames!Frame) /\ seat[q].queue \in Seq(Frames!Frame)
      BY <3>1, <3>4, SeatAndCall DEF Thin, Left, FramesInv, Typed
    <3>6. got[q] \o (seat[q].queue \o add[q]) = (got[q] \o seat[q].queue) \o add[q]
      BY <3>5, Chained
    <3>7. seen[q] \in Seq(Frames!Frame)
      BY <3>2, <3>5, ConcatProperties
    <3>8. Grow(seen[q])
      BY <2>2, <3>1 DEF FramesInv, Numbered
    <3> QED BY <3>2, <3>4, <3>6, <3>7, <3>8
  <2> HIDE DEF add
  <2>6. Adds(S, seen, more, add, frames)
    BY <2>5 DEF Adds
  <2>7. n \in Nat /\ m \in Nat /\ n <= m
    BY <2>3 DEF FrameBounds, FramesInv, Typed
  <2>8. U \subseteq T
    <3>1. \A q \in Participants : call'[q].pc = "sent" => call'[q] = call[q]
      BY <1>2, NoSeatNoCall
    <3> QED BY <2>4, <3>1 DEF Sent
  <2>9. Below(S, seen, n, T) /\ Unique(S, seen) /\ Fresh(S, seen, n, m, U, frames)
    BY <2>1, <2>2, <2>3, <2>4 DEF FramesInv, Numbered
  <2>10. Below(S, more, m, U) /\ Unique(S, more) /\ \A q \in S : Grow(more[q])
    BY <2>6, <2>7, <2>8, <2>9, NewOnes
  <2>11. Below(Seated, SeenBy, seq, Sent)' /\ Unique(Seated, SeenBy)' /\ (\A q \in Seated : Grow(SeenBy[q]))'
    BY <2>10, <2>1, <2>2, <2>3, <2>4, <1>5
  <2> QED BY <2>11 DEF Numbered
<1> QED BY <1>3, <1>4, <1>6, <1>7, <1>8 DEF FramesInv

LEMMA DeliverKeeps ==
    ASSUME FrameBounds, FramesInv, NEW p \in Participants, Frames!Deliver(p)
    PROVE  FramesInv'
<1> DEFINE f == [seq |-> call[p].seq, id |-> call[p].id, wire |-> 0]
<1>1. /\ call[p].pc = "sent" /\ Frames!PassOn(<<f>>, Participants \ {p}) /\ call' = [call EXCEPT ![p] = Frames!NoCall]
      /\ UNCHANGED <<seq, heard, gated, closing, got>>
  BY DEF Frames!Deliver, Frames!Ends
<1>2. <<p, call[p].seq>> \in Sent
  BY <1>1 DEF Sent
<1>3. call[p].seq \in 1..seq
  BY <1>2 DEF FramesInv, Numbered, Below
<1>4. f \in Frames!Frame
  <2>1. call[p].id \in Ids
    BY <1>1, SeatAndCall DEF CallOf
  <2>2. call[p].seq \in 1..MaxSeq
    BY <1>3 DEF FrameBounds, FramesInv, Typed
  <2> QED BY <2>1, <2>2 DEF FrameBounds, Frames!Frame
<1>5. PICK g : g = f
  OBVIOUS
<1>6. g.seq = call[p].seq /\ g.wire = 0 /\ g \in Frames!Frame /\ Frames!PassOn(<<g>>, Participants \ {p})
  BY <1>1, <1>4, <1>5
<1>7. PICK frames : frames = <<g>>
  OBVIOUS
<1>8. frames \in Seq(Frames!Frame) /\ Len(frames) = 1 /\ frames[1] = g
  BY <1>6, <1>7
<1>9. \A x \in Sent' : x[2] # g.seq
  <2> SUFFICES ASSUME NEW x \in Sent', x[2] = g.seq PROVE FALSE
    OBVIOUS
  <2>1. PICK q \in Participants : call'[q].pc = "sent" /\ x = <<q, call'[q].seq>>
    BY DEF Sent
  <2>2. q # p /\ call'[q] = call[q]
    BY <1>1, <2>1, NoSeatNoCall DEF FramesInv, Typed
  <2>3. x \in Sent
    BY <2>1, <2>2 DEF Sent
  <2>4. x = <<p, call[p].seq>>
    <3>1. \A y \in Sent : x[2] = y[2] => x = y
      BY <2>3 DEF FramesInv, Numbered, Below
    <3> QED BY <3>1, <1>2, <1>6
  <2> QED BY <2>1, <2>2, <2>4
<1>10. \A q \in Seated : \A k \in 1..Len(SeenBy[q]) : SeenBy[q][k].seq # g.seq
  <2>1. \A q \in Seated : \A k \in 1..Len(SeenBy[q]) : \A x \in Sent : x[2] # SeenBy[q][k].seq
    BY DEF FramesInv, Numbered, Below
  <2> QED BY <2>1, <1>2, <1>6
<1>11. seq' = seq /\ seq \in Nat /\ seq <= seq /\ seq' \in 0..MaxSeq
  BY <1>1 DEF FrameBounds, FramesInv, Typed
<1>12. Fresh(Seated, SeenBy, seq, seq', Sent', frames)
  <2>1. ASSUME NEW i \in 1..Len(frames)
        PROVE  i = 1 /\ frames[i] = g
    BY <1>8
  <2>2. g.seq <= seq'
    BY <1>3, <1>6, <1>11
  <2>3. \A i, j \in 1..Len(frames) : ~(i < j)
    BY <1>8
  <2> QED BY <2>1, <2>2, <2>3, <1>6, <1>9, <1>10 DEF Fresh
<1>13. Frames!PassOn(frames, Participants \ {p})
  BY <1>6, <1>7
<1> HIDE DEF f
<1> QED BY <1>1, <1>8, <1>11, <1>12, <1>13, NoSeatNoCall, PassOnKeeps

LEMMA FanOutKeeps ==
    ASSUME FrameBounds, FramesInv, NEW p \in Participants, Frames!FanOut(p)
    PROVE  FramesInv'
<1>1. PICK drawn : drawn = call[p].drawn
  OBVIOUS
<1> DEFINE batch == [i \in DOMAIN drawn |-> [seq |-> Frames!Number(i), id |-> drawn[i].id, wire |-> drawn[i].wire]]
<1>2. /\ call[p].pc = "fan" /\ seq + Len(drawn) <= MaxSeq /\ seq' = seq + Len(drawn)
      /\ Frames!PassOn(batch, Participants)
      /\ call' = [call EXCEPT ![p].pc = "take", ![p].drawn = <<>>]
      /\ UNCHANGED <<heard, gated, closing, got>>
  BY <1>1 DEF Frames!FanOut
<1>3. call[p] \in CallType /\ drawn \in Seq(Drawn) /\ Len(drawn) \in Nat /\ DOMAIN drawn = 1..Len(drawn)
  <2>1. call[p] \in CallType /\ drawn \in Seq(Drawn)
    BY <1>1, SeatAndCall DEF CallType
  <2> QED BY <2>1, LenProperties
<1>4. PICK frames : frames = batch
  OBVIOUS
<1>5. \A i \in 1..Len(drawn) : frames[i] = [seq |-> seq + i, id |-> drawn[i].id, wire |-> drawn[i].wire]
  BY <1>3, <1>4 DEF Frames!Number
<1>6. \A i \in 1..Len(drawn) : frames[i] \in Frames!Frame /\ frames[i].seq = seq + i
  <2> SUFFICES ASSUME NEW i \in 1..Len(drawn) PROVE frames[i] \in Frames!Frame /\ frames[i].seq = seq + i
    OBVIOUS
  <2>1. drawn[i] \in Drawn
    BY <1>3, ElementOfSeq
  <2>2. seq + i \in 1..MaxSeq
    BY <1>2, <1>3 DEF FrameBounds, FramesInv, Typed
  <2>3. PICK d, n : d = drawn[i] /\ n = seq + i
    OBVIOUS
  <2>4. frames[i] = [seq |-> n, id |-> d.id, wire |-> d.wire]
    BY <1>5, <2>3
  <2>5. d.id \in Ids /\ d.wire \in 0..MaxHeard /\ n \in 1..MaxSeq
    BY <2>1, <2>2, <2>3 DEF FrameBounds, Drawn
  <2>6. frames[i] \in Frames!Frame /\ frames[i].seq = n
    BY <2>4, <2>5 DEF Frames!Frame
  <2> QED BY <2>3, <2>6
<1>7. frames \in Seq(Frames!Frame) /\ Len(frames) = Len(drawn)
  <2>1. frames \in [1..Len(drawn) -> Frames!Frame]
    BY <1>3, <1>4, <1>6
  <2>2. frames \in Seq(Frames!Frame)
    BY <1>3, <2>1, SeqDef
  <2>3. DOMAIN frames = 1..Len(frames) /\ Len(frames) \in Nat /\ DOMAIN frames = 1..Len(drawn)
    BY <2>1, <2>2, LenProperties
  <2>4. Len(frames) = Len(drawn)
    <3>1. PICK a, b \in Nat : a = Len(frames) /\ b = Len(drawn)
      BY <2>3, <1>3
    <3>2. 1..a = 1..b
      BY <2>3, <3>1
    <3>3. (a = 0 => ~(1 \in 1..a)) /\ (a # 0 => a \in 1..a) /\ (b # 0 => b \in 1..b)
      BY <3>1
    <3>4. a <= b /\ b <= a
      BY <3>1, <3>2, <3>3
    <3> QED BY <3>1, <3>4
  <2> QED BY <2>2, <2>4
<1>8. seq \in Nat /\ seq' \in Nat /\ seq <= seq' /\ seq' \in 0..MaxSeq
  BY <1>2, <1>3 DEF FrameBounds, FramesInv, Typed
<1>9. PICK c : c = [call[p] EXCEPT !.pc = "take", !.drawn = <<>>]
  OBVIOUS
<1>10. c \in CallType /\ c.pc = "take"
  <2>1. \A S : <<>> \in Seq(S)
    BY EmptySeq
  <2> QED BY <2>1, <1>3, <1>9 DEF CallType, Pcs
<1>11. call' = [call EXCEPT ![p] = c]
  BY <1>2, <1>9 DEF FramesInv, Typed
<1>12. \A x \in Sent' : x[2] <= seq /\ x[2] \in Nat
  <2> SUFFICES ASSUME NEW x \in Sent' PROVE x[2] <= seq /\ x[2] \in Nat
    OBVIOUS
  <2>1. PICK q \in Participants : call'[q].pc = "sent" /\ x = <<q, call'[q].seq>>
    BY DEF Sent
  <2>2. q # p /\ call'[q] = call[q]
    BY <1>10, <1>11, <2>1 DEF FramesInv, Typed
  <2>3. x \in Sent
    BY <2>1, <2>2 DEF Sent
  <2>4. x[2] \in 1..seq
    BY <2>3 DEF FramesInv, Numbered, Below
  <2> QED BY <2>4, <1>8
<1>13. Fresh(Seated, SeenBy, seq, seq', Sent', frames)
  <2>1. ASSUME NEW i \in 1..Len(frames)
        PROVE  frames[i].seq = seq + i /\ i \in Nat /\ i # 0 /\ seq + i <= seq' /\ seq + i > seq
    BY <1>2, <1>3, <1>6, <1>7, <1>8
  <2>2. ASSUME NEW i \in 1..Len(frames), NEW x \in Sent'
        PROVE  x[2] # frames[i].seq
    <3>1. x[2] <= seq /\ x[2] \in Nat /\ frames[i].seq = seq + i /\ seq + i > seq /\ i \in Nat
      BY <1>12, <2>1, <2>2
    <3> QED BY <3>1, <1>8
  <2>3. ASSUME NEW i \in 1..Len(frames), NEW j \in 1..Len(frames), i < j
        PROVE  frames[i].seq < frames[j].seq
    BY <2>1, <2>3, <1>8
  <2> QED BY <2>1, <2>2, <2>3 DEF Fresh
<1>14. Frames!PassOn(frames, Participants)
  BY <1>2, <1>4
<1> HIDE DEF batch
<1> QED BY <1>2, <1>7, <1>8, <1>10, <1>11, <1>13, <1>14, PassOnKeeps

\* The shape of a step that touches one participant only, and hands or takes
\* frames: what is left of the others.
LEMMA OthersStay ==
    ASSUME FrameBounds, FramesInv, NEW p \in Participants, NEW s, NEW c, NEW o \in Seq(Frames!Frame), NEW g \in Seq(Frames!Frame), Moves(p, s, c),
           owed' = [owed EXCEPT ![p] = o], got' = [got EXCEPT ![p] = g],
           UNCHANGED <<seq, heard, gated, closing>>,
           c.pc # "sent",
           s.on => /\ g \o s.queue = <<>> \/ (seat[p].on /\ Thin(g \o s.queue, Seen(p)))
                   /\ s.abort = "none" /\ c.pc # "over" => g \o s.queue = o
                   /\ gated => s.abort # "none"
    PROVE  FramesInv'
<1>1. Typed'
  BY DEF FramesInv, Typed, Moves
<1>2. Calls'
  BY DEF FramesInv, Typed, Calls, Moves
<1>3. \A q \in Participants : q # p => seat'[q] = seat[q] /\ call'[q] = call[q] /\ owed'[q] = owed[q] /\ got'[q] = got[q]
  BY DEF FramesInv, Typed, Moves
<1>4. seat'[p] = s /\ call'[p] = c /\ owed'[p] = o /\ got'[p] = g
  BY DEF FramesInv, Typed, Moves
<1>5. \A q \in Participants : Seen(q)' = got'[q] \o seat'[q].queue
  BY DEF Seen
<1>6. LossReported'
  <2> SUFFICES ASSUME NEW q \in Participants, seat'[q].on, seat'[q].abort = "none", call'[q].pc # "over"
               PROVE  Seen(q)' = owed'[q]
    BY DEF LossReported, Seated
  <2>1. CASE q = p
    BY <2>1, <1>4, <1>5
  <2>2. CASE q # p
    <3>1. Seen(q) = owed[q]
      BY <1>3, <2>2 DEF FramesInv, LossReported, Seated
    <3> QED BY <3>1, <2>2, <1>3, <1>5 DEF Seen
  <2> QED BY <2>1, <2>2
<1>7. IncidentReachesAll'
  <2> SUFFICES ASSUME gated, NEW q \in Participants, seat'[q].on PROVE seat'[q].abort # "none"
    BY DEF IncidentReachesAll, Seated
  <2>1. CASE q = p
    BY <2>1, <1>4
  <2>2. CASE q # p
    BY <2>2, <1>3 DEF FramesInv, IncidentReachesAll, Seated
  <2> QED BY <2>1, <2>2
<1>8. Numbered'
  <2>1. \A q \in Seated' : Seen(q)' = <<>> \/ (q \in Seated /\ Thin(Seen(q)', Seen(q)))
    <3> SUFFICES ASSUME NEW q \in Participants, seat'[q].on
                 PROVE  Seen(q)' = <<>> \/ (seat[q].on /\ Thin(Seen(q)', Seen(q)))
      BY DEF Seated
    <3>1. CASE q = p
      BY <3>1, <1>4, <1>5
    <3>2. CASE q # p
      <4>1. Seen(q)' = Seen(q) /\ seat[q].on
        BY <3>2, <1>3, <1>5 DEF Seen
      <4>2. Thin(Seen(q), Seen(q))
        BY SeenTyped, ThinSame DEF FramesInv
      <4> QED BY <4>1, <4>2
    <3> QED BY <3>1, <3>2
  <2>2. Sent' \subseteq Sent
    <3>1. \A q \in Participants : call'[q].pc = "sent" => call'[q] = call[q]
      BY <1>3, <1>4
    <3> QED BY <3>1 DEF Sent
  <2>3. seq <= seq'
    BY DEF FrameBounds, FramesInv, Typed
  <2> QED BY <1>1, <2>1, <2>2, <2>3, NumberedKept DEF FramesInv
<1> QED BY <1>1, <1>2, <1>6, <1>7, <1>8 DEF FramesInv

LEMMA AttachOfKeeps ==
    ASSUME FrameBounds, FramesInv, NEW p \in Participants, Frames!Attach(p)
    PROVE  FramesInv'
<1>1. /\ ~seat[p].on /\ ~gated
      /\ owed' = [owed EXCEPT ![p] = <<>>] /\ got' = [got EXCEPT ![p] = <<>>]
      /\ UNCHANGED <<call, seq, heard, gated, closing>>
  BY DEF Frames!Attach, Frames!MayAttach
<1>2. PICK s : s = [Frames!NoSeat EXCEPT !.on = TRUE]
  OBVIOUS
<1>3. s \in SeatType /\ s.on /\ s.queue = <<>> /\ s.used = 0 /\ s.abort = "none"
  BY <1>2, NoSeatNoCall DEF Frames!NoSeat, SeatType
<1>4. <<>> \in Seq(Frames!Frame) /\ Len(<<>>) = 0
  BY EmptySeq
<1>5. call[p] = Frames!NoCall
  BY <1>1, SeatAndCall DEF CallOf
<1>6. CallOf(s, Frames!NoCall, p)
  BY <1>3, <1>4, NoSeatNoCall DEF FrameBounds, CallOf
<1>7. Moves(p, s, Frames!NoCall)
  <2>1. seat' = [seat EXCEPT ![p] = s]
    BY <1>2 DEF Frames!Attach
  <2>2. call' = [call EXCEPT ![p] = Frames!NoCall]
    BY <1>1, <1>5, SeatAndCall
  <2> QED BY <1>3, <1>6, <2>1, <2>2, NoSeatNoCall DEF Moves
<1>8. <<>> \o s.queue = <<>>
  BY <1>3, <1>4, ConcatEmptySeq
<1> QED BY <1>1, <1>3, <1>4, <1>7, <1>8, NoSeatNoCall, OthersStay

LEMMA TakeKeeps ==
    ASSUME FrameBounds, FramesInv, NEW p \in Participants, Frames!Take(p)
    PROVE  FramesInv'
<1>1. PICK queue : queue = seat[p].queue
  OBVIOUS
<1>2. PICK n : n = IF Len(queue) < call[p].want THEN Len(queue) ELSE call[p].want
  OBVIOUS
<1>3. PICK rest : rest = SubSeq(queue, n + 1, Len(queue))
  OBVIOUS
<1>4. PICK head : head = SubSeq(queue, 1, n)
  OBVIOUS
<1>5. /\ call[p].pc = "take" /\ UNCHANGED <<seq, heard, gated, closing, owed>>
      /\ seat' = [seat EXCEPT ![p].queue = rest, ![p].used = @ + n]
      /\ IF seat[p].used + n > Budget[p] THEN Frames!Goes(p, "over") /\ UNCHANGED got
         ELSE Frames!Ends(p) /\ got' = [got EXCEPT ![p] = @ \o head]
  BY <1>1, <1>2, <1>3, <1>4 DEF Frames!Take
<1>6. /\ seat[p].on /\ ~(seat[p].used > Budget[p]) /\ Budget[p] \in Nat /\ Buffer \in Nat /\ seat[p].used \in Nat
      /\ seat[p] \in SeatType /\ call[p] \in CallType /\ CallOf(seat[p], call[p], p)
      /\ queue \in Seq(Frames!Frame) /\ Len(queue) \in Nat
  BY <1>1, <1>5, UnderWay, SeatAndCall
<1>7. n \in Nat /\ n <= Len(queue) /\ n <= Buffer
  <2>1. call[p].want \in 0..Buffer
    BY <1>6 DEF CallType
  <2> QED BY <1>2, <1>6, <2>1
<1>8. /\ rest \in Seq(Frames!Frame) /\ Len(rest) <= Len(queue) /\ Len(rest) \in Nat
      /\ head \in Seq(Frames!Frame) /\ head \o rest = queue
  <2>1. \A i \in Int : i \in 1..Len(queue) => queue[i] \in Frames!Frame
    BY <1>6, ElementOfSeq
  <2>2. rest \in Seq(Frames!Frame) /\ Len(rest) = IF n + 1 <= Len(queue) THEN Len(queue) - (n + 1) + 1 ELSE 0
    <3>1. \A i \in (n + 1)..Len(queue) : queue[i] \in Frames!Frame
      BY <1>6, <1>7, <2>1
    <3>2. n + 1 \in Int /\ Len(queue) \in Int
      BY <1>6, <1>7
    <3> QED BY <3>1, <3>2, <1>3, SubSeqProperties
  <2>3. head \in Seq(Frames!Frame)
    <3>1. \A i \in 1..n : queue[i] \in Frames!Frame
      BY <1>6, <1>7, <2>1
    <3> QED BY <3>1, <1>4, <1>7, SubSeqProperties
  <2>4. head \o rest = queue
    <3>1. 1 \in 1..Len(queue) + 1 /\ n \in 1 - 1..Len(queue) /\ Len(queue) \in n..Len(queue)
      BY <1>6, <1>7
    <3>2. SubSeq(queue, 1, n) \o SubSeq(queue, n + 1, Len(queue)) = SubSeq(queue, 1, Len(queue))
      BY <1>6, <3>1, ConcatAdjacentSubSeq
    <3> QED BY <1>3, <1>4, <1>6, <3>2, SubSeqFull
  <2> QED BY <2>2, <2>3, <2>4, <1>6, <1>7
<1>9. PICK s : s = [seat[p] EXCEPT !.queue = rest, !.used = @ + n]
  OBVIOUS
<1>10. s \in SeatType /\ s.on /\ s.queue = rest /\ s.used = seat[p].used + n /\ s.abort = seat[p].abort
  <2>1. PICK k : k = seat[p].used + n
    OBVIOUS
  <2>2. s = [seat[p] EXCEPT !.queue = rest, !.used = k]
    BY <1>9, <2>1
  <2>3. k \in Nat
    BY <1>6, <1>7, <2>1
  <2>4. s \in SeatType /\ s.on = seat[p].on /\ s.queue = rest /\ s.used = k /\ s.abort = seat[p].abort
    BY <1>6, <1>8, <2>2, <2>3 DEF SeatType
  <2> QED BY <1>6, <2>1, <2>4
<1>11. seat' = [seat EXCEPT ![p] = s]
  BY <1>5, <1>9 DEF FramesInv, Typed
<1>12. PICK o, g : o = owed[p] /\ g = got[p]
  OBVIOUS
<1>13. o \in Seq(Frames!Frame) /\ g \in Seq(Frames!Frame) /\ owed' = [owed EXCEPT ![p] = o] /\ Seen(p) = g \o queue
  BY <1>1, <1>5, <1>12 DEF FramesInv, Typed, Seen
<1>14. seat[p].abort = "none" => o = g \o queue
  BY <1>5, <1>6, <1>12, <1>13 DEF FramesInv, LossReported, Seated
<1>15. gated => s.abort # "none"
  BY <1>6, <1>10 DEF FramesInv, IncidentReachesAll, Seated
<1>16. CASE seat[p].used + n > Budget[p]
  <2>1. PICK c \in CallType : call' = [call EXCEPT ![p] = c] /\ c.pc = "over"
    BY <1>5, <1>16, GoesTo DEF Pcs
  <2>2. CallOf(s, c, p)
    <3>1. s.used <= Budget[p] + Buffer
      BY <1>6, <1>7, <1>10
    <3>2. Len(rest) <= Buffer /\ Len(rest) <= Budget[p]
      BY <1>1, <1>6, <1>8 DEF CallOf
    <3> QED BY <2>1, <3>1, <3>2, <1>10 DEF CallOf
  <2>3. Moves(p, s, c)
    BY <2>1, <2>2, <1>10, <1>11 DEF Moves
  <2>4. got' = [got EXCEPT ![p] = g]
    BY <1>5, <1>12, <1>16 DEF FramesInv, Typed
  <2>5. Thin(g \o rest, Seen(p))
    BY <1>3, <1>6, <1>7, <1>13, ThinDrop
  <2> QED BY <2>1, <2>3, <2>4, <2>5, <1>5, <1>6, <1>10, <1>13, <1>15, OthersStay
<1>17. CASE ~(seat[p].used + n > Budget[p])
  <2>1. call' = [call EXCEPT ![p] = Frames!NoCall] /\ got' = [got EXCEPT ![p] = @ \o head]
    BY <1>5, <1>17 DEF Frames!Ends
  <2>2. CallOf(s, Frames!NoCall, p)
    <3>1. s.used <= Budget[p] + Buffer /\ ~(s.used > Budget[p])
      BY <1>6, <1>7, <1>10, <1>17
    <3>2. Len(rest) <= Buffer /\ Len(rest) <= Budget[p]
      BY <1>1, <1>6, <1>8 DEF CallOf
    <3> QED BY <3>1, <3>2, <1>10, NoSeatNoCall DEF CallOf
  <2>3. Moves(p, s, Frames!NoCall)
    BY <2>1, <2>2, <1>10, <1>11, NoSeatNoCall DEF Moves
  <2>4. PICK h : h = g \o head
    OBVIOUS
  <2>5. h \in Seq(Frames!Frame) /\ got' = [got EXCEPT ![p] = h]
    <3>1. h \in Seq(Frames!Frame)
      BY <2>4, <1>8, <1>13, ConcatProperties
    <3> QED BY <3>1, <2>1, <2>4, <1>12 DEF FramesInv, Typed
  <2>6. h \o rest = g \o queue
    <3>1. g \o (head \o rest) = (g \o head) \o rest
      BY <1>8, <1>13, Chained
    <3> QED BY <3>1, <2>4, <1>8
  <2>7. Thin(h \o rest, Seen(p))
    <3>1. g \o queue \in Seq(Frames!Frame)
      BY <1>6, <1>13, ConcatProperties
    <3> QED BY <3>1, <2>6, <1>13, ThinSame
  <2>8. s.abort = "none" => h \o rest = o
    BY <2>6, <1>10, <1>14
  <2> QED BY <2>3, <2>5, <2>7, <2>8, <1>5, <1>6, <1>10, <1>13, <1>15, NoSeatNoCall, OthersStay
<1> QED BY <1>16, <1>17

LEMMA FramesBegin ==
    ASSUME FrameBounds
    PROVE  Frames!Init => FramesInv
<1> SUFFICES ASSUME Frames!Init PROVE FramesInv
  OBVIOUS
<1>1. <<>> \in Seq(Frames!Frame) /\ Len(<<>>) = 0 /\ MaxSeq \in Nat /\ MaxHeard \in Nat
  BY EmptySeq DEF FrameBounds
<1>2. Typed
  <2>1. seat \in [Participants -> SeatType] /\ call \in [Participants -> CallType]
    BY NoSeatNoCall DEF Frames!Init
  <2>2. owed \in [Participants -> Seq(Frames!Frame)] /\ got \in [Participants -> Seq(Frames!Frame)]
    BY <1>1 DEF Frames!Init
  <2>3. seq \in 0..MaxSeq /\ heard \in 0..MaxHeard
    <3>1. seq = 0 /\ heard = 0
      BY DEF Frames!Init
    <3> QED BY <1>1, <3>1
  <2>4. gated \in BOOLEAN /\ closing \in BOOLEAN
    BY Zenon DEF Frames!Init
  <2> QED BY <2>1, <2>2, <2>3, <2>4 DEF Typed
<1>3. Calls
  <2>1. \A p \in Participants : CallOf(Frames!NoSeat, Frames!NoCall, p)
    BY NoSeatNoCall DEF FrameBounds, CallOf
  <2> QED BY <2>1 DEF Frames!Init, Calls
<1>4. Seated = {} /\ Sent = {}
  BY NoSeatNoCall DEF Frames!Init, Seated, Sent
<1>5. LossReported /\ IncidentReachesAll /\ Numbered
  BY <1>4 DEF LossReported, IncidentReachesAll, Numbered, Below, Unique
<1> QED BY <1>2, <1>3, <1>5 DEF FramesInv

LEMMA FramesStay ==
    ASSUME FrameBounds
    PROVE  FramesInv /\ [Frames!Next]_(Frames!vars) => FramesInv'
<1> SUFFICES ASSUME FramesInv, [Frames!Next]_(Frames!vars) PROVE FramesInv'
  OBVIOUS
<1>1. CASE Frames!Next
  <2>1. PICK p \in Participants :
           Frames!Attach(p) \/ Frames!Detach(p) \/ Frames!HandleIncident(p) \/ Frames!Send(p) \/ Frames!Read(p) \/ Frames!Step(p)
    BY <1>1 DEF Frames!Next
  <2>2. CASE Frames!Attach(p)
    BY <2>2, AttachOfKeeps
  <2>3. CASE Frames!Detach(p)
    BY <2>3, DetachKeeps
  <2>4. CASE Frames!HandleIncident(p) \/ Frames!RaiseBusIncident(p) \/ Frames!BudgetExhausted(p)
    BY <2>4, IncidentOfKeeps
  <2>5. CASE Frames!Send(p) \/ Frames!Read(p)
    BY <2>5, RequestKeeps
  <2>6. CASE Frames!SpendBudget(p)
    BY <2>6, SpendKeeps
  <2>7. CASE Frames!AdapterSends(p)
    BY <2>7, SendsKeeps
  <2>8. CASE Frames!Deliver(p)
    BY <2>8, DeliverKeeps
  <2>9. CASE Frames!Pending(p)
    BY <2>9, PendingKeeps
  <2>10. CASE Frames!Draw(p)
    BY <2>10, DrawKeeps
  <2>11. CASE Frames!FanOut(p)
    BY <2>11, FanOutKeeps
  <2>12. CASE Frames!Take(p)
    BY <2>12, TakeKeeps
  <2> QED BY <2>1, <2>2, <2>3, <2>4, <2>5, <2>6, <2>7, <2>8, <2>9, <2>10, <2>11, <2>12 DEF Frames!Step
<1>2. CASE UNCHANGED Frames!vars
  <2>1. Typed' /\ Calls'
    BY <1>2 DEF Frames!vars, FramesInv, Typed, Calls
  <2>2. Seated' = Seated /\ Sent' = Sent /\ SeenBy' = SeenBy /\ seq' = seq
    BY <1>2 DEF Frames!vars, Seated, Sent, SeenBy, Seen
  <2>3. LossReported' /\ IncidentReachesAll'
    BY <1>2, <2>2 DEF Frames!vars, FramesInv, LossReported, IncidentReachesAll, Seen
  <2>4. Numbered'
    BY <2>2 DEF FramesInv, Numbered
  <2> QED BY <2>1, <2>3, <2>4 DEF FramesInv
<1> QED BY <1>1, <1>2

\* The inductive invariant of the frames holds.
THEOREM FramesKept ==
    ASSUME FrameBounds
    PROVE  Frames!Spec => []FramesInv
<1>1. Frames!Init => FramesInv
  BY FramesBegin
<1>2. FramesInv /\ [Frames!Next]_(Frames!vars) => FramesInv'
  BY FramesStay
<1> QED BY <1>1, <1>2, PTL DEF Frames!Spec

\* Every seat, call and number of a broker has its type, a queue never outgrows
\* the bus's buffer or the budget of its participant, and a budget is overrun by
\* one read at most.
THEOREM FramesTypeOK ==
    ASSUME FrameBounds
    PROVE  Frames!Spec => []Frames!TypeOK
<1>1. FramesInv => Frames!TypeOK
  <2> SUFFICES ASSUME FramesInv PROVE Frames!TypeOK
    OBVIOUS
  <2>1. seat \in [Participants -> [on : BOOLEAN, abort : {"none", "participant", "bus"},
                                  used : Nat, queue : Seq(Frames!Frame)]]
    BY DEF FramesInv, Typed, SeatType
  <2>2. ASSUME NEW p \in Participants
        PROVE  /\ call[p].pc \in Pcs
               /\ call[p].id \in Ids \cup {0} /\ call[p].want \in 0..Buffer
               /\ seat[p].used <= Budget[p] + Buffer
               /\ Len(seat[p].queue) <= Buffer /\ Len(seat[p].queue) <= Budget[p]
    BY SeatAndCall DEF CallOf, CallType
  <2>3. seq \in 0..MaxSeq /\ heard \in 0..MaxHeard /\ {gated, closing} \subseteq BOOLEAN
    BY DEF FramesInv, Typed
  <2> QED BY <2>1, <2>2, <2>3 DEF Frames!TypeOK, Pcs
<1> QED BY <1>1, FramesKept, PTL

\* A run that is not told of an abort has every frame its view carries, in the
\* order they were passed on, and one number names one frame in everybody's log
\* (FramesAccounted), for any participants, filters, budgets and buffers
\* (canbroker.py:1176-1243).
THEOREM FramesAreAccounted ==
    ASSUME FrameBounds
    PROVE  Frames!Spec => []FramesAccounted
<1>1. FramesInv => FramesAccounted
  <2> SUFFICES ASSUME FramesInv PROVE SeqNamesFrame
    BY DEF FramesInv, FramesAccounted
  <2>1. ASSUME NEW p \in Seated
        PROVE  SeenBy[p] = Seen(p) /\ DOMAIN Seen(p) = 1..Len(SeenBy[p])
    <3>1. p \in Participants /\ Typed
      BY <2>1 DEF Seated, FramesInv
    <3>2. Seen(p) \in Seq(Frames!Frame) /\ SeenBy[p] = Seen(p)
      BY <3>1, SeenTyped
    <3>3. DOMAIN Seen(p) = 1..Len(Seen(p))
      BY <3>2, LenProperties
    <3> QED BY <3>2, <3>3
  <2>2. Unique(Seated, SeenBy) /\ \A p \in Seated : Grow(SeenBy[p])
    BY DEF FramesInv, Numbered
  <2>3. \A p, q \in Seated : \A i \in DOMAIN Seen(p), j \in DOMAIN Seen(q) :
          Seen(p)[i].seq = Seen(q)[j].seq => Seen(p)[i] = Seen(q)[j]
    <3> SUFFICES ASSUME NEW p \in Seated, NEW q \in Seated, NEW i \in DOMAIN Seen(p), NEW j \in DOMAIN Seen(q),
                        Seen(p)[i].seq = Seen(q)[j].seq
                 PROVE  Seen(p)[i] = Seen(q)[j]
      OBVIOUS
    <3>1. i \in 1..Len(SeenBy[p]) /\ j \in 1..Len(SeenBy[q]) /\ SeenBy[p] = Seen(p) /\ SeenBy[q] = Seen(q)
      BY <2>1
    <3> QED BY <3>1, <2>2 DEF Unique
  <2>4. ASSUME NEW p \in Seated, NEW i \in DOMAIN Seen(p), NEW j \in DOMAIN Seen(p),
               i < j, Seen(p)[i].wire # 0, Seen(p)[j].wire # 0
        PROVE  Seen(p)[i].seq < Seen(p)[j].seq
    <3>1. i \in 1..Len(SeenBy[p]) /\ j \in 1..Len(SeenBy[p]) /\ SeenBy[p] = Seen(p)
      BY <2>1, <2>4
    <3> QED BY <3>1, <2>2, <2>4 DEF Grow
  <2> QED BY <2>3, <2>4 DEF SeqNamesFrame
<1> QED BY <1>1, FramesKept, PTL

\* A gated bus has aborted every run on it, and seats nobody
\* (canbroker.py:1018, 1262).
THEOREM IncidentsReachAll ==
    ASSUME FrameBounds
    PROVE  Frames!Spec => []IncidentReachesAll
<1>1. FramesInv => IncidentReachesAll
  BY DEF FramesInv
<1> QED BY <1>1, FramesKept, PTL
=============================================================================
