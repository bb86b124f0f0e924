---------------------------- MODULE SerialPromise ----------------------------
(* What a serial session promises, said of its log, its lease and its       *)
(* threads.  SerialSession is what they do.                                 *)
EXTENDS Naturals, Sequences

VARIABLES
    session,  \* the session's flags, see Flags of SerialSession
    lease,    \* where its lease stands
    caller,   \* the operation the caller is at
    drain,    \* the thread that reads the port
    reader,   \* the thread that writes what it read to the log
    audit,    \* who holds audit_lock
    arrived,  \* chunks drained so far, each the writes sent before it
    before,   \* write -> chunks drained when it took the log
    sent,     \* writes that reached for the line
    log       \* the session's log

Entry(kind, n) == [kind |-> kind, n |-> n]
PlacesOf(entry) == {i \in DOMAIN log : log[i] = entry}

\* The log tells the order on the line: a chunk drained before a write took the
\* log stands before the write's entry, and one the write may have provoked
\* stands behind it (comports.py:1315-1331, 798-827).
LogTellsOrder ==
    \A w \in 1..sent, c \in 1..Len(arrived) :
        \A i \in PlacesOf(Entry("tx", w)), j \in PlacesOf(Entry("rx", c)) :
            /\ c <= before[w] => j < i
            /\ arrived[c] >= w => i < j

\* A session that was closed and whose audit held has every chunk it received on
\* its log, in order and once, and the stop entry last (comports.py:855-859, 1590).
LogHasAll ==
    session["closed"] /\ ~session["broken"] /\ caller = "idle" =>
        /\ log[Len(log)].kind = "stop"
        /\ \A c \in 1..Len(arrived) : \E i \in PlacesOf(Entry("rx", c)) : PlacesOf(Entry("rx", c)) = {i}
        /\ \A i, j \in DOMAIN log : log[i].kind = "rx" /\ log[j].kind = "rx" /\ i < j => log[i].n < log[j].n

\* The log is whole and tells the order on the line.
LogHonest == LogTellsOrder /\ LogHasAll

\* A port whose lease went back, or into the incident, is closed, and no thread
\* of its session is left to touch the port or the log (comports.py:1850-1913).
PortHeld ==
    lease \in {"none", "handed"} => ~session["open"] /\ reader = "off" /\ drain = "off" /\ audit = "free"

\* The log is honest, and a port given back has nobody left on it.
SessionHonest == LogHonest /\ PortHeld
=============================================================================
