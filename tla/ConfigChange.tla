---------------------------- MODULE ConfigChange ----------------------------
(***************************************************************************)
(* The authoritative configuration file of one project and who moves it:   *)
(* the servers that enforce it and write it for an agent (configwrite.py,  *)
(* configreload.py), the operator's `grant` and `revoke` (cli.py), and the *)
(* operator's editor, which takes no lock.  What a server says about the   *)
(* file is configstate.py's.                                               *)
(*                                                                         *)
(* A document has three parts: where each device is, which is what a       *)
(* reload takes; the grants of the devices and of the project, which it    *)
(* never takes; and the rest.  A document is its own digest.               *)
(***************************************************************************)
EXTENDS Naturals

CONSTANTS
    Servers,    \* servers of the project, each with its agent
    Operator,   \* the operator's command line
    Nobody,
    Devices,    \* device entries a document may name
    Places,     \* what an entry names: a port, a probe, a bus
    Absent,     \* the place of an entry that is not there
    First,      \* the document the first server starts from
    MaxWrites,  \* bound: writes under the lock
    MaxEdits    \* bound: writes of the editor

Rights == {"description", "permissions"}
Callers == Servers \cup {Operator}

\* `writes` stands for the provenance, by which every locked write differs.
Documents ==
    [at : [Devices -> Places \cup {Absent}], grants : SUBSET Devices, rights : SUBSET Rights,
     rest : 0..1, loads : BOOLEAN, writes : 0..MaxWrites]

VARIABLES
    file,    \* the document on disk
    editor,  \* who wrote it last
    lock,    \* secure_user_file_lock of the file
    bench,   \* place -> who holds the device there
    server,  \* what a server enforces, see Loaded
    call,    \* where a caller's write stands
    edits    \* writes of the editor so far

vars == <<file, editor, lock, bench, server, call, edits>>

\* digest: the document the description is from.  startup: the one the grants
\* are from.  grants: what is left of them.  match: permissions_match_description.
Loaded(doc) == [up |-> TRUE, digest |-> doc, startup |-> doc, grants |-> doc.grants, match |-> TRUE]
Down == [Loaded(First) EXCEPT !.up = FALSE]

\* plan: the description a command line planned against.  read: the document read
\* under the lock.
Described(doc) == [at |-> doc.at, rest |-> doc.rest]
NoChange == [kind |-> "none", device |-> Nobody, value |-> FALSE]
NoCall == [pc |-> "out", want |-> NoChange, plan |-> Described(First), read |-> First]

Wants ==
    {NoChange} \cup [kind : {"move"}, device : Devices, value : Places]
    \cup [kind : {"permit"}, device : Devices, value : BOOLEAN]
    \cup [kind : {"right"}, device : Rights, value : BOOLEAN]

Named(doc) == {d \in Devices : doc.at[d] # Absent}
Used(doc) == {doc.at[d] : d \in Named(doc)}
Running(s) == \E p \in Places : bench[p] = s

TypeOK ==
    /\ file \in Documents /\ editor \in Callers \cup {Nobody}
    /\ lock \in Callers \cup {Nobody} /\ bench \in [Places -> Callers \cup {Nobody}]
    /\ \A s \in Servers :
          /\ server[s].up \in BOOLEAN /\ server[s].match \in BOOLEAN
          /\ {server[s].digest, server[s].startup} \subseteq Documents
          /\ server[s].grants \subseteq Named(server[s].digest) \cup First.grants
    /\ \A c \in Callers :
          /\ call[c].pc \in {"out", "planned", "held", "valued", "locked", "written"}
          /\ call[c].want \in Wants /\ call[c].read \in Documents
          /\ call[c].plan \in [at : [Devices -> Places \cup {Absent}], rest : 0..1]
          /\ call[c].pc \in {"locked", "written"} <=> lock = c
    /\ edits \in 0..MaxEdits

Init ==
    /\ file = First /\ editor = Nobody /\ lock = Nobody
    /\ bench = [p \in Places |-> Nobody]
    /\ server = [s \in Servers |-> Down] /\ call = [c \in Callers |-> NoCall]
    /\ edits = 0

-----------------------------------------------------------------------------
(* The editor: one thing is moved, and grants follow an entry out.         *)

Edited(doc, new) == new # doc /\ file' = [new EXCEPT !.grants = @ \cap Named(new)]

Edit ==
    /\ edits < MaxEdits /\ edits' = edits + 1 /\ editor' = Nobody
    /\ \/ \E d \in Devices, p \in Places \cup {Absent} : Edited(file, [file EXCEPT !.at[d] = p])
       \/ \E grants \in SUBSET Devices : Edited(file, [file EXCEPT !.grants = grants])
       \/ \E rights \in SUBSET Rights : Edited(file, [file EXCEPT !.rights = rights])
       \/ Edited(file, [file EXCEPT !.rest = 1 - @])
       \/ Edited(file, [file EXCEPT !.loads = ~@])
       \/ \E s \in Servers : Edited(file, server[s].startup)
    /\ UNCHANGED <<lock, bench, server, call>>

-----------------------------------------------------------------------------
(* A server: it starts, stops with its locks, runs, and takes a new        *)
(* description.                                                            *)

Start(s) ==
    /\ ~server[s].up /\ file.loads
    /\ server' = [server EXCEPT ![s] = Loaded(file)]
    /\ UNCHANGED <<file, editor, lock, bench, call, edits>>

Stop(s) ==
    /\ server[s].up /\ server' = [server EXCEPT ![s] = Down]
    /\ call' = [call EXCEPT ![s] = NoCall]
    /\ lock' = IF lock = s THEN Nobody ELSE lock
    /\ bench' = [p \in Places |-> IF bench[p] = s THEN Nobody ELSE bench[p]]
    /\ UNCHANGED <<file, editor, edits>>

\* A run holds what the enforced description names.
RunStarts(s) ==
    /\ server[s].up /\ call[s].pc = "out" /\ ~Running(s)
    /\ \A p \in Used(server[s].digest) : bench[p] = Nobody
    /\ bench' = [p \in Places |-> IF p \in Used(server[s].digest) THEN s ELSE bench[p]]
    /\ UNCHANGED <<file, editor, lock, server, call, edits>>
RunEnds(s) ==
    /\ call[s].pc = "out" /\ Running(s)
    /\ bench' = [p \in Places |-> IF bench[p] = s THEN Nobody ELSE bench[p]]
    /\ UNCHANGED <<file, editor, lock, server, call, edits>>

\* permission_differences: an entry on one side only is a difference.
MDiffers(s, doc) ==
    doc.rights # server[s].startup.rights \/ server[s].grants # doc.grants \cap Named(server[s].digest)
Differs(s, doc) ==
    \/ doc.rights # server[s].startup.rights
    \/ Named(doc) # Named(server[s].digest)
    \/ server[s].grants # doc.grants

\* _carried_permissions.  Mutation: the file's own grants are taken.
MCarried(s, doc) == doc.grants
Carried(s, doc) == server[s].grants \cap Named(doc)

Reload(s) ==
    /\ server[s].up /\ call[s].pc = "out" /\ ~Running(s) /\ file.loads
    /\ server' = [server EXCEPT ![s].digest = file, ![s].grants = Carried(s, file),
                                ![s].match = ~Differs(s, file)]
    /\ UNCHANGED <<file, editor, lock, bench, call, edits>>

-----------------------------------------------------------------------------
(* project_config_set, from the lock to its release.                       *)

\* The right a server's agent has: its own, while the file gives it too.
Right(s) == server[s].startup.rights \cap file.rights
Needs(want) == IF want.kind = "move" THEN "description" ELSE "permissions"

\* A new entry is denied; a permission creates none.
Changed(doc, want) ==
    CASE want.kind = "move" -> [doc EXCEPT !.at[want.device] = want.value]
      [] want.kind = "permit" /\ want.value -> [doc EXCEPT !.grants = @ \cup {want.device}]
      [] want.kind = "permit" /\ ~want.value -> [doc EXCEPT !.grants = @ \ {want.device}]
      [] want.kind = "right" /\ want.value -> [doc EXCEPT !.rights = @ \cup {want.device}]
      [] OTHER -> [doc EXCEPT !.rights = @ \ {want.device}]
Applies(want) == want.kind = "permit" => want.device \in Named(file)

\* The document is read under the lock.
Transact(c, want) ==
    /\ file.loads /\ Applies(want) /\ file.writes < MaxWrites
    /\ call' = [call EXCEPT ![c].pc = "locked", ![c].want = want, ![c].read = file]

\* An agent writes `false` into a permission and never anything else.
MayWant(s, want) == Needs(want) \in Right(s) /\ (want.kind # "move" => ~want.value)

\* Mutation: the transaction does not wait for another writer's.
MSetLocks(s) ==
    /\ server[s].up /\ call[s].pc = "out" /\ ~Running(s)
    /\ lock' = s
    /\ \E want \in Wants \ {NoChange} : MayWant(s, want) /\ Transact(s, want)
    /\ UNCHANGED <<file, editor, bench, server, edits>>
SetLocks(s) ==
    /\ server[s].up /\ call[s].pc = "out" /\ ~Running(s)
    /\ lock = Nobody /\ lock' = s
    /\ \E want \in Wants \ {NoChange} : MayWant(s, want) /\ Transact(s, want)
    /\ UNCHANGED <<file, editor, bench, server, edits>>

\* What was read is what is written on, whatever the editor did meanwhile.
Writes(c) ==
    /\ call[c].pc = "locked" /\ editor' = c
    /\ file' = [Changed(call[c].read, call[c].want) EXCEPT !.writes = @ + 1]
    /\ call' = [call EXCEPT ![c].pc = "written"]
    /\ UNCHANGED <<lock, bench, server, edits>>

\* The file is loaded once more, and what was there before comes back where it
\* does not load.
Settles(c) ==
    /\ call[c].pc = "written" /\ lock' = Nobody
    /\ IF file.loads THEN UNCHANGED <<file, editor>> ELSE file' = call[c].read /\ editor' = c
    /\ call' = [call EXCEPT ![c] = NoCall]
    /\ bench' = [p \in Places |-> IF c = Operator /\ bench[p] = c THEN Nobody ELSE bench[p]]
    /\ UNCHANGED <<server, edits>>

-----------------------------------------------------------------------------
(* `agentic-hil grant` and `revoke`.                                       *)

\* The bench is asked, then the document is read.
Plan ==
    /\ call[Operator].pc = "out" /\ file.loads
    /\ \A p \in Used(file) : bench[p] = Nobody
    /\ \E want \in [kind : {"permit"}, device : Devices, value : BOOLEAN]
                   \cup [kind : {"right"}, device : Rights, value : BOOLEAN] :
          call' = [call EXCEPT ![Operator].pc = "planned", ![Operator].want = want, ![Operator].plan = Described(file)]
    /\ UNCHANGED <<file, editor, lock, bench, server, edits>>

\* The file is loaded for the devices to hold, which are held or the call ends.
Hold ==
    /\ call[Operator].pc = "planned" /\ file.loads
    /\ IF \A p \in Used(file) : bench[p] = Nobody
       THEN /\ bench' = [p \in Places |-> IF p \in Used(file) THEN Operator ELSE bench[p]]
            /\ call' = [call EXCEPT ![Operator].pc = "held"]
       ELSE UNCHANGED bench /\ call' = [call EXCEPT ![Operator] = NoCall]
    /\ UNCHANGED <<file, editor, lock, server, edits>>

\* What a permission is now, in a document.
Value(doc, want) ==
    IF want.kind = "permit" THEN want.device \in doc.grants ELSE want.device \in doc.rights

\* The value is read; one that is there already ends the call.
GivenUp == [p \in Places |-> IF bench[p] = Operator THEN Nobody ELSE bench[p]]
ReadsValue ==
    /\ call[Operator].pc = "held" /\ file.loads
    /\ IF Value(file, call[Operator].want) = call[Operator].want.value
       THEN bench' = GivenUp /\ call' = [call EXCEPT ![Operator] = NoCall]
       ELSE UNCHANGED bench /\ call' = [call EXCEPT ![Operator].pc = "valued"]
    /\ UNCHANGED <<file, editor, lock, server, edits>>

\* _stale_expectations and expect_document, on the document under the lock.
MStale == Value(file, call[Operator].want) = call[Operator].want.value
Stale ==
    \/ Value(file, call[Operator].want) = call[Operator].want.value
    \/ Described(file) # call[Operator].plan
GrantLocks ==
    /\ call[Operator].pc = "valued" /\ lock = Nobody /\ lock' = Operator
    /\ ~Stale /\ Transact(Operator, call[Operator].want)
    /\ UNCHANGED <<file, editor, bench, server, edits>>

\* A call that is refused, or a command that is interrupted.
GivesUp ==
    /\ call[Operator].pc # "out"
    /\ call' = [call EXCEPT ![Operator] = NoCall] /\ bench' = GivenUp
    /\ lock' = IF lock = Operator THEN Nobody ELSE lock
    /\ UNCHANGED <<file, editor, server, edits>>

-----------------------------------------------------------------------------
Next ==
    \/ Edit
    \/ \E s \in Servers : Start(s) \/ Stop(s) \/ RunStarts(s) \/ RunEnds(s) \/ Reload(s) \/ SetLocks(s)
    \/ Plan \/ Hold \/ ReadsValue \/ GrantLocks \/ GivesUp
    \/ \E c \in Callers : Writes(c) \/ Settles(c)

Spec == Init /\ [][Next]_vars

-----------------------------------------------------------------------------
(* Properties.                                                             *)

\* What a server answers: the file's bytes are the description's, nothing waits
\* for a restart, and it names another source of its grants.
Unchanged(s) == file = server[s].digest /\ file.rest = server[s].startup.rest
Disclosed(s) == ~server[s].match /\ server[s].startup # server[s].digest

\* Grants and rights of the document that is on disk are the ones enforced.
Enforced(s) == server[s].grants = file.grants /\ server[s].startup.rights = file.rights

\* A server never has a grant its startup document did not give, through any
\* number of reloads of any documents (configreload.py:29-35).
GrantsFromStartup ==
    \A s \in Servers : server[s].up => server[s].grants \subseteq server[s].startup.grants

\* A write for an agent opens nothing that was closed, whatever other writers do
\* beside it; only an edit that took no lock can be written over
\* (configwrite.py:257-278).
Opens == ~(file'.grants \subseteq file.grants /\ file'.rights \subseteq file.rights)
AgentNarrows ==
    [][\A s \in Servers :
          editor' = s /\ file' # file /\ Opens => editor = Nobody /\ file # call[s].read]_vars

\* A grant or revoke that was planned on one document lands beside no run of a
\* server that enforces the description on disk (cli.py:3240-3250).
GrantExcludesRuns ==
    [][/\ call[Operator].pc = "locked" /\ call'[Operator].pc = "written"
       /\ file = call[Operator].read
       /\ \A p \in Used(call[Operator].plan) : bench[p] = Operator
       => \A s \in Servers : server[s].up /\ server[s].digest.at = file.at => ~Running(s)]_vars

\* A server that says nothing of its file having changed enforces it, its grants
\* included, wherever the file is not the one it started from
\* (configstate.py:148-250, 277-320).
StatusHonest ==
    \A s \in Servers :
        server[s].up /\ Unchanged(s) /\ ~Disclosed(s) /\ file # server[s].startup => Enforced(s)

\* The same of any file (configstate.py:283-285).
GrantsDisclosed == \A s \in Servers : server[s].up /\ Unchanged(s) /\ ~Disclosed(s) => Enforced(s)
=============================================================================
