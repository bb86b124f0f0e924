------------------------- MODULE ConfigChangeProofs -------------------------
(* What TLAPS proves of ConfigChange, for any servers, devices, places and  *)
(* any number of writes and edits.                                          *)
EXTENDS ConfigChange, TLAPS

Doc == [at : [Devices -> Places \cup {Absent}], grants : SUBSET Devices, rights : SUBSET Rights,
        rest : 0..1, loads : BOOLEAN, writes : Nat]

\* What the theorems assume of the constants: the command line is no server,
\* nobody is neither, and the first document is one.
Apart == Operator \notin Servers /\ Nobody \notin Callers /\ First \in Doc

Typed ==
    /\ file \in Doc
    /\ server = [s \in Servers |-> server[s]]
    /\ call = [c \in Callers |-> call[c]]
    /\ bench = [p \in Places |-> bench[p]]
    /\ \A s \in Servers :
          /\ server[s] = [up |-> server[s].up, digest |-> server[s].digest, startup |-> server[s].startup,
                          grants |-> server[s].grants, match |-> server[s].match]
          /\ server[s].startup \in Doc
    /\ \A c \in Callers :
          /\ call[c] = [pc |-> call[c].pc, want |-> call[c].want, plan |-> call[c].plan, read |-> call[c].read]
          /\ call[c].read \in Doc
          /\ call[c].want \in Wants

\* One writer at a time, on what it read or beside an edit that took no lock.
Based(c) ==
    /\ call[c].pc \in {"locked", "written"} => lock = c /\ call[c].read.loads
    /\ call[c].pc = "locked" => file = call[c].read \/ editor = Nobody
    /\ call[c].pc = "written" => file.loads \/ editor = Nobody

\* A server's write asks for nothing that opens.
Narrow(s) == call[s].pc = "locked" => (call[s].want.kind # "move" => ~call[s].want.value)

\* What a server holds is what its description names.
Holds(s) == \A p \in Places : bench[p] = s => server[s].up /\ p \in Used(server[s].digest)

\* The operator writes on the description that was planned against.
Planned == call[Operator].pc = "locked" => call[Operator].read.at = call[Operator].plan.at

Inv ==
    /\ Typed
    /\ \A c \in Callers : Based(c)
    /\ \A s \in Servers : Narrow(s) /\ Holds(s)
    /\ Planned
    /\ GrantsFromStartup

-----------------------------------------------------------------------------
(* What a change makes of a document.                                      *)

LEMMA ChangedIs ==
    ASSUME NEW doc \in Doc, NEW want \in Wants
    PROVE  Changed(doc, want) \in Doc /\ Changed(doc, want).loads = doc.loads
<1>1. CASE want.kind = "move"
  <2>1. want.device \in Devices /\ want.value \in Places
    BY <1>1 DEF Wants, NoChange
  <2>2. Changed(doc, want) = [doc EXCEPT !.at[want.device] = want.value]
    BY <1>1 DEF Changed
  <2> QED BY <2>1, <2>2 DEF Doc
<1>2. CASE want.kind = "permit" /\ want.value
  <2>1. want.device \in Devices
    BY <1>2 DEF Wants, NoChange
  <2>2. Changed(doc, want) = [doc EXCEPT !.grants = @ \cup {want.device}]
    BY <1>2 DEF Changed
  <2> QED BY <2>1, <2>2 DEF Doc
<1>3. CASE want.kind = "permit" /\ ~want.value
  <2>1. Changed(doc, want) = [doc EXCEPT !.grants = @ \ {want.device}]
    BY <1>3 DEF Changed
  <2> QED BY <2>1 DEF Doc
<1>4. CASE want.kind = "right" /\ want.value
  <2>1. want.device \in Rights
    BY <1>4 DEF Wants, NoChange
  <2>2. Changed(doc, want) = [doc EXCEPT !.rights = @ \cup {want.device}]
    BY <1>4 DEF Changed
  <2> QED BY <2>1, <2>2 DEF Doc
<1>5. CASE want.kind # "move" /\ want.kind # "permit" /\ ~(want.kind = "right" /\ want.value)
  <2>1. Changed(doc, want) = [doc EXCEPT !.rights = @ \ {want.device}]
    BY <1>5 DEF Changed
  <2> QED BY <2>1 DEF Doc
<1> QED BY <1>1, <1>2, <1>3, <1>4, <1>5

LEMMA ChangedNarrows ==
    ASSUME NEW doc \in Doc, NEW want \in Wants, want.kind # "move" => ~want.value
    PROVE  Changed(doc, want).grants \subseteq doc.grants /\ Changed(doc, want).rights \subseteq doc.rights
<1>1. CASE want.kind = "move"
  <2>1. Changed(doc, want) = [doc EXCEPT !.at[want.device] = want.value]
    BY <1>1 DEF Changed
  <2> QED BY <2>1 DEF Doc
<1>2. CASE want.kind = "permit"
  <2>1. Changed(doc, want) = [doc EXCEPT !.grants = @ \ {want.device}]
    BY <1>2 DEF Changed
  <2> QED BY <2>1 DEF Doc
<1>3. CASE want.kind # "move" /\ want.kind # "permit"
  <2>1. Changed(doc, want) = [doc EXCEPT !.rights = @ \ {want.device}]
    BY <1>3 DEF Changed
  <2> QED BY <2>1 DEF Doc
<1> QED BY <1>1, <1>2, <1>3

\* The document a locked write leaves.
LEMMA WrittenIs ==
    ASSUME NEW doc \in Doc
    PROVE  LET new == [doc EXCEPT !.writes = @ + 1] IN
           /\ new \in Doc
           /\ new.loads = doc.loads /\ new.grants = doc.grants /\ new.rights = doc.rights
BY DEF Doc

\* A document gives grants to the devices it names.
InEntries(doc) == doc.grants \subseteq Named(doc)

\* The editor leaves a document, and takes the grants of an entry with it.
LEMMA EditedIs == ASSUME Typed, Edit PROVE file' \in Doc /\ InEntries(file')
<1>1. ASSUME NEW new \in Doc, Edited(file, new) PROVE file' \in Doc /\ InEntries(file')
  <2>1. file' = [new EXCEPT !.grants = @ \cap Named(new)]
    BY <1>1 DEF Edited
  <2>2. file'.grants = new.grants \cap Named(new) /\ file'.at = new.at
    BY <2>1 DEF Doc
  <2>3. file' \in Doc
    BY <2>1 DEF Doc
  <2> QED BY <2>2, <2>3 DEF InEntries, Named
<1>2. CASE \E d \in Devices, p \in Places \cup {Absent} : Edited(file, [file EXCEPT !.at[d] = p])
  <2>1. \A d \in Devices, p \in Places \cup {Absent} : [file EXCEPT !.at[d] = p] \in Doc
    BY DEF Typed, Doc
  <2> QED BY <1>1, <1>2, <2>1
<1>3. CASE \E grants \in SUBSET Devices : Edited(file, [file EXCEPT !.grants = grants])
  <2>1. \A grants \in SUBSET Devices : [file EXCEPT !.grants = grants] \in Doc
    BY DEF Typed, Doc
  <2> QED BY <1>1, <1>3, <2>1
<1>4. CASE \E rights \in SUBSET Rights : Edited(file, [file EXCEPT !.rights = rights])
  <2>1. \A rights \in SUBSET Rights : [file EXCEPT !.rights = rights] \in Doc
    BY DEF Typed, Doc
  <2> QED BY <1>1, <1>4, <2>1
<1>5. CASE Edited(file, [file EXCEPT !.rest = 1 - @])
  <2>1. 1 - file.rest \in 0..1
    BY DEF Typed, Doc
  <2>2. [file EXCEPT !.rest = 1 - @] \in Doc
    BY <2>1 DEF Typed, Doc
  <2> QED BY <1>1, <1>5, <2>2
<1>6. CASE Edited(file, [file EXCEPT !.loads = ~@])
  <2>1. [file EXCEPT !.loads = ~@] \in Doc
    BY DEF Typed, Doc
  <2> QED BY <1>1, <1>6, <2>1
<1>7. CASE \E s \in Servers : Edited(file, server[s].startup)
  BY <1>1, <1>7 DEF Typed
<1> QED BY <1>2, <1>3, <1>4, <1>5, <1>6, <1>7 DEF Edit

-----------------------------------------------------------------------------
(* The invariant.                                                          *)

LEMMA InvInit == Apart /\ Init => Inv
<1> SUFFICES ASSUME Apart, Init PROVE Inv
  OBVIOUS
<1>1. Typed
  BY DEF Apart, Init, Typed, Down, Loaded, NoCall, NoChange, Wants
<1>2. \A c \in Callers : call[c].pc = "out"
  BY DEF Init, NoCall
<1>3. \A s \in Servers : Narrow(s) /\ Holds(s)
  BY <1>2 DEF Apart, Init, Narrow, Holds, Callers
<1>4. \A s \in Servers : ~server[s].up
  BY DEF Init, Down, Loaded
<1> QED BY <1>1, <1>2, <1>3, <1>4 DEF Inv, Based, Planned, GrantsFromStartup, Callers

\* An edit: whoever is writing is now writing beside it.
LEMMA InvEdit == ASSUME Apart, Inv, Edit PROVE Inv'
<1>1. UNCHANGED <<lock, bench, server, call>> /\ editor' = Nobody
  BY DEF Edit
<1>2. Typed'
  BY <1>1, EditedIs DEF Inv, Typed
<1>3. \A c \in Callers : Based(c)'
  BY <1>1 DEF Inv, Based
<1> QED BY <1>1, <1>2, <1>3 DEF Inv, Narrow, Holds, Planned, GrantsFromStartup

\* A server by itself.
LEMMA InvServer ==
    ASSUME Apart, Inv, NEW s \in Servers, Start(s) \/ Stop(s) \/ RunStarts(s) \/ RunEnds(s) \/ Reload(s)
    PROVE  Inv'
<1> s \in Callers
  BY DEF Callers
<1>1. CASE Start(s)
  <2>1. server' = [server EXCEPT ![s] = Loaded(file)] /\ UNCHANGED <<file, editor, lock, bench, call>>
    BY <1>1 DEF Start
  <2>2. Typed'
    BY <2>1 DEF Inv, Typed, Loaded
  <2>3. \A t \in Servers : Holds(t)'
    BY <1>1, <2>1 DEF Inv, Typed, Holds, Start
  <2>4. GrantsFromStartup'
    BY <2>1 DEF Inv, Typed, Loaded, GrantsFromStartup
  <2> QED BY <2>1, <2>2, <2>3, <2>4 DEF Inv, Based, Narrow, Planned
<1>2. CASE Stop(s)
  <2>1. /\ server' = [server EXCEPT ![s] = Down] /\ call' = [call EXCEPT ![s] = NoCall]
        /\ lock' = (IF lock = s THEN Nobody ELSE lock)
        /\ bench' = [p \in Places |-> IF bench[p] = s THEN Nobody ELSE bench[p]]
        /\ UNCHANGED <<file, editor>>
    BY <1>2 DEF Stop
  <2>2. Typed'
    BY <2>1 DEF Apart, Inv, Typed, Down, Loaded, NoCall, NoChange, Wants
  <2>3. \A c \in Callers : Based(c)'
    BY <2>1 DEF Inv, Typed, Based, NoCall
  <2>4. \A t \in Servers : Narrow(t)'
    BY <2>1 DEF Inv, Typed, Narrow, NoCall, Callers
  <2>5. \A t \in Servers : Holds(t)'
    BY <2>1 DEF Apart, Inv, Typed, Holds, Callers
  <2>6. Planned'
    BY <2>1 DEF Apart, Inv, Typed, Planned, Callers
  <2>7. GrantsFromStartup'
    BY <2>1 DEF Inv, Typed, Down, Loaded, GrantsFromStartup
  <2> QED BY <2>2, <2>3, <2>4, <2>5, <2>6, <2>7 DEF Inv
<1>3. CASE RunStarts(s)
  <2>1. /\ bench' = [p \in Places |-> IF p \in Used(server[s].digest) THEN s ELSE bench[p]]
        /\ server[s].up /\ UNCHANGED <<file, editor, lock, server, call>>
    BY <1>3 DEF RunStarts
  <2>2. Typed'
    BY <2>1 DEF Inv, Typed
  <2>3. \A t \in Servers : Holds(t)'
    BY <2>1 DEF Inv, Typed, Holds
  <2> QED BY <2>1, <2>2, <2>3 DEF Inv, Based, Narrow, Planned, GrantsFromStartup
<1>4. CASE RunEnds(s)
  <2>1. /\ bench' = [p \in Places |-> IF bench[p] = s THEN Nobody ELSE bench[p]]
        /\ UNCHANGED <<file, editor, lock, server, call>>
    BY <1>4 DEF RunEnds
  <2>2. Typed'
    BY <2>1 DEF Inv, Typed
  <2>3. \A t \in Servers : Holds(t)'
    BY <2>1 DEF Apart, Inv, Typed, Holds, Callers
  <2> QED BY <2>1, <2>2, <2>3 DEF Inv, Based, Narrow, Planned, GrantsFromStartup
<1>5. CASE Reload(s)
  <2>1. /\ server' = [server EXCEPT ![s].digest = file, ![s].grants = Carried(s, file),
                                    ![s].match = ~Differs(s, file)]
        /\ ~Running(s) /\ UNCHANGED <<file, editor, lock, bench, call>>
    BY <1>5 DEF Reload
  <2>2. \A t \in Servers : /\ t # s => server'[t] = server[t]
                           /\ server'[t].up = server[t].up /\ server'[t].startup = server[t].startup
                           /\ server'[t].grants \subseteq server[t].grants
    BY <2>1 DEF Inv, Typed, Carried
  <2>3. Typed'
    <3>1. server'[s] = [server[s] EXCEPT !.digest = file, !.grants = Carried(s, file), !.match = ~Differs(s, file)]
      BY <2>1 DEF Inv, Typed
    <3> QED BY <2>1, <2>2, <3>1 DEF Inv, Typed
  <2>4. \A t \in Servers : Holds(t)'
    BY <2>1, <2>2 DEF Inv, Holds, Running
  <2>5. GrantsFromStartup'
    BY <2>2 DEF Inv, GrantsFromStartup
  <2> QED BY <2>1, <2>3, <2>4, <2>5 DEF Inv, Based, Narrow, Planned
<1> QED BY <1>1, <1>2, <1>3, <1>4, <1>5

\* A writer takes the lock: nobody else is under it.
LEMMA Locks ==
    ASSUME Apart, Inv, NEW c \in Callers, NEW want \in Wants, Transact(c, want),
           lock = Nobody, lock' = c, UNCHANGED <<file, editor, bench, server>>
    PROVE  Typed' /\ \A d \in Callers : Based(d)'
<1>1. file.loads /\ call' = [call EXCEPT ![c].pc = "locked", ![c].want = want, ![c].read = file]
  BY DEF Transact
<1>2. call'[c] = [call[c] EXCEPT !.pc = "locked", !.want = want, !.read = file]
      /\ \A d \in Callers \ {c} : call'[d] = call[d]
  BY <1>1 DEF Inv, Typed
<1>3. Typed'
  <2>1. call' = [d \in Callers |-> call'[d]]
    BY <1>1 DEF Inv, Typed
  <2>2. call'[c] = [pc |-> "locked", want |-> want, plan |-> call[c].plan, read |-> file]
    BY <1>2 DEF Inv, Typed
  <2>3. \A d \in Callers \ {c} : /\ call'[d] = call[d] /\ call[d].read \in Doc /\ call[d].want \in Wants
                                /\ call[d] = [pc |-> call[d].pc, want |-> call[d].want,
                                              plan |-> call[d].plan, read |-> call[d].read]
    BY <1>2 DEF Inv, Typed
  <2> QED BY <2>1, <2>2, <2>3 DEF Inv, Typed
<1>4. call'[c].pc = "locked" /\ call'[c].read = file
  BY <1>2 DEF Inv, Typed
<1>5. Based(c)'
  BY <1>1, <1>4 DEF Based
<1>6. ASSUME NEW d \in Callers \ {c} PROVE Based(d)'
  <2>1. call[d].pc \notin {"locked", "written"}
    BY DEF Apart, Inv, Based
  <2> QED BY <1>2, <2>1 DEF Based
<1> QED BY <1>3, <1>5, <1>6

LEMMA InvSetLocks == ASSUME Apart, Inv, NEW s \in Servers, SetLocks(s) PROVE Inv'
<1> s \in Callers /\ s # Operator
  BY DEF Callers, Apart
<1>1. PICK want \in Wants : MayWant(s, want) /\ Transact(s, want)
  BY DEF SetLocks
<1>2. lock = Nobody /\ lock' = s /\ UNCHANGED <<file, editor, bench, server>>
  BY DEF SetLocks
<1>3. Typed' /\ \A c \in Callers : Based(c)'
  BY <1>1, <1>2, Locks
<1>4. /\ call' = [call EXCEPT ![s].pc = "locked", ![s].want = want, ![s].read = file]
      /\ want.kind # "move" => ~want.value
  BY <1>1 DEF Transact, MayWant
<1>5. call'[s].want = want /\ \A c \in Callers \ {s} : call'[c] = call[c]
  BY <1>4 DEF Inv, Typed
<1>6. \A t \in Servers : Narrow(t)'
  BY <1>4, <1>5 DEF Inv, Narrow, Callers
<1>7. Planned'
  BY <1>5 DEF Inv, Planned, Callers
<1> QED BY <1>2, <1>3, <1>6, <1>7 DEF Inv, Holds, GrantsFromStartup

LEMMA InvWrites == ASSUME Apart, Inv, NEW c \in Callers, Writes(c) PROVE Inv'
<1>1. /\ call[c].pc = "locked" /\ lock = c
      /\ file' = [Changed(call[c].read, call[c].want) EXCEPT !.writes = @ + 1]
      /\ call' = [call EXCEPT ![c].pc = "written"] /\ UNCHANGED <<lock, bench, server>>
  BY DEF Writes, Inv, Based
<1>2. call[c].read \in Doc /\ call[c].want \in Wants /\ call[c].read.loads
  BY <1>1 DEF Inv, Typed, Based
<1>3. Changed(call[c].read, call[c].want) \in Doc /\ Changed(call[c].read, call[c].want).loads
  BY <1>2, ChangedIs
<1>4. file' \in Doc /\ file'.loads
  BY <1>1, <1>3, WrittenIs
<1>5. call'[c] = [call[c] EXCEPT !.pc = "written"] /\ \A d \in Callers \ {c} : call'[d] = call[d]
  BY <1>1 DEF Inv, Typed
<1>6. Typed'
  BY <1>1, <1>4, <1>5 DEF Inv, Typed
<1>7. call'[c].pc = "written" /\ call'[c].read = call[c].read
  BY <1>5 DEF Inv, Typed
<1>8. \A d \in Callers : Based(d)'
  BY <1>1, <1>2, <1>4, <1>5, <1>7 DEF Inv, Based
<1>9. \A s \in Servers : Narrow(s)'
  BY <1>5, <1>7 DEF Inv, Narrow, Callers
<1>10. Planned'
  BY <1>5, <1>7 DEF Inv, Planned, Callers
<1> QED BY <1>1, <1>6, <1>8, <1>9, <1>10 DEF Inv, Holds, GrantsFromStartup

\* A call that is over, with its lock, and the devices of the command line.
LEMMA Over ==
    ASSUME Apart, Inv, NEW c \in Callers, call' = [call EXCEPT ![c] = NoCall],
           UNCHANGED server, file' \in Doc,
           (lock = c /\ lock' = Nobody) \/ UNCHANGED <<file, editor, lock>>,
           bench' = [p \in Places |-> bench'[p]],
           \A p \in Places : bench'[p] \in {Nobody, bench[p]}
    PROVE  Inv'
<1>1. call'[c] = NoCall /\ \A d \in Callers \ {c} : call'[d] = call[d]
  BY DEF Inv, Typed
<1>2. Typed'
  BY <1>1 DEF Apart, Inv, Typed, NoCall, NoChange, Wants
<1>3. \A d \in Callers : Based(d)'
  BY <1>1 DEF Inv, Based, NoCall
<1>4. \A s \in Servers : Narrow(s)'
  BY <1>1 DEF Inv, Narrow, NoCall, Callers
<1>5. \A s \in Servers : Holds(s)'
  BY DEF Apart, Inv, Holds, Callers
<1>6. Planned'
  BY <1>1 DEF Inv, Planned, NoCall, Callers
<1> QED BY <1>2, <1>3, <1>4, <1>5, <1>6 DEF Inv, GrantsFromStartup

LEMMA InvSettles == ASSUME Apart, Inv, NEW c \in Callers, Settles(c) PROVE Inv'
<1>1. /\ call[c].pc = "written" /\ lock = c /\ lock' = Nobody
      /\ call' = [call EXCEPT ![c] = NoCall] /\ UNCHANGED server
      /\ bench' = [p \in Places |-> IF c = Operator /\ bench[p] = c THEN Nobody ELSE bench[p]]
  BY DEF Settles, Inv, Based
<1>2. file' \in Doc
  BY DEF Settles, Inv, Typed
<1>3. bench' = [p \in Places |-> bench'[p]] /\ \A p \in Places : bench'[p] \in {Nobody, bench[p]}
  BY <1>1
<1> QED BY <1>1, <1>2, <1>3, Over

\* The command line, before and after its write.
LEMMA InvGivesUp == ASSUME Apart, Inv, GivesUp PROVE Inv'
<1>1. /\ call' = [call EXCEPT ![Operator] = NoCall] /\ bench' = GivenUp
      /\ lock' = (IF lock = Operator THEN Nobody ELSE lock)
      /\ UNCHANGED <<file, editor, server>>
  BY DEF GivesUp
<1>2. bench' = [p \in Places |-> bench'[p]] /\ \A p \in Places : bench'[p] \in {Nobody, bench[p]}
  BY <1>1 DEF GivenUp
<1>3. Operator \in Callers /\ file' \in Doc
  BY <1>1 DEF Callers, Inv, Typed
<1> QED BY <1>1, <1>2, <1>3, Over

\* A step of it that takes no lock.
LEMMA Before ==
    ASSUME Apart, Inv, call[Operator].pc \notin {"locked", "written"},
           NEW to \in {"planned", "held", "valued"}, NEW want \in Wants, NEW plan,
           call' = [call EXCEPT ![Operator].pc = to, ![Operator].want = want, ![Operator].plan = plan],
           UNCHANGED <<file, editor, lock, server>>,
           bench' = [p \in Places |-> bench'[p]],
           \A p \in Places : bench'[p] \in {Operator, Nobody, bench[p]}
    PROVE  Inv'
<1> Operator \in Callers
  BY DEF Callers
<1>1. /\ call'[Operator] = [call[Operator] EXCEPT !.pc = to, !.want = want, !.plan = plan]
      /\ \A d \in Callers \ {Operator} : call'[d] = call[d]
  BY DEF Inv, Typed
<1>2. Typed'
  <2>1. call' = [d \in Callers |-> call'[d]]
    BY DEF Inv, Typed
  <2>2. call'[Operator] = [pc |-> to, want |-> want, plan |-> plan, read |-> call[Operator].read]
        /\ call[Operator].read \in Doc
    BY <1>1 DEF Inv, Typed
  <2>3. \A d \in Callers \ {Operator} :
           /\ call'[d] = call[d] /\ call[d].read \in Doc /\ call[d].want \in Wants
           /\ call[d] = [pc |-> call[d].pc, want |-> call[d].want,
                         plan |-> call[d].plan, read |-> call[d].read]
    BY <1>1 DEF Inv, Typed
  <2> QED BY <2>1, <2>2, <2>3 DEF Inv, Typed
<1>3. call'[Operator].pc = to
  BY <1>1 DEF Inv, Typed
<1>4. ASSUME NEW d \in Callers PROVE Based(d)'
  <2>1. CASE d = Operator
    BY <1>3, <2>1 DEF Based
  <2>2. CASE d # Operator
    <3>1. call'[d] = call[d]
      BY <1>1, <2>2
    <3> QED BY <3>1 DEF Inv, Based
  <2> QED BY <2>1, <2>2
<1>5. ASSUME NEW s \in Servers PROVE Narrow(s)' /\ Holds(s)'
  <2>1. s # Operator /\ s # Nobody /\ s \in Callers
    BY DEF Apart, Callers
  <2>2. call'[s] = call[s]
    BY <1>1, <2>1
  <2>3. Narrow(s)'
    BY <2>2 DEF Inv, Narrow
  <2>4. Holds(s)'
    BY <2>1 DEF Inv, Holds
  <2> QED BY <2>3, <2>4
<1>6. Planned'
  BY <1>3 DEF Planned
<1> QED BY <1>2, <1>4, <1>5, <1>6 DEF Inv, GrantsFromStartup

LEMMA InvCommandLine == ASSUME Apart, Inv, Plan \/ Hold \/ ReadsValue \/ GrantLocks PROVE Inv'
<1> Operator \in Callers
  BY DEF Callers
<1>1. CASE Plan
  <2>1. PICK want \in [kind : {"permit"}, device : Devices, value : BOOLEAN]
                      \cup [kind : {"right"}, device : Rights, value : BOOLEAN] :
           call' = [call EXCEPT ![Operator].pc = "planned", ![Operator].want = want, ![Operator].plan = Described(file)]
    BY <1>1 DEF Plan
  <2>2. want \in Wants
    BY DEF Wants
  <2>3. call[Operator].pc = "out" /\ UNCHANGED <<file, editor, lock, bench, server>>
    BY <1>1 DEF Plan
  <2>4. bench' = [p \in Places |-> bench'[p]]
    BY <2>3 DEF Inv, Typed
  <2> QED BY <2>1, <2>2, <2>3, <2>4, Before
<1>2. ASSUME NEW to \in {"held", "valued"}, call[Operator].pc \notin {"locked", "written"},
             call' = [call EXCEPT ![Operator].pc = to], UNCHANGED <<file, editor, lock, server>>,
             bench' = [p \in Places |-> bench'[p]],
             \A p \in Places : bench'[p] \in {Operator, Nobody, bench[p]}
      PROVE  Inv'
  <2>1. call' = [call EXCEPT ![Operator].pc = to, ![Operator].want = call[Operator].want,
                             ![Operator].plan = call[Operator].plan]
    BY <1>2 DEF Inv, Typed
  <2>2. call[Operator].want \in Wants /\ to \in {"planned", "held", "valued"}
    BY DEF Inv, Typed
  <2> DEFINE plan == call[Operator].plan
  <2>3. call' = [call EXCEPT ![Operator].pc = to, ![Operator].want = call[Operator].want, ![Operator].plan = plan]
    BY <2>1
  <2> HIDE DEF plan
  <2> QED BY <1>2, <2>2, <2>3, Before
<1>3. ASSUME call[Operator].pc \notin {"locked", "written"}, call' = [call EXCEPT ![Operator] = NoCall],
             UNCHANGED <<file, editor, lock, server>>,
             bench' = [p \in Places |-> bench'[p]], \A p \in Places : bench'[p] \in {Nobody, bench[p]}
      PROVE  Inv'
  <2>1. file' \in Doc
    BY <1>3 DEF Inv, Typed
  <2> QED BY <1>3, <2>1, Over
<1>4. CASE Hold
  <2>1. call[Operator].pc = "planned" /\ UNCHANGED <<file, editor, lock, server>>
    BY <1>4 DEF Hold
  <2>2. CASE \A p \in Used(file) : bench[p] = Nobody
    <3>1. /\ bench' = [p \in Places |-> IF p \in Used(file) THEN Operator ELSE bench[p]]
          /\ call' = [call EXCEPT ![Operator].pc = "held"]
      BY <1>4, <2>2 DEF Hold
    <3> QED BY <1>2, <2>1, <3>1
  <2>3. CASE ~\A p \in Used(file) : bench[p] = Nobody
    <3>1. UNCHANGED bench /\ call' = [call EXCEPT ![Operator] = NoCall]
      BY <1>4, <2>3 DEF Hold
    <3>2. bench' = [p \in Places |-> bench'[p]]
      BY <3>1 DEF Inv, Typed
    <3> QED BY <1>3, <2>1, <3>1, <3>2
  <2> QED BY <2>2, <2>3
<1>5. CASE ReadsValue
  <2>1. call[Operator].pc = "held" /\ UNCHANGED <<file, editor, lock, server>>
    BY <1>5 DEF ReadsValue
  <2>2. CASE bench' = GivenUp /\ call' = [call EXCEPT ![Operator] = NoCall]
    BY <1>3, <2>1, <2>2 DEF GivenUp
  <2>3. CASE UNCHANGED bench /\ call' = [call EXCEPT ![Operator].pc = "valued"]
    <3>1. bench' = [p \in Places |-> bench'[p]]
      BY <2>3 DEF Inv, Typed
    <3> QED BY <1>2, <2>1, <2>3, <3>1
  <2> QED BY <1>5, <2>2, <2>3 DEF ReadsValue
<1>6. CASE GrantLocks
  <2>1. /\ lock = Nobody /\ lock' = Operator /\ ~Stale /\ Transact(Operator, call[Operator].want)
        /\ UNCHANGED <<file, editor, bench, server>>
    BY <1>6 DEF GrantLocks
  <2>2. call[Operator].want \in Wants
    BY DEF Inv, Typed
  <2>3. Typed' /\ \A c \in Callers : Based(c)'
    BY <2>1, <2>2, Locks
  <2>4. call' = [call EXCEPT ![Operator].pc = "locked", ![Operator].want = call[Operator].want, ![Operator].read = file]
    BY <2>1 DEF Transact
  <2>5. /\ call'[Operator].read = file /\ call'[Operator].plan = call[Operator].plan
        /\ \A c \in Callers \ {Operator} : call'[c] = call[c]
    BY <2>4 DEF Inv, Typed
  <2>6. Described(file) = call[Operator].plan
    BY <2>1 DEF Stale
  <2>7. Planned'
    BY <2>5, <2>6 DEF Planned, Described
  <2>8. \A s \in Servers : Narrow(s)' /\ Holds(s)'
    BY <2>1, <2>5 DEF Apart, Inv, Narrow, Holds, Callers
  <2> QED BY <2>1, <2>3, <2>7, <2>8 DEF Inv, GrantsFromStartup
<1> QED BY <1>1, <1>4, <1>5, <1>6

LEMMA InvStep == Apart /\ Inv /\ [Next]_vars => Inv'
<1> SUFFICES ASSUME Apart, Inv, [Next]_vars PROVE Inv'
  OBVIOUS
<1>1. CASE UNCHANGED vars
  BY <1>1 DEF vars, Inv, Typed, Based, Narrow, Holds, Planned, GrantsFromStartup
<1>2. CASE Next
  BY <1>2, InvEdit, InvServer, InvSetLocks, InvWrites, InvSettles, InvGivesUp, InvCommandLine DEF Next
<1> QED BY <1>1, <1>2

LEMMA InvHolds == Apart => (Spec => []Inv)
<1> SUFFICES ASSUME Apart PROVE Spec => []Inv
  OBVIOUS
<1>1. Init => Inv
  BY InvInit
<1>2. Inv /\ [Next]_vars => Inv'
  BY InvStep
<1> QED BY <1>1, <1>2, PTL DEF Spec

-----------------------------------------------------------------------------
(* The theorems.                                                           *)

\* A server never has a grant its startup document did not give, through any
\* number of reloads (configreload.py:29-35).
THEOREM NoGrantByReload == Apart => (Spec => []GrantsFromStartup)
<1>1. Inv => GrantsFromStartup
  BY DEF Inv
<1> QED BY <1>1, InvHolds, PTL

\* A server's write opens nothing, whatever other writers do beside it: what it
\* may write over is an edit that took no lock (configwrite.py:257-278).
LEMMA WriteNarrows ==
    ASSUME Apart, Inv, Next, NEW s \in Servers, editor' = s, file' # file, Opens
    PROVE  editor = Nobody /\ file # call[s].read
<1> s \in Callers /\ s # Nobody
  BY DEF Callers, Apart
<1>1. CASE \E c \in Callers : Writes(c)
  <2>1. PICK c \in Callers : Writes(c)
    BY <1>1
  <2>2. c = s /\ call[s].pc = "locked"
    BY <2>1 DEF Writes
  <2>3. file' = [Changed(call[s].read, call[s].want) EXCEPT !.writes = @ + 1]
    BY <2>1, <2>2 DEF Writes
  <2>4. call[s].read \in Doc /\ call[s].want \in Wants
    BY DEF Inv, Typed
  <2>5. /\ Changed(call[s].read, call[s].want) \in Doc
        /\ Changed(call[s].read, call[s].want).grants \subseteq call[s].read.grants
        /\ Changed(call[s].read, call[s].want).rights \subseteq call[s].read.rights
    BY <2>2, <2>4, ChangedIs, ChangedNarrows DEF Inv, Narrow
  <2>6. file'.grants \subseteq call[s].read.grants /\ file'.rights \subseteq call[s].read.rights
    BY <2>3, <2>5, WrittenIs
  <2> QED BY <2>2, <2>6 DEF Inv, Based, Opens
<1>2. CASE \E c \in Callers : Settles(c)
  <2>1. PICK c \in Callers : Settles(c)
    BY <1>2
  <2>2. call[c].pc = "written" /\ ~file.loads /\ file' = call[c].read /\ editor' = c
    BY <2>1 DEF Settles
  <2> QED BY <2>2 DEF Inv, Based
<1>3. ASSUME UNCHANGED file PROVE FALSE
  BY <1>3
<1>4. CASE Edit
  BY <1>4 DEF Edit
<1>5. ASSUME NEW t \in Servers, Start(t) \/ Stop(t) \/ RunStarts(t) \/ RunEnds(t) \/ Reload(t) \/ SetLocks(t)
      PROVE  FALSE
  BY <1>3, <1>5 DEF Start, Stop, RunStarts, RunEnds, Reload, SetLocks
<1>6. ASSUME Plan \/ Hold \/ ReadsValue \/ GrantLocks \/ GivesUp PROVE FALSE
  BY <1>3, <1>6 DEF Plan, Hold, ReadsValue, GrantLocks, GivesUp
<1> QED BY <1>1, <1>2, <1>4, <1>5, <1>6 DEF Next

\* The same of the specification: an agent's call only narrows
\* (configwrite.py:257-278).
THEOREM AgentOnlyNarrows == Apart => (Spec => AgentNarrows)
<1> SUFFICES ASSUME Apart PROVE Spec => AgentNarrows
  OBVIOUS
<1>1. Inv /\ [Next]_vars =>
        [\A s \in Servers :
           editor' = s /\ file' # file /\ Opens => editor = Nobody /\ file # call[s].read]_vars
  BY WriteNarrows DEF vars
<1> QED BY <1>1, InvHolds, PTL DEF Spec, AgentNarrows

\* A grant or revoke that holds what it planned on lands beside no run of a server
\* on the description on disk (cli.py:3240-3250).
THEOREM GrantBesideNoRun == Apart => (Spec => GrantExcludesRuns)
<1> SUFFICES ASSUME Apart PROVE Spec => GrantExcludesRuns
  OBVIOUS
<1>1. ASSUME Inv, call[Operator].pc = "locked", file = call[Operator].read,
             \A p \in Used(call[Operator].plan) : bench[p] = Operator,
             NEW s \in Servers, server[s].digest.at = file.at
      PROVE  ~Running(s)
  <2>1. Used(server[s].digest) = Used(call[Operator].plan)
    BY <1>1 DEF Inv, Planned, Used, Named
  <2>2. SUFFICES ASSUME NEW p \in Places, bench[p] = s PROVE FALSE
    BY DEF Running
  <2>3. p \in Used(server[s].digest)
    BY <1>1, <2>2 DEF Inv, Holds
  <2> QED BY <1>1, <2>1, <2>2, <2>3 DEF Apart
<1>2. Inv /\ [Next]_vars =>
        [/\ call[Operator].pc = "locked" /\ call'[Operator].pc = "written"
         /\ file = call[Operator].read
         /\ \A p \in Used(call[Operator].plan) : bench[p] = Operator
         => \A s \in Servers : server[s].up /\ server[s].digest.at = file.at => ~Running(s)]_vars
  BY <1>1
<1> QED BY <1>2, InvHolds, PTL DEF Spec, GrantExcludesRuns

-----------------------------------------------------------------------------
(* What a server says of its file.                                         *)

\* A grant stands in the entry of its device: the first document gives none to a
\* device it does not name, and the mark of a missing entry is no place.
Rooted == Absent \notin Places /\ First.grants \subseteq Named(First)

\* The document a writer read under the lock, and what it is to change there.
ReadInEntries(c) ==
    call[c].pc \in {"locked", "written"} =>
        /\ InEntries(call[c].read)
        /\ call[c].want.kind = "permit" => call[c].want.device \in Named(call[c].read)

\* What is left of a server's grants belongs to its description, and a server whose
\* permissions match its description has that description's.
Matched(s) ==
    /\ server[s].grants \subseteq Named(server[s].digest)
    /\ server[s].match => /\ server[s].grants = server[s].digest.grants
                          /\ server[s].startup.rights = server[s].digest.rights

MatchInv ==
    /\ InEntries(file)
    /\ \A c \in Callers : ReadInEntries(c)
    /\ \A s \in Servers : Matched(s)

\* A change of a document leaves its grants in its entries.
LEMMA ChangedInEntries ==
    ASSUME Rooted, NEW doc \in Doc, InEntries(doc), NEW want \in Wants,
           want.kind = "permit" => want.device \in Named(doc)
    PROVE  InEntries([Changed(doc, want) EXCEPT !.writes = @ + 1])
<1> DEFINE new == Changed(doc, want)
           last == [new EXCEPT !.writes = @ + 1]
<1>1. new \in Doc
  BY ChangedIs
<1>2. last.grants = new.grants /\ last.at = new.at
  BY <1>1 DEF Doc
<1>3. InEntries(new)
  <2>1. CASE want.kind = "move"
    <3>1. want.device \in Devices /\ want.value \in Places
      BY <2>1 DEF Wants, NoChange
    <3>2. new = [doc EXCEPT !.at[want.device] = want.value]
      BY <2>1 DEF Changed
    <3>3. new.grants = doc.grants /\ \A d \in Devices : d \in Named(doc) => new.at[d] # Absent
      BY <3>1, <3>2 DEF Doc, Rooted, Named
    <3> HIDE DEF new
    <3> QED BY <3>3 DEF InEntries, Named
  <2>2. CASE want.kind = "permit" /\ want.value
    <3>1. new = [doc EXCEPT !.grants = @ \cup {want.device}]
      BY <2>2 DEF Changed
    <3>2. new.grants = doc.grants \cup {want.device} /\ new.at = doc.at
      BY <3>1 DEF Doc
    <3> HIDE DEF new
    <3> QED BY <2>2, <3>2 DEF InEntries, Named
  <2>3. CASE want.kind = "permit" /\ ~want.value
    <3>1. new = [doc EXCEPT !.grants = @ \ {want.device}]
      BY <2>3 DEF Changed
    <3>2. new.grants \subseteq doc.grants /\ new.at = doc.at
      BY <3>1 DEF Doc
    <3> HIDE DEF new
    <3> QED BY <3>2 DEF InEntries, Named
  <2>4. CASE want.kind \notin {"move", "permit"}
    <3>1. \E rights : new = [doc EXCEPT !.rights = rights]
      BY <2>4 DEF Changed
    <3>2. new.grants = doc.grants /\ new.at = doc.at
      BY <3>1 DEF Doc
    <3> HIDE DEF new
    <3> QED BY <3>2 DEF InEntries, Named
  <2> QED BY <2>1, <2>2, <2>3, <2>4
<1> QED BY <1>2, <1>3 DEF InEntries, Named

\* A server that starts matches its file.
LEMMA LoadedMatches ==
    ASSUME NEW doc \in Doc, InEntries(doc), NEW s \in Servers,
           server'[s] = Loaded(doc) \/ server'[s] = [Loaded(doc) EXCEPT !.up = FALSE]
    PROVE  Matched(s)'
<1>1. /\ server'[s].grants = doc.grants /\ server'[s].digest = doc /\ server'[s].startup = doc
  BY DEF Loaded
<1> QED BY <1>1 DEF Matched, InEntries

\* A reload compares what it is about to enforce with what the file gives.
LEMMA ReloadMatches ==
    ASSUME Inv, MatchInv, NEW s \in Servers, Reload(s)
    PROVE  \A t \in Servers : Matched(t)'
<1>1. server' = [server EXCEPT ![s].digest = file, ![s].grants = Carried(s, file),
                               ![s].match = ~Differs(s, file)]
  BY DEF Reload
<1>2. /\ server'[s].digest = file /\ server'[s].grants = Carried(s, file)
      /\ server'[s].match = ~Differs(s, file) /\ server'[s].startup = server[s].startup
      /\ \A t \in Servers \ {s} : server'[t] = server[t]
  BY <1>1 DEF Inv, Typed
<1>3. Matched(s)'
  <2>1. server'[s].grants \subseteq Named(file)
    BY <1>2 DEF Carried
  <2>2. ASSUME ~Differs(s, file)
        PROVE  server'[s].grants = file.grants /\ server'[s].startup.rights = file.rights
    BY <1>2, <2>2 DEF Differs, Carried, MatchInv, InEntries
  <2>3. Named(server[s].digest)' = Named(file)
    BY <1>2 DEF Named
  <2> QED BY <1>2, <2>1, <2>2, <2>3 DEF Matched
<1>4. ASSUME NEW t \in Servers \ {s} PROVE Matched(t)'
  BY <1>2 DEF Matched, MatchInv, Named
<1> QED BY <1>3, <1>4

LEMMA MatchInit == Apart /\ Rooted /\ Init => MatchInv
<1> SUFFICES ASSUME Apart, Rooted, Init PROVE MatchInv
  OBVIOUS
<1>1. InEntries(First) /\ file = First
  BY DEF Rooted, InEntries, Init
<1>2. \A c \in Callers : call[c].pc = "out"
  BY DEF Init, NoCall
<1>3. \A s \in Servers : /\ server[s].grants = First.grants
                         /\ server[s].digest = First /\ server[s].startup = First
  BY DEF Init, Down, Loaded
<1> QED BY <1>1, <1>2, <1>3 DEF MatchInv, ReadInEntries, Matched, InEntries

\* A step that moves neither the document nor what a server enforces, and takes no
\* lock.
LEMMA MatchKept ==
    ASSUME MatchInv, UNCHANGED <<file, server>>,
           \A c \in Callers : UNCHANGED call[c] \/ call'[c].pc \notin {"locked", "written"}
    PROVE  MatchInv'
BY DEF MatchInv, InEntries, ReadInEntries, Matched, Named

\* The lock is taken on a document whose grants are in its entries.
LEMMA MatchLocks ==
    ASSUME Inv, MatchInv, NEW c \in Callers, NEW want \in Wants, Transact(c, want),
           UNCHANGED <<file, server>>
    PROVE  MatchInv'
<1>1. /\ want.kind = "permit" => want.device \in Named(file)
      /\ call' = [call EXCEPT ![c].pc = "locked", ![c].want = want, ![c].read = file]
  BY DEF Transact, Applies
<1>2. /\ call'[c].read = file /\ call'[c].want = want
      /\ \A d \in Callers \ {c} : call'[d] = call[d]
  BY <1>1 DEF Inv, Typed
<1>3. ReadInEntries(c)'
  BY <1>1, <1>2 DEF ReadInEntries, MatchInv, InEntries, Named
<1>4. \A d \in Callers \ {c} : ReadInEntries(d)'
  BY <1>2 DEF ReadInEntries, MatchInv, InEntries, Named
<1> QED BY <1>3, <1>4 DEF MatchInv, InEntries, Matched, Named

LEMMA MatchStep == Apart /\ Rooted /\ Inv /\ MatchInv /\ [Next]_vars => MatchInv'
<1> SUFFICES ASSUME Apart, Rooted, Inv, MatchInv, [Next]_vars PROVE MatchInv'
  OBVIOUS
<1>t. Typed
  BY DEF Inv
<1>o. Operator \in Callers /\ Servers \subseteq Callers
  BY DEF Callers
<1>1. CASE Edit
  <2>1. UNCHANGED <<server, call>>
    BY <1>1 DEF Edit
  <2>2. InEntries(file)'
    BY <1>1, <1>t, EditedIs DEF InEntries, Named
  <2> QED BY <2>1, <2>2 DEF MatchInv, InEntries, ReadInEntries, Matched, Named
<1>2. ASSUME NEW s \in Servers, Start(s) PROVE MatchInv'
  <2>1. server' = [server EXCEPT ![s] = Loaded(file)] /\ UNCHANGED <<file, call>>
    BY <1>2 DEF Start
  <2>2. server'[s] = Loaded(file) /\ \A t \in Servers \ {s} : server'[t] = server[t]
    BY <1>t, <2>1 DEF Typed
  <2>4. Matched(s)'
    BY <1>t, <2>2, LoadedMatches DEF Typed, MatchInv
  <2>5. \A t \in Servers \ {s} : Matched(t)'
    BY <2>2 DEF MatchInv, Matched, Named
  <2> QED BY <2>1, <2>4, <2>5 DEF MatchInv, InEntries, ReadInEntries, Named
<1>3. ASSUME NEW s \in Servers, Stop(s) PROVE MatchInv'
  <2>1. /\ server' = [server EXCEPT ![s] = Down] /\ call' = [call EXCEPT ![s] = NoCall]
        /\ UNCHANGED file
    BY <1>3 DEF Stop
  <2>2. /\ server'[s] = Down /\ \A t \in Servers \ {s} : server'[t] = server[t]
        /\ call'[s] = NoCall /\ \A c \in Callers \ {s} : call'[c] = call[c]
    BY <1>t, <1>o, <2>1 DEF Typed
  <2>3. Matched(s)'
    BY <2>2, LoadedMatches DEF Down, Apart, Rooted, InEntries
  <2>4. \A t \in Servers \ {s} : Matched(t)'
    BY <2>2 DEF MatchInv, Matched, Named
  <2>5. \A c \in Callers : ReadInEntries(c)'
    BY <2>2 DEF MatchInv, ReadInEntries, NoCall, InEntries, Named
  <2> QED BY <2>1, <2>3, <2>4, <2>5 DEF MatchInv, InEntries, Named
<1>4. ASSUME NEW s \in Servers, RunStarts(s) \/ RunEnds(s) PROVE MatchInv'
  BY <1>4, MatchKept DEF RunStarts, RunEnds
<1>5. ASSUME NEW s \in Servers, Reload(s) PROVE MatchInv'
  <2>1. UNCHANGED <<file, call>>
    BY <1>5 DEF Reload
  <2>2. \A t \in Servers : Matched(t)'
    BY <1>5, ReloadMatches
  <2> QED BY <2>1, <2>2 DEF MatchInv, InEntries, ReadInEntries, Named
<1>6. ASSUME NEW s \in Servers, SetLocks(s) PROVE MatchInv'
  BY <1>6, <1>o, MatchLocks DEF SetLocks
<1>7. CASE GrantLocks
  <2>1. Transact(Operator, call[Operator].want) /\ UNCHANGED <<file, server>>
    BY <1>7 DEF GrantLocks
  <2>2. call[Operator].want \in Wants
    BY <1>t, <1>o DEF Typed
  <2> QED BY <1>o, <2>1, <2>2, MatchLocks
<1>8. ASSUME NEW c \in Callers, Writes(c) PROVE MatchInv'
  <2>1. /\ call[c].pc = "locked"
        /\ file' = [Changed(call[c].read, call[c].want) EXCEPT !.writes = @ + 1]
        /\ call' = [call EXCEPT ![c].pc = "written"] /\ UNCHANGED server
    BY <1>8 DEF Writes
  <2>2. call[c].read \in Doc /\ call[c].want \in Wants
    BY <1>t DEF Typed
  <2>3. InEntries(file')
    BY <2>1, <2>2, ChangedInEntries DEF MatchInv, ReadInEntries
  <2>4. /\ call'[c].read = call[c].read /\ call'[c].want = call[c].want
        /\ \A d \in Callers \ {c} : call'[d] = call[d]
    BY <1>t, <2>1 DEF Typed
  <2>5. \A d \in Callers : ReadInEntries(d)'
    BY <2>1, <2>4 DEF MatchInv, ReadInEntries, InEntries, Named
  <2> QED BY <2>1, <2>3, <2>5 DEF MatchInv, InEntries, Matched, Named
<1>9. ASSUME NEW c \in Callers, Settles(c) PROVE MatchInv'
  <2>1. /\ call[c].pc = "written" /\ call' = [call EXCEPT ![c] = NoCall]
        /\ file' \in {file, call[c].read} /\ UNCHANGED server
    BY <1>9 DEF Settles
  <2>2. call'[c] = NoCall /\ \A d \in Callers \ {c} : call'[d] = call[d]
    BY <1>t, <2>1 DEF Typed
  <2>3. InEntries(file')
    BY <2>1 DEF MatchInv, ReadInEntries
  <2>4. \A d \in Callers : ReadInEntries(d)'
    BY <2>2 DEF MatchInv, ReadInEntries, NoCall, InEntries, Named
  <2> QED BY <2>1, <2>3, <2>4 DEF MatchInv, InEntries, Matched, Named
<1>10. ASSUME Plan \/ Hold \/ ReadsValue \/ GivesUp PROVE MatchInv'
  <2>1. UNCHANGED <<file, server>>
    BY <1>10 DEF Plan, Hold, ReadsValue, GivesUp
  <2>2. \A c \in Callers \ {Operator} : call'[c] = call[c]
    BY <1>10, <1>t DEF Plan, Hold, ReadsValue, GivesUp, Typed
  <2>3. call'[Operator].pc \in {"planned", "held", "valued", "out"} \/ UNCHANGED call[Operator]
    <3>1. CASE Plan
      BY <3>1, <1>t, <1>o DEF Plan, Typed
    <3>2. CASE Hold
      BY <3>2, <1>t, <1>o DEF Hold, Typed, NoCall
    <3>3. CASE ReadsValue
      BY <3>3, <1>t, <1>o DEF ReadsValue, Typed, NoCall
    <3>4. CASE GivesUp
      BY <3>4, <1>t, <1>o DEF GivesUp, Typed, NoCall
    <3> QED BY <1>10, <3>1, <3>2, <3>3, <3>4
  <2> QED BY <2>1, <2>2, <2>3, MatchKept
<1>11. CASE UNCHANGED vars
  BY <1>11, MatchKept DEF vars
<1> QED BY <1>1, <1>2, <1>3, <1>4, <1>5, <1>6, <1>7, <1>8, <1>9, <1>10, <1>11 DEF Next

\* A server that says nothing of its file having changed enforces that file, its
\* grants included, after any reloads and any edits, wherever the file is not the
\* one it started from (configstate.py:148-250, 277-320).
THEOREM StatusIsHonest == Apart /\ Rooted => (Spec => []StatusHonest)
<1> SUFFICES ASSUME Apart, Rooted PROVE Spec => []StatusHonest
  OBVIOUS
<1>1. Init => MatchInv
  BY MatchInit
<1>2. Inv /\ MatchInv /\ [Next]_vars => MatchInv'
  BY MatchStep
<1>3. MatchInv => StatusHonest
  BY DEF MatchInv, Matched, StatusHonest, Unchanged, Disclosed, Enforced
<1> QED BY <1>1, <1>2, <1>3, InvHolds, PTL DEF Spec
=============================================================================
