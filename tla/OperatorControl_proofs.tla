----------------------- MODULE OperatorControl_proofs -----------------------
(***************************************************************************)
(* Theorems about OperatorControl, for every number of terminals, process  *)
(* ids, workers, births and faults.                                        *)
(*                                                                         *)
(* Inv says what each place of a control (Placed) means for the journal    *)
(* and for the processes Orion started, and what is left when no control   *)
(* runs: Covered and Witnessed survive a crash because they speak of       *)
(* files, workers and processes alone.                                     *)
(***************************************************************************)
EXTENDS OperatorControl, FiniteSetTheorems, TLAPS

Commanding == {"mark", "spawn", "consent", "wait"}
Starting == Commanding \cup {"create", "compare", "markOllama", "ollama",
                             "record", "ollamaUp", "hermes", "confirm",
                             "ready", "journal"}
Stopping == Commanding \cup {"create", "verify", "kill", "session", "journal"}
Marked == {"spawn", "consent", "wait", "ollama", "record"}

Idents == [pid : Pids \cup {0}, born : Nat]
Files == [is : {"none", "torn", "record"}, here : BOOLEAN, ollama : Idents,
          inFlight : BOOLEAN]
Controls == [at : Starting \cup Stopping \cup {"idle"},
             action : {"none", "start", "stop", "recover"},
             op : Files, child : Idents,
             verb : {"none", "status", "start", "stop"},
             then : {"none", "compare", "confirm", "verify"},
             worker : Slots \cup {0},
             presence : {"unknown", "running", "absent"}]
Workers == [verb : {"none", "status", "start", "stop"},
            phase : {"none", "waiting", "told", "over"},
            presence : {"unknown", "running", "absent"}]
Processes == [born : Nat, orion : BOOLEAN]

\* A file that is no record says nothing.
Shaped(f) == /\ f.is = "none" => f = NoFile
             /\ f.is = "torn" => f = Torn

\* Every variable has its type.
TypeOK ==
    /\ ctl \in [Terminals -> Controls]
    /\ journal \in Files /\ Shaped(journal)
    /\ session \in Files /\ Shaped(session)
    /\ workers \in [Slots -> Workers]
    /\ procs \in [Pids -> Processes]
    /\ hermes \in {"running", "absent"}
    /\ births \in Nat /\ faults \in Nat
    /\ killed \subseteq Processes

\* One control at a time: the lifecycle lock.
Locked == \A t, u \in Terminals :
              ctl[t].at # "idle" /\ ctl[u].at # "idle" => t = u

\* An identity on record or in memory is that of a process Orion started:
\* no other was or will be born at that moment.
Own(ident) ==
    ident.pid # 0 =>
        /\ ident.born \in 1 .. births
        /\ \A p \in Pids : procs[p].born = ident.born => procs[p].orion

Owned ==
    /\ \A p \in Pids : procs[p].born <= births
    /\ Own(journal.ollama) /\ Own(session.ollama)
    /\ \A t \in Terminals : Own(ctl[t].op.ollama) /\ Own(ctl[t].child)

Id(p) == [pid |-> p, born |-> procs[p].born]

\* Before Ollama is started.
Early(c) == \/ c.at \in {"create", "compare", "markOllama", "ollama"}
            \/ c.at \in Commanding /\ c.then = "compare"

PlacedStart(c) ==
    /\ c.at \in Starting
    /\ c.at \in Commanding => c.then \in {"compare", "confirm"}
    /\ Early(c) => c.child = Nobody
    /\ c.op.ollama = IF c.at = "record" THEN Nobody ELSE c.child
    /\ \A p \in Pids : procs[p].orion => Id(p) = c.child
    /\ c.at = "journal" => session = c.op

PlacedStop(c) ==
    /\ c.at \in Stopping
    /\ c.at \in Commanding => c.then = "verify"
    /\ \A p \in Pids : procs[p].orion =>
           c.at \notin {"session", "journal"} /\ Id(p) = c.op.ollama

PlacedRecover(c) ==
    /\ c.at \in {"session", "journal"}
    /\ c.op = NoFile
    /\ \A p \in Pids : ~procs[p].orion

\* The journal of a start or stop is what the control has in memory; one that
\* waits for a worker knows which.
Journaled(c) ==
    /\ c.at \in {"consent", "wait"} => c.worker \in Slots
    /\ c.op.is = "record" /\ c.op.here
    /\ c.op.inFlight <=> c.at \in Marked
    /\ journal = IF c.at = "create" THEN Torn ELSE c.op

\* What the place of a control says of files and processes.
Placed(c) ==
    c.at # "idle" =>
        \/ c.action = "start" /\ PlacedStart(c) /\ Journaled(c)
        \/ c.action = "stop" /\ PlacedStop(c) /\ Journaled(c)
        \/ c.action = "recover" /\ PlacedRecover(c)

\* A worker that may still act is the only one, has its durable marker, and
\* is the one the control waits for, if that still runs.
Witnessed ==
    /\ \A s \in Slots : Acting(s) =>
           /\ journal.here /\ journal.inFlight
           /\ \A t \in Terminals : ctl[t].at # "idle" =>
                  ctl[t].at \in {"consent", "wait"} /\ ctl[t].worker = s
    /\ \A s, u \in Slots : Acting(s) /\ Acting(u) => s = u

Covered ==
    \A p \in Pids : procs[p].orion =>
        \/ Names(journal, Id(p)) \/ Names(session, Id(p))
        \/ journal.here /\ journal.inFlight

Spared == \A k \in killed : k.orion

Inv == /\ TypeOK
       /\ Locked
       /\ Owned
       /\ \A t \in Terminals : Placed(ctl[t])
       /\ Witnessed
       /\ Covered
       /\ Spared

-----------------------------------------------------------------------------
(* Steps that many actions share.                                          *)

LEMMA Shapes ==
    /\ NoFile \in Files /\ Torn \in Files /\ NewOp \in Files
    /\ Shaped(NoFile) /\ Shaped(Torn)
    /\ NoFile.is = "none" /\ Torn.is = "torn" /\ NewOp.is = "record"
    /\ ~NoFile.here /\ ~Torn.here /\ NewOp.here
    /\ ~NoFile.inFlight /\ ~Torn.inFlight /\ ~NewOp.inFlight
    /\ NoFile.ollama = Nobody /\ Torn.ollama = Nobody /\ NewOp.ollama = Nobody
    /\ Idle \in Controls /\ Idle.at = "idle" /\ Idle.op = NoFile
    /\ Idle.child = Nobody
    /\ NoWorker \in Workers /\ Dead \in Processes
BY DEF NoFile, Torn, NewOp, Files, Idents, Nobody, Shaped, Idle, Controls,
       NoWorker, Workers, Dead, Processes, Starting, Stopping, Commanding

LEMMA Identities ==
    \A p \in Pids : /\ Id(p).pid = p /\ Id(p).born = procs[p].born
                    /\ Id(p) # Nobody
BY OperatorAssumption DEF Id, Nobody

LEMMA InitInv == Init => Inv
<1> SUFFICES ASSUME Init PROVE Inv
  OBVIOUS
<1> USE Shapes
<1>1. TypeOK
  BY DEF Init, TypeOK, Workers, NoWorker
<1>2. Locked /\ \A t \in Terminals : Placed(ctl[t])
  BY DEF Init, Locked, Placed
<1>3. Owned
  BY DEF Init, Owned, Own, Nobody, Dead
<1>4. Witnessed
  BY DEF Init, Witnessed, Acting, NoWorker
<1>5. Covered /\ Spared
  BY DEF Init, Covered, Spared, Dead
<1> QED
  BY <1>1, <1>2, <1>3, <1>4, <1>5 DEF Inv

\* While one control runs, or none, a step of one leaves the others idle.
LEMMA OneRuns ==
    ASSUME TypeOK, Locked, NEW t \in Terminals,
           ctl[t].at # "idle" \/ Unlocked,
           NEW d \in Controls, ctl' = [ctl EXCEPT ![t] = d],
           Placed(ctl[t])'
    PROVE  /\ ctl' \in [Terminals -> Controls] /\ ctl'[t] = d
           /\ Locked'
           /\ \A u \in Terminals : Placed(ctl[u])'
           /\ \A u \in Terminals : u # t => ctl'[u].at = "idle"
<1>1. ctl' \in [Terminals -> Controls] /\ ctl'[t] = d
  BY DEF TypeOK
<1>2. \A u \in Terminals : u # t => ctl'[u].at = "idle"
  BY DEF TypeOK, Locked, Unlocked
<1>3. Locked'
  BY <1>1, <1>2 DEF Locked
<1>4. \A u \in Terminals : Placed(ctl[u])'
  BY <1>2 DEF Placed
<1> QED
  BY <1>1, <1>2, <1>3, <1>4

\* The identities of memory and files are Orion's own after a step that
\* starts no process, when each of them was known before.
LEMMA StillOwned ==
    ASSUME TypeOK, Owned, NEW t \in Terminals, NEW d \in Controls,
           ctl' = [ctl EXCEPT ![t] = d], births' = births,
           \A p \in Pids : procs'[p] = procs[p] \/ procs'[p] = Dead,
           Own(journal'.ollama), Own(session'.ollama),
           Own(d.op.ollama), Own(d.child)
    PROVE  Owned'
<1>1. \A i : Own(i) => Own(i)'
  <2> SUFFICES ASSUME NEW i, Own(i), i.pid # 0 PROVE Own(i)'
    BY DEF Own
  <2>1. i.born \in 1 .. births'
    BY DEF Own
  <2>2. \A p \in Pids : procs'[p].born = i.born => procs'[p].orion
    BY <2>1 DEF Own, Dead, TypeOK
  <2> QED
    BY <2>1, <2>2 DEF Own
<1>2. \A p \in Pids : procs'[p].born <= births'
  BY DEF Owned, Dead, TypeOK
<1>3. Own(journal.ollama)' /\ Own(session.ollama)'
  BY <1>1
<1>4. ASSUME NEW u \in Terminals
      PROVE  Own(ctl[u].op.ollama)' /\ Own(ctl[u].child)'
  BY <1>1 DEF Owned, TypeOK
<1> QED
  BY <1>2, <1>3, <1>4 DEF Owned

\* No worker acts while a control is not waiting for one.
LEMMA NoneActs ==
    ASSUME Witnessed, NEW t \in Terminals,
           ctl[t].at \notin {"idle", "consent", "wait"}
    PROVE  \A s \in Slots : ~Acting(s)
BY DEF Witnessed

LEMMA Commands ==
    ASSUME NEW c \in Controls, NEW verb \in {"status", "start", "stop"},
           NEW then \in {"none", "compare", "confirm", "verify"}
    PROVE  LET d == Command(c, verb, then)
           IN /\ d \in Controls /\ d.at = "mark" /\ d.then = then
              /\ d.op = c.op /\ d.child = c.child /\ d.action = c.action
<1> DEFINE d == [c EXCEPT !.at = "mark", !.verb = verb, !.then = then]
<1>1. "mark" \in Starting
  BY DEF Starting, Commanding
<1>2. d \in Controls
  BY <1>1 DEF Controls
<1> QED
  BY <1>2 DEF Command, Controls

\* A control that only moves on.
LEMMA Moves ==
    ASSUME Inv, NEW t \in Terminals, NEW d \in Controls,
           ctl' = [ctl EXCEPT ![t] = d], UNCHANGED <<files, windows, faults, killed>>,
           ctl[t].at \notin {"idle", "consent", "wait"},
           d.op = ctl[t].op, d.child = ctl[t].child, Placed(d)
    PROVE  Inv'
<1> USE DEF files, windows
<1>1. ctl'[t] = d
  BY DEF Inv, TypeOK
<1>2. Placed(ctl[t])'
  BY <1>1 DEF Placed, PlacedStart, PlacedStop, PlacedRecover, Journaled, Id, Early
<1>3. ctl' \in [Terminals -> Controls] /\ Locked' /\ \A u \in Terminals : Placed(ctl[u])'
  BY <1>2, OneRuns DEF Inv
<1>4. TypeOK'
  BY <1>3 DEF Inv, TypeOK
<1>5. Owned'
  <2>1. Own(journal'.ollama) /\ Own(session'.ollama) /\ Own(d.op.ollama) /\ Own(d.child)
    BY DEF Inv, Owned
  <2> QED
    BY <2>1, StillOwned DEF Inv
<1>6. Witnessed'
  <2>1. \A s \in Slots : ~Acting(s)
    BY NoneActs DEF Inv
  <2> QED
    BY <2>1 DEF Witnessed, Acting
<1>7. Covered' /\ Spared'
  BY DEF Inv, Covered, Spared, Id, Names
<1> QED
  BY <1>3, <1>4, <1>5, <1>6, <1>7 DEF Inv

\* Nothing of Orion runs unrecorded, given what a control that has its
\* journal knows.
LEMMA JournalNames ==
    ASSUME TypeOK, NEW c \in Controls, NEW f \in Files,
           c.action \in {"start", "stop"}, Placed(c), c.at # "idle",
           f.is = "record", f.here,
           \/ f.ollama = IF c.action = "start" THEN c.child ELSE c.op.ollama
           \/ f.inFlight
    PROVE  \A p \in Pids : procs[p].orion =>
               Names(f, Id(p)) \/ (f.here /\ f.inFlight)
BY DEF Placed, PlacedStart, PlacedStop, Names

\* A control that writes op to its journal and goes on.
LEMMA Writes ==
    ASSUME Inv, NEW t \in Terminals, NEW d \in Controls,
           ctl' = [ctl EXCEPT ![t] = d], journal' = d.op,
           UNCHANGED <<session, procs, hermes, births, faults, killed>>,
           ctl[t].at # "idle", d.action \in {"start", "stop"}, d.at # "idle",
           d.child = ctl[t].child, Own(d.op.ollama), Shaped(d.op),
           workers' \in [Slots -> Workers], \A s \in Slots : ~Acting(s)',
           Placed(ctl[t])', d.at = "record" => d.op.inFlight
    PROVE  Inv'
<1>1. ctl'[t] = d
  BY DEF Inv, TypeOK
<1>2. ctl' \in [Terminals -> Controls] /\ Locked' /\ \A u \in Terminals : Placed(ctl[u])'
  BY OneRuns DEF Inv
<1>3. TypeOK'
  BY <1>2 DEF Inv, TypeOK, Controls
<1>4. Owned'
  <2>1. Own(journal'.ollama) /\ Own(session'.ollama) /\ Own(d.op.ollama) /\ Own(d.child)
    BY DEF Inv, Owned
  <2> QED
    BY <2>1, StillOwned DEF Inv
<1>5. Witnessed'
  BY DEF Witnessed
<1>6. Covered'
  <2>1. ASSUME NEW p \in Pids, procs'[p].orion
        PROVE  Names(journal', Id(p)') \/ (journal'.here /\ journal'.inFlight)
    <3>1. d.op.is = "record" /\ d.op.here
      BY <1>1 DEF Placed, Journaled
    <3>2. CASE d.at = "record"
      BY <3>1, <3>2
    <3>3. CASE d.at # "record"
      <4>1. Id(p)' = d.op.ollama
        BY <1>1, <2>1, <3>3 DEF Placed, PlacedStart, PlacedStop, Id
      <4> QED
        BY <3>1, <4>1 DEF Names
    <3> QED
      BY <3>2, <3>3
  <2> QED
    BY <2>1 DEF Covered, Names, Id
<1>7. Spared'
  BY DEF Inv, Spared
<1> QED
  BY <1>2, <1>3, <1>4, <1>5, <1>6, <1>7 DEF Inv

\* A control that ends: refused, failed, or crashed.
LEMMA Ends ==
    ASSUME Inv, NEW t \in Terminals, ctl[t].at # "idle",
           ctl' = [ctl EXCEPT ![t] = Idle],
           \/ journal' = journal
           \/ ctl[t].op.is = "record" /\ journal' \in InMemory(t),
           UNCHANGED <<session, windows, killed>>, faults' \in Nat
    PROVE  Inv'
<1> USE DEF windows
<1> DEFINE c == ctl[t]
<1>0. c \in Controls /\ Placed(c) /\ c.op \in Files /\ c.child \in Idents
  BY DEF Inv, TypeOK, Controls
<1>1. ctl'[t] = Idle /\ Placed(ctl[t])'
  BY Shapes DEF Inv, TypeOK, Placed
<1>2. ctl' \in [Terminals -> Controls] /\ Locked'
      /\ (\A u \in Terminals : Placed(ctl[u])')
      /\ \A u \in Terminals : ctl'[u].at = "idle"
  BY <1>1, OneRuns, Shapes DEF Inv
<1>3. ASSUME journal' # journal
      PROVE  /\ c.action \in {"start", "stop"}
             /\ c.op.is = "record" /\ c.op.here
             /\ journal' \in Files /\ journal'.is = "record" /\ journal'.here
             /\ \/ journal'.ollama = c.op.ollama
                \/ c.at = "record" /\ journal'.ollama = c.child
             /\ \/ journal'.ollama = IF c.action = "start" THEN c.child
                                     ELSE c.op.ollama
                \/ journal'.inFlight
             /\ (\E s \in Slots : Acting(s)) => journal'.inFlight
  <2>1. c.op.is = "record" /\ journal' \in InMemory(t)
    BY <1>3
  <2>2. c.action \in {"start", "stop"} /\ Journaled(c)
    BY <1>0, <2>1, Shapes DEF Placed, PlacedRecover
  <2>3. c.action = "start" => c.op.ollama = IF c.at = "record" THEN Nobody ELSE c.child
    BY <1>0 DEF Placed, PlacedStart
  <2>4. \A s \in Slots : Acting(s) =>
            c.at \in {"consent", "wait"} /\ c.worker = s /\ c.op.inFlight
    BY <2>2 DEF Inv, Witnessed, Journaled, Marked
  <2>5. CASE journal' = c.op
    BY <1>0, <2>2, <2>3, <2>4, <2>5 DEF Journaled, Marked
  <2>6. CASE c.at \in {"mark", "markOllama"} /\ journal' = [c.op EXCEPT !.inFlight = TRUE]
    BY <1>0, <2>2, <2>3, <2>4, <2>6 DEF Journaled, Files
  <2>7. CASE /\ c.at = "wait" /\ workers[c.worker].phase = "over"
             /\ journal' = [c.op EXCEPT !.inFlight = FALSE]
    BY <1>0, <2>2, <2>3, <2>4, <2>7 DEF Journaled, Files, Acting
  <2>8. CASE /\ c.at = "record"
             /\ journal' = [c.op EXCEPT !.ollama = c.child, !.inFlight = FALSE]
    <3>1. c.action = "start"
      BY <1>0, <2>8 DEF Placed, PlacedStop, PlacedRecover, Stopping, Commanding
    <3> QED
      BY <1>0, <2>2, <2>4, <2>8, <3>1 DEF Journaled, Files
  <2> QED
    BY <2>1, <2>5, <2>6, <2>7, <2>8 DEF InMemory
<1>4. TypeOK'
  BY <1>2, <1>3 DEF Inv, TypeOK, Shaped
<1>5. Owned'
  <2>1. Own(journal'.ollama) /\ Own(session'.ollama)
    BY <1>3 DEF Inv, Owned
  <2>2. Own(Idle.op.ollama) /\ Own(Idle.child)
    BY Shapes DEF Own, Nobody
  <2> QED
    BY <2>1, <2>2, StillOwned, Shapes DEF Inv
<1>6. Witnessed'
  BY <1>2, <1>3 DEF Inv, Witnessed, Acting
<1>7. Covered'
  <2>1. CASE journal' = journal
    BY <2>1 DEF Inv, Covered, Names, Id
  <2>2. CASE journal' # journal
    BY <1>0, <1>3, <2>2, JournalNames DEF Inv, Covered, Names, Id
  <2> QED
    BY <2>1, <2>2
<1>8. Spared'
  BY DEF Inv, Spared
<1> QED
  BY <1>2, <1>4, <1>5, <1>6, <1>7, <1>8 DEF Inv

\* The place a control comes to by a write of its journal.
LEMMA Placing ==
    ASSUME NEW t \in Terminals, NEW d, ctl'[t] = d, journal' = d.op,
           procs' = procs, session' = session,
           d.at \notin {"create", "consent", "wait"},
           d.op.is = "record", d.op.here, d.op.inFlight <=> d.at \in Marked,
           \/ d.action = "start" /\ PlacedStart(d)
           \/ d.action = "stop" /\ PlacedStop(d)
    PROVE  Placed(ctl[t])'
<1>1. Journaled(ctl[t])'
  BY DEF Journaled
<1>2. CASE d.action = "start" /\ PlacedStart(d)
  <2>1. PlacedStart(ctl[t])'
    BY <1>2 DEF PlacedStart, Early, Id
  <2> QED
    BY <1>1, <1>2, <2>1 DEF Placed
<1>3. CASE d.action = "stop" /\ PlacedStop(d)
  <2>1. PlacedStop(ctl[t])'
    BY <1>3 DEF PlacedStop, Id
  <2> QED
    BY <1>1, <1>3, <2>1 DEF Placed
<1> QED
  BY <1>2, <1>3

-----------------------------------------------------------------------------
(* Steps of a control.                                                     *)

LEMMA FailedInv ==
    ASSUME Inv, NEW t \in Terminals, ctl[t].at # "idle", Failed(t)
    PROVE  Inv'
<1>1. ctl[t].op \in InMemory(t)
  BY DEF InMemory
<1>2. faults' \in Nat
  BY DEF Failed, Inv, TypeOK
<1> QED
  BY <1>1, <1>2, Ends DEF Failed, Leave

LEMMA FaultInv ==
    ASSUME Inv, NEW t \in Terminals, Fault(t) PROVE Inv'
<1>1. faults' \in Nat
  BY DEF Fault, Inv, TypeOK
<1>2. PICK j \in {journal} \cup InMemory(t) : Leave(t, j)
  BY DEF Fault
<1> QED
  BY <1>1, <1>2, Ends DEF Fault, Leave

LEMMA CrashInv ==
    ASSUME Inv, NEW t \in Terminals, Crash(t) PROVE Inv'
<1>1. faults' \in Nat
  BY DEF Crash, Inv, TypeOK
<1> QED
  BY <1>1, Ends DEF Crash, files

\* What a control at work is known to be.
LEMMA AtWork ==
    ASSUME Inv, NEW t \in Terminals, ctl[t].at # "idle"
    PROVE  /\ ctl[t] \in Controls /\ ctl[t].op \in Files
           /\ Placed(ctl[t]) /\ Own(ctl[t].op.ollama) /\ Own(ctl[t].child)
           /\ ctl[t].at \notin {"session", "journal"} =>
                  ctl[t].action \in {"start", "stop"}
           /\ ctl[t].action \in {"start", "stop"} => Journaled(ctl[t])
           /\ ctl[t].action = "start" => PlacedStart(ctl[t])
           /\ ctl[t].action = "stop" => PlacedStop(ctl[t])
BY DEF Inv, TypeOK, Owned, Placed, PlacedRecover, Controls

LEMMA CreateInv ==
    ASSUME Inv, NEW t \in Terminals, Create(t) PROVE Inv'
<1> DEFINE c == ctl[t]
           d == [First(c) EXCEPT !.op = c.op]
<1>1. c.at = "create"
  BY DEF Create
<1>2. /\ c \in Controls /\ c.op \in Files /\ Own(c.op.ollama)
      /\ c.action \in {"start", "stop"} /\ Journaled(c)
      /\ c.action = "start" => PlacedStart(c)
      /\ c.action = "stop" => PlacedStop(c)
  BY <1>1, AtWork
<1>3. /\ d \in Controls /\ d.op = c.op /\ d.child = c.child /\ d.at = "mark"
      /\ d.action = c.action
      /\ d.then = IF c.action = "start" THEN "compare" ELSE "verify"
  <2> DEFINE n == First(c)
  <2>1. /\ n \in Controls /\ n.op = c.op /\ n.child = c.child
        /\ n.at = "mark" /\ n.action = c.action
        /\ n.then = IF c.action = "start" THEN "compare" ELSE "verify"
    BY <1>2, Commands DEF First
  <2> HIDE DEF n
  <2>2. d = [n EXCEPT !.op = c.op]
    BY DEF n
  <2> QED
    BY <2>1, <2>2 DEF Controls
<1>4. ctl' = [ctl EXCEPT ![t] = d] /\ ctl'[t] = d /\ journal' = c.op
      /\ UNCHANGED <<session, windows, killed, faults>>
  BY DEF Create, Write, Inv, TypeOK
<1>5. Placed(ctl[t])'
  <2>1. c.action = "start" => PlacedStart(d)
    BY <1>1, <1>2, <1>3 DEF PlacedStart, Early, Starting, Commanding
  <2>2. c.action = "stop" => PlacedStop(d)
    BY <1>1, <1>2, <1>3 DEF PlacedStop, Stopping, Commanding
  <2> QED
    BY <1>1, <1>2, <1>3, <1>4, <2>1, <2>2, Placing
       DEF windows, Marked, Journaled
<1>6. workers' \in [Slots -> Workers] /\ \A s \in Slots : ~Acting(s)'
  BY <1>1, <1>4, NoneActs DEF Inv, TypeOK, Acting, windows
<1>7. Shaped(d.op)
  BY <1>2, <1>3 DEF Journaled, Shaped
<1> QED
  BY <1>1, <1>2, <1>3, <1>4, <1>5, <1>6, <1>7, Writes DEF windows

LEMMA MarkInv ==
    ASSUME Inv, NEW t \in Terminals, Mark(t) PROVE Inv'
<1> DEFINE c == ctl[t]
           d == [[c EXCEPT !.at = "spawn"] EXCEPT
                    !.op = [c.op EXCEPT !.inFlight = TRUE]]
<1>1. c.at = "mark"
  BY DEF Mark
<1>2. /\ c \in Controls /\ c.op \in Files /\ Own(c.op.ollama)
      /\ c.action \in {"start", "stop"} /\ Journaled(c)
      /\ c.action = "start" => PlacedStart(c)
      /\ c.action = "stop" => PlacedStop(c)
  BY <1>1, AtWork
<1>3. /\ d \in Controls /\ d.child = c.child /\ d.at = "spawn"
      /\ d.action = c.action /\ d.then = c.then
      /\ d.op.is = "record" /\ d.op.here /\ d.op.inFlight
      /\ d.op.ollama = c.op.ollama
  BY <1>2 DEF Controls, Files, Starting, Stopping, Commanding, Journaled
<1>4. ctl' = [ctl EXCEPT ![t] = d] /\ ctl'[t] = d /\ journal' = d.op
      /\ UNCHANGED <<session, windows, killed, faults>>
  BY <1>2 DEF Mark, Write, Inv, TypeOK, Controls
<1>5. Placed(ctl[t])'
  <2>1. c.action = "start" => PlacedStart(d)
    BY <1>1, <1>2, <1>3 DEF PlacedStart, Early, Starting, Commanding
  <2>2. c.action = "stop" => PlacedStop(d)
    BY <1>1, <1>2, <1>3 DEF PlacedStop, Stopping, Commanding
  <2> QED
    BY <1>1, <1>2, <1>3, <1>4, <2>1, <2>2, Placing
       DEF windows, Marked, Journaled
<1>6. workers' \in [Slots -> Workers] /\ \A s \in Slots : ~Acting(s)'
  BY <1>1, <1>4, NoneActs DEF Inv, TypeOK, Acting, windows
<1>7. Shaped(d.op)
  BY <1>3 DEF Shaped
<1> QED
  BY <1>1, <1>2, <1>3, <1>4, <1>5, <1>6, <1>7, Writes DEF windows

LEMMA MarkOllamaInv ==
    ASSUME Inv, NEW t \in Terminals, MarkOllama(t) PROVE Inv'
<1> DEFINE c == ctl[t]
           d == [[c EXCEPT !.at = "ollama"] EXCEPT
                    !.op = [c.op EXCEPT !.inFlight = TRUE]]
<1>1. c.at = "markOllama"
  BY DEF MarkOllama
<1>2. /\ c \in Controls /\ c.op \in Files /\ Own(c.op.ollama)
      /\ c.action \in {"start", "stop"} /\ Journaled(c)
      /\ c.action = "start" => PlacedStart(c)
      /\ c.action = "stop" => PlacedStop(c)
  BY <1>1, AtWork
<1>3. /\ d \in Controls /\ d.child = c.child /\ d.at = "ollama"
      /\ d.action = c.action /\ d.then = c.then
      /\ d.op.is = "record" /\ d.op.here /\ d.op.inFlight
      /\ d.op.ollama = c.op.ollama
  BY <1>2 DEF Controls, Files, Starting, Stopping, Commanding, Journaled
<1>4. ctl' = [ctl EXCEPT ![t] = d] /\ ctl'[t] = d /\ journal' = d.op
      /\ UNCHANGED <<session, windows, killed, faults>>
  BY <1>2 DEF MarkOllama, Write, Inv, TypeOK, Controls
<1>5. Placed(ctl[t])'
  <2>1. c.action = "start" => PlacedStart(d)
    BY <1>1, <1>2, <1>3 DEF PlacedStart, Early, Starting, Commanding
  <2>2. c.action = "stop" => PlacedStop(d)
    BY <1>1, <1>2, <1>3 DEF PlacedStop, Stopping, Commanding
  <2> QED
    BY <1>1, <1>2, <1>3, <1>4, <2>1, <2>2, Placing
       DEF windows, Marked, Journaled
<1>6. workers' \in [Slots -> Workers] /\ \A s \in Slots : ~Acting(s)'
  BY <1>1, <1>4, NoneActs DEF Inv, TypeOK, Acting, windows
<1>7. Shaped(d.op)
  BY <1>3 DEF Shaped
<1> QED
  BY <1>1, <1>2, <1>3, <1>4, <1>5, <1>6, <1>7, Writes DEF windows

LEMMA RecordOllamaInv ==
    ASSUME Inv, NEW t \in Terminals, RecordOllama(t) PROVE Inv'
<1> DEFINE c == ctl[t]
           d == [[c EXCEPT !.at = "ollamaUp"] EXCEPT
                    !.op = [c.op EXCEPT !.ollama = c.child, !.inFlight = FALSE]]
<1>1. c.at = "record"
  BY DEF RecordOllama
<1>2. /\ c \in Controls /\ c.op \in Files /\ Own(c.child)
      /\ c.action \in {"start", "stop"} /\ Journaled(c)
      /\ c.action = "start" => PlacedStart(c)
      /\ c.action = "stop" => PlacedStop(c)
  BY <1>1, AtWork
<1>3. CASE ~Same(c.child)
  BY <1>1, <1>3, FailedInv DEF RecordOllama
<1>4. CASE Same(c.child)
  <2>1. c.action = "start"
    BY <1>1, <1>2 DEF PlacedStop, Stopping, Commanding
  <2>2. /\ d \in Controls /\ d.child = c.child /\ d.at = "ollamaUp"
        /\ d.action = "start" /\ d.then = c.then
        /\ d.op.is = "record" /\ d.op.here /\ ~d.op.inFlight
        /\ d.op.ollama = c.child
    BY <1>2, <2>1 DEF Controls, Files, Starting, Stopping, Commanding, Journaled
  <2>3. ctl' = [ctl EXCEPT ![t] = d] /\ ctl'[t] = d /\ journal' = d.op
        /\ UNCHANGED <<session, windows, killed, faults>>
    BY <1>2, <1>4 DEF RecordOllama, Write, Inv, TypeOK, Controls
  <2>4. Placed(ctl[t])'
    <3>1. PlacedStart(d)
      BY <1>1, <1>2, <2>1, <2>2 DEF PlacedStart, Early, Starting, Commanding
    <3> QED
      BY <2>2, <2>3, <3>1, Placing DEF windows, Marked
  <2>5. workers' \in [Slots -> Workers] /\ \A s \in Slots : ~Acting(s)'
    BY <1>1, <2>3, NoneActs DEF Inv, TypeOK, Acting, windows
  <2>6. Shaped(d.op)
    BY <2>2 DEF Shaped
  <2> QED
    BY <1>1, <1>2, <2>2, <2>3, <2>4, <2>5, <2>6, Writes DEF windows
<1> QED
  BY <1>3, <1>4

LEMMA AwaitInv ==
    ASSUME Inv, NEW t \in Terminals, Await(t) PROVE Inv'
<1> DEFINE c == ctl[t]
           s == c.worker
           m == [c EXCEPT !.worker = 0, !.presence = workers[s].presence]
           op == [c.op EXCEPT !.inFlight = FALSE]
           d == [After(m) EXCEPT !.op = op]
<1>1. c.at = "wait"
  BY DEF Await
<1>2. /\ c \in Controls /\ c.op \in Files /\ Own(c.op.ollama)
      /\ c.action \in {"start", "stop"} /\ Journaled(c)
      /\ c.action = "start" => PlacedStart(c)
      /\ c.action = "stop" => PlacedStop(c)
  BY <1>1, AtWork
<1>3. CASE workers[s].phase # "over"
  BY <1>1, <1>3, FailedInv DEF Await
<1>4. CASE workers[s].phase = "over"
  <2>1. \A u \in Slots : ~Acting(u)
    BY <1>1, <1>4 DEF Inv, Witnessed, Acting
  <2>2. s \in Slots /\ workers[s].presence \in {"unknown", "running", "absent"}
    BY <1>1, <1>2 DEF Journaled, Inv, TypeOK, Workers
  <2>3. m \in Controls /\ m.child = c.child /\ m.action = c.action
        /\ m.then = c.then /\ m.op = c.op /\ m.verb = c.verb
    BY <1>2, <2>2 DEF Controls
  <2>4. op \in Files
    BY <1>2 DEF Files
  <2>5. c.then \in {"none", "compare", "confirm", "verify"}
    BY <1>2 DEF Controls
  <2>6. /\ d \in Controls /\ d.child = c.child /\ d.action = c.action
        /\ d.at \in {"mark", c.then} /\ d.then = c.then /\ d.op = op
    <3> HIDE DEF m, op
    <3> DEFINE n == After(m)
    <3>1. /\ n \in Controls /\ n.child = c.child /\ n.action = c.action
          /\ n.at \in {"mark", c.then} /\ n.then = c.then
      <4>1. CASE c.verb = "status"
        <5>1. n = [m EXCEPT !.at = c.then]
          BY <2>3, <4>1 DEF After
        <5>2. c.then # "none"
          BY <1>1, <1>2 DEF PlacedStart, PlacedStop, Commanding
        <5> QED
          BY <2>3, <2>5, <5>1, <5>2 DEF Controls, Commanding, Starting, Stopping
      <4>2. CASE c.verb # "status"
        <5>1. n = Command(m, "status", c.then)
          BY <2>3, <4>2 DEF After
        <5> QED
          BY <2>3, <2>5, <5>1, Commands
      <4> QED
        BY <4>1, <4>2
    <3> HIDE DEF n
    <3>2. d = [n EXCEPT !.op = op]
      BY DEF n
    <3> QED
      BY <2>4, <3>1, <3>2 DEF Controls
  <2>7. /\ op.is = "record" /\ op.here /\ ~op.inFlight
        /\ op.ollama = c.op.ollama
    BY <1>2 DEF Journaled, Files
  <2>8. c.then \in {"compare", "confirm", "verify"}
        /\ (c.action = "start" => c.then \in {"compare", "confirm"})
        /\ (c.action = "stop" => c.then = "verify")
    BY <1>1, <1>2 DEF PlacedStart, PlacedStop, Commanding
  <2>9. ctl' = [ctl EXCEPT ![t] = d] /\ ctl'[t] = d /\ journal' = d.op
        /\ UNCHANGED <<session, procs, hermes, births, killed, faults>>
        /\ workers' = [workers EXCEPT ![s] = NoWorker]
    BY <1>4, <2>3, <2>6 DEF Await, Write, Inv, TypeOK
  <2>10. workers' \in [Slots -> Workers] /\ \A u \in Slots : ~Acting(u)'
    BY <2>1, <2>9, Shapes DEF Inv, TypeOK, Acting, NoWorker
  <2>11. Placed(ctl[t])'
    <3>1. c.action = "start" => PlacedStart(d)
      BY <1>1, <1>2, <2>6, <2>7, <2>8 DEF PlacedStart, Early, Starting, Commanding
    <3>2. c.action = "stop" => PlacedStop(d)
      BY <1>1, <1>2, <2>6, <2>7, <2>8 DEF PlacedStop, Stopping, Commanding
    <3>3. d.at \notin Marked \cup {"create"}
      BY <2>6, <2>8 DEF Marked
    <3> QED
      BY <1>2, <2>6, <2>7, <2>9, <3>1, <3>2, <3>3, Placing DEF Marked
  <2>12. Shaped(d.op)
    BY <2>6, <2>7 DEF Shaped
  <2>13. d.at \notin {"idle", "record"} /\ Own(d.op.ollama)
    BY <1>2, <2>6, <2>7, <2>8
  <2> QED
    BY <1>1, <1>2, <2>6, <2>9, <2>10, <2>11, <2>12, <2>13, Writes
<1> QED
  BY <1>3, <1>4

LEMMA GotoInv ==
    ASSUME Inv, NEW t \in Terminals, NEW to, Goto(t, to),
           ctl[t].at \notin {"idle", "create", "consent", "wait", "record"},
           to \notin {"idle", "consent", "wait", "record", "create"},
           ctl[t].at \in Marked <=> to \in Marked,
           ctl[t].action = "start" =>
               /\ to \in Starting \ (Commanding \cup {"journal"})
               /\ to \in {"compare", "markOllama", "ollama"} => Early(ctl[t]),
           ctl[t].action = "stop" =>
               to \in Stopping \ (Commanding \cup {"session", "journal"}),
           ctl[t].action = "recover" => to \in {"session", "journal"}
    PROVE  Inv'
<1> DEFINE c == ctl[t]
           d == [c EXCEPT !.at = to]
<1>1. c \in Controls /\ Placed(c) /\ c.action \in {"start", "stop", "recover"}
  BY AtWork DEF Placed
<1>2. d \in Controls /\ d.op = c.op /\ d.child = c.child /\ d.at = to
      /\ d.action = c.action /\ d.then = c.then
  BY <1>1 DEF Controls, Starting, Stopping, Commanding
<1>3. ctl' = [ctl EXCEPT ![t] = d]
      /\ UNCHANGED <<files, windows, faults, killed>>
  BY DEF Goto, Inv, TypeOK
<1>4. Placed(d)
  <2>1. CASE c.action = "start"
    <3>1. PlacedStart(c) /\ Journaled(c)
      BY <2>1, AtWork
    <3>2. PlacedStart(d)
      BY <1>1, <1>2, <2>1, <3>1 DEF PlacedStart, Early, Commanding, Starting
    <3>3. Journaled(d)
      BY <1>2, <3>1 DEF Journaled, Marked
    <3> QED
      BY <1>2, <2>1, <3>2, <3>3 DEF Placed
  <2>2. CASE c.action = "stop"
    <3>1. PlacedStop(c) /\ Journaled(c)
      BY <2>2, AtWork
    <3>2. PlacedStop(d)
      BY <1>1, <1>2, <2>2, <3>1 DEF PlacedStop, Commanding, Stopping
    <3>3. Journaled(d)
      BY <1>2, <3>1 DEF Journaled, Marked
    <3> QED
      BY <1>2, <2>2, <3>2, <3>3 DEF Placed
  <2>3. CASE c.action = "recover"
    BY <1>1, <1>2, <2>3 DEF Placed, PlacedRecover
  <2> QED
    BY <1>1, <2>1, <2>2, <2>3
<1> QED
  BY <1>2, <1>3, <1>4, Moves

LEMMA CompareInv ==
    ASSUME Inv, NEW t \in Terminals, Compare(t) PROVE Inv'
<1>1. ctl[t].at = "compare" /\ ctl[t].action # "stop" /\ ctl[t].action # "recover"
  BY AtWork DEF Compare, PlacedStop, Stopping, Commanding, Placed, PlacedRecover
<1>2. CASE Failed(t)
  BY <1>1, <1>2, FailedInv
<1>3. CASE Goto(t, "hermes") \/ Goto(t, "markOllama")
  BY <1>1, <1>3, GotoInv DEF Marked, Starting, Commanding, Early
<1> QED
  BY <1>2, <1>3 DEF Compare

LEMMA OllamaReadyInv ==
    ASSUME Inv, NEW t \in Terminals, OllamaReady(t) PROVE Inv'
<1>1. ctl[t].at = "ollamaUp" /\ ctl[t].action # "stop" /\ ctl[t].action # "recover"
  BY AtWork DEF OllamaReady, PlacedStop, Stopping, Commanding, Placed, PlacedRecover
<1>2. CASE Failed(t)
  BY <1>1, <1>2, FailedInv
<1>3. CASE Goto(t, "hermes")
  BY <1>1, <1>3, GotoInv DEF Marked, Starting, Commanding, Early
<1> QED
  BY <1>2, <1>3 DEF OllamaReady

LEMMA ConfirmInv ==
    ASSUME Inv, NEW t \in Terminals, Confirm(t) PROVE Inv'
<1>1. ctl[t].at = "confirm" /\ ctl[t].action # "stop" /\ ctl[t].action # "recover"
  BY AtWork DEF Confirm, PlacedStop, Stopping, Commanding, Placed, PlacedRecover
<1>2. CASE Failed(t)
  BY <1>1, <1>2, FailedInv
<1>3. CASE Goto(t, "ready")
  BY <1>1, <1>3, GotoInv DEF Marked, Starting, Commanding, Early
<1> QED
  BY <1>2, <1>3 DEF Confirm

LEMMA VerifyInv ==
    ASSUME Inv, NEW t \in Terminals, Verify(t) PROVE Inv'
<1>1. ctl[t].at = "verify" /\ ctl[t].action # "start" /\ ctl[t].action # "recover"
  BY AtWork DEF Verify, PlacedStart, Starting, Commanding, Placed, PlacedRecover
<1>2. CASE Failed(t)
  BY <1>1, <1>2, FailedInv
<1>3. CASE Goto(t, "kill")
  BY <1>1, <1>3, GotoInv DEF Marked, Stopping, Commanding, Early
<1> QED
  BY <1>2, <1>3 DEF Verify

LEMMA StartHermesInv ==
    ASSUME Inv, NEW t \in Terminals, StartHermes(t) PROVE Inv'
<1> DEFINE c == ctl[t]
           d == Command(c, "start", "confirm")
<1>1. c.at = "hermes" /\ c.action = "start" /\ c \in Controls
      /\ PlacedStart(c) /\ Journaled(c)
  BY AtWork DEF StartHermes, PlacedStop, Stopping, Commanding
<1>2. CASE Goto(t, "ready")
  BY <1>1, <1>2, GotoInv DEF Marked, Starting, Commanding, Early
<1>3. CASE ctl' = [ctl EXCEPT ![t] = d] /\ UNCHANGED <<files, windows, faults, killed>>
  <2>1. d \in Controls /\ d.at = "mark" /\ d.then = "confirm"
        /\ d.op = c.op /\ d.child = c.child /\ d.action = "start"
    BY <1>1, Commands
  <2> HIDE DEF d
  <2>2. PlacedStart(d) /\ Journaled(d)
    BY <1>1, <2>1 DEF PlacedStart, Journaled, Starting, Commanding, Marked, Early
  <2> QED
    BY <1>1, <1>3, <2>1, <2>2, Moves DEF Placed
<1> QED
  BY <1>2, <1>3 DEF StartHermes

LEMMA SpawnInv ==
    ASSUME Inv, NEW t \in Terminals, Spawn(t) PROVE Inv'
<1> DEFINE c == ctl[t]
<1>1. c.at = "spawn"
  BY DEF Spawn
<1>2. /\ c \in Controls /\ c.action \in {"start", "stop"} /\ Journaled(c)
      /\ c.action = "start" => PlacedStart(c)
      /\ c.action = "stop" => PlacedStop(c)
      /\ Own(c.op.ollama) /\ Own(c.child)
  BY <1>1, AtWork
<1>3. PICK s \in Slots :
         /\ workers' = [workers EXCEPT ![s] =
               [NoWorker EXCEPT !.verb = c.verb, !.phase = "waiting"]]
         /\ ctl' = [ctl EXCEPT ![t].at = "consent", ![t].worker = s]
  BY DEF Spawn
<1> DEFINE d == [c EXCEPT !.at = "consent", !.worker = s]
<1>4. /\ d \in Controls /\ d.at = "consent" /\ d.worker = s
      /\ d.op = c.op /\ d.child = c.child /\ d.action = c.action
      /\ d.then = c.then
  BY <1>2 DEF Controls, Starting, Commanding
<1>5. ctl' = [ctl EXCEPT ![t] = d] /\ ctl'[t] = d
  BY <1>3 DEF Inv, TypeOK
<1> HIDE DEF d
<1>6. UNCHANGED <<journal, session, procs, hermes, births, faults, killed>>
  BY DEF Spawn, files
<1>7. Placed(ctl[t])'
  <2>1. c.action = "start" => PlacedStart(ctl[t])'
    BY <1>1, <1>2, <1>4, <1>5, <1>6 DEF PlacedStart, Early, Id, Starting, Commanding
  <2>2. c.action = "stop" => PlacedStop(ctl[t])'
    BY <1>1, <1>2, <1>4, <1>5, <1>6 DEF PlacedStop, Id, Stopping, Commanding
  <2>3. Journaled(ctl[t])'
    BY <1>1, <1>2, <1>4, <1>5, <1>6 DEF Journaled, Marked
  <2> QED
    BY <1>2, <1>4, <1>5, <2>1, <2>2, <2>3 DEF Placed
<1>8. /\ ctl' \in [Terminals -> Controls] /\ Locked'
      /\ \A u \in Terminals : Placed(ctl[u])'
      /\ \A u \in Terminals : u # t => ctl'[u].at = "idle"
  BY <1>1, <1>4, <1>5, <1>7, OneRuns DEF Inv
<1>9. workers' \in [Slots -> Workers]
      /\ \A u \in Slots : u # s => ~Acting(u)'
  <2>1. \A u \in Slots : ~Acting(u)
    BY <1>1, NoneActs DEF Inv
  <2> QED
    BY <1>2, <1>3, <2>1 DEF Inv, TypeOK, Workers, NoWorker, Acting, Controls
<1>10. TypeOK'
  BY <1>6, <1>8, <1>9 DEF Inv, TypeOK
<1>11. Owned'
  BY <1>2, <1>4, <1>5, <1>6, StillOwned DEF Inv, Owned
<1>12. Witnessed'
  <2>1. journal'.here /\ journal'.inFlight
    BY <1>1, <1>2, <1>6 DEF Journaled, Marked
  <2> QED
    BY <1>4, <1>5, <1>8, <1>9, <2>1 DEF Witnessed
<1>13. Covered' /\ Spared'
  BY <1>6 DEF Inv, Covered, Spared, Names, Id
<1> QED
  BY <1>8, <1>10, <1>11, <1>12, <1>13 DEF Inv

LEMMA ConsentInv ==
    ASSUME Inv, NEW t \in Terminals, Consent(t) PROVE Inv'
<1> DEFINE c == ctl[t]
           s == c.worker
           d == [c EXCEPT !.at = "wait"]
<1>1. c.at = "consent"
  BY DEF Consent
<1>2. /\ c \in Controls /\ c.action \in {"start", "stop"} /\ Journaled(c)
      /\ c.action = "start" => PlacedStart(c)
      /\ c.action = "stop" => PlacedStop(c)
      /\ Own(c.op.ollama) /\ Own(c.child)
      /\ s \in Slots
  BY <1>1, AtWork DEF Journaled
<1>3. CASE Failed(t)
  BY <1>1, <1>3, FailedInv
<1>4. CASE /\ workers[s].phase = "waiting"
           /\ workers' = [workers EXCEPT ![s].phase = "told"]
           /\ ctl' = [ctl EXCEPT ![t].at = "wait"]
           /\ UNCHANGED <<files, procs, hermes, births, faults, killed>>
  <2>1. /\ d \in Controls /\ d.at = "wait" /\ d.worker = s
        /\ d.op = c.op /\ d.child = c.child /\ d.action = c.action
        /\ d.then = c.then
    BY <1>2 DEF Controls, Starting, Commanding
  <2>2. ctl' = [ctl EXCEPT ![t] = d] /\ ctl'[t] = d
    BY <1>4 DEF Inv, TypeOK
  <2> HIDE DEF d
  <2>3. UNCHANGED <<journal, session, procs, hermes, births, faults, killed>>
    BY <1>4 DEF files
  <2>4. Placed(ctl[t])'
    <3>1. c.action = "start" => PlacedStart(ctl[t])'
      BY <1>1, <1>2, <2>1, <2>2, <2>3 DEF PlacedStart, Early, Id, Starting, Commanding
    <3>2. c.action = "stop" => PlacedStop(ctl[t])'
      BY <1>1, <1>2, <2>1, <2>2, <2>3 DEF PlacedStop, Id, Stopping, Commanding
    <3>3. Journaled(ctl[t])'
      BY <1>1, <1>2, <2>1, <2>2, <2>3 DEF Journaled, Marked
    <3> QED
      BY <1>2, <2>1, <2>2, <3>1, <3>2, <3>3 DEF Placed
  <2>5. /\ ctl' \in [Terminals -> Controls] /\ Locked'
        /\ \A u \in Terminals : Placed(ctl[u])'
        /\ \A u \in Terminals : u # t => ctl'[u].at = "idle"
    BY <1>1, <2>1, <2>2, <2>4, OneRuns DEF Inv
  <2>6. workers' \in [Slots -> Workers]
        /\ \A u \in Slots : u # s => ~Acting(u)'
    <3>1. \A u \in Slots : u # s => ~Acting(u)
      BY <1>1 DEF Inv, Witnessed
    <3> QED
      BY <1>2, <1>4, <3>1 DEF Inv, TypeOK, Workers, Acting
  <2>7. TypeOK'
    BY <2>3, <2>5, <2>6 DEF Inv, TypeOK
  <2>8. Owned'
    BY <1>2, <2>1, <2>2, <2>3, StillOwned DEF Inv, Owned
  <2>9. Witnessed'
    <3>1. journal'.here /\ journal'.inFlight
      BY <1>1, <1>2, <2>3 DEF Journaled, Marked
    <3> QED
      BY <2>1, <2>2, <2>5, <2>6, <3>1 DEF Witnessed
  <2>10. Covered' /\ Spared'
    BY <2>3 DEF Inv, Covered, Spared, Names, Id
  <2> QED
    BY <2>5, <2>7, <2>8, <2>9, <2>10 DEF Inv
<1> QED
  BY <1>3, <1>4 DEF Consent

LEMMA StartOllamaInv ==
    ASSUME Inv, NEW t \in Terminals, StartOllama(t) PROVE Inv'
<1> DEFINE c == ctl[t]
<1>1. c.at = "ollama"
  BY DEF StartOllama
<1>2. /\ c \in Controls /\ c.action = "start" /\ Journaled(c) /\ PlacedStart(c)
      /\ Own(c.op.ollama)
  BY <1>1, AtWork DEF PlacedStop, Stopping, Commanding
<1>3. births \in Nat /\ births' = births + 1
  BY DEF StartOllama, Inv, TypeOK
<1>4. PICK p \in FreePids :
         /\ procs' = [procs EXCEPT ![p] = [born |-> births + 1, orion |-> TRUE]]
         /\ ctl' = [ctl EXCEPT ![t].at = "record",
                               ![t].child = [pid |-> p, born |-> births + 1]]
  BY <1>3 DEF StartOllama
<1> DEFINE b == births + 1
           new == [pid |-> p, born |-> b]
           d == [c EXCEPT !.at = "record", !.child = new]
<1>5. p \in Pids /\ p # 0 /\ new \in Idents
  BY <1>3, OperatorAssumption DEF FreePids, Idents
<1>6. /\ d \in Controls /\ d.at = "record" /\ d.child = new
      /\ d.op = c.op /\ d.action = "start" /\ d.then = c.then
  BY <1>2, <1>5 DEF Controls, Starting
<1>7. ctl' = [ctl EXCEPT ![t] = d] /\ ctl'[t] = d
  BY <1>4 DEF Inv, TypeOK
<1> HIDE DEF d
<1>8. UNCHANGED <<journal, session, workers, hermes, faults, killed>>
  BY DEF StartOllama, files
<1>9. procs' \in [Pids -> Processes] /\ procs'[p] = [born |-> b, orion |-> TRUE]
      /\ \A q \in Pids : q # p => procs'[q] = procs[q]
  BY <1>3, <1>4, <1>5 DEF Inv, TypeOK, Processes
<1>10. c.child = Nobody /\ c.op.ollama = Nobody
  BY <1>1, <1>2 DEF PlacedStart, Early
<1>11. \A q \in Pids : ~procs[q].orion
  BY <1>2, <1>10, Identities DEF PlacedStart
<1>12. Placed(ctl[t])'
  <2>1. PlacedStart(ctl[t])'
    BY <1>2, <1>6, <1>7, <1>9, <1>10, <1>11
       DEF PlacedStart, Early, Id, Starting, Commanding
  <2>2. Journaled(ctl[t])'
    BY <1>1, <1>2, <1>6, <1>7, <1>8 DEF Journaled, Marked
  <2> QED
    BY <1>6, <1>7, <2>1, <2>2 DEF Placed
<1>13. /\ ctl' \in [Terminals -> Controls] /\ Locked'
       /\ \A u \in Terminals : Placed(ctl[u])'
       /\ \A u \in Terminals : u # t => ctl'[u].at = "idle"
  BY <1>1, <1>6, <1>7, <1>12, OneRuns DEF Inv
<1>14. TypeOK'
  BY <1>3, <1>8, <1>9, <1>13 DEF Inv, TypeOK
<1>15. Owned'
  <2>1. \A i : Own(i) => Own(i)'
    BY <1>3, <1>9 DEF Own
  <2>2. \A q \in Pids : procs'[q].born <= births'
    BY <1>3, <1>9 DEF Inv, Owned, TypeOK, Processes
  <2>3. ASSUME NEW i, i = new PROVE Own(i)'
    <3>1. \A q \in Pids : procs'[q].born = b => q = p
      BY <1>3, <1>9 DEF Inv, Owned, TypeOK, Processes
    <3>2. i.born = b /\ b \in 1 .. births'
      BY <1>3, <2>3
    <3> QED
      BY <1>9, <3>1, <3>2 DEF Own
  <2>4. Own(journal.ollama)' /\ Own(session.ollama)'
    BY <1>8, <2>1 DEF Inv, Owned
  <2>5. ASSUME NEW u \in Terminals
        PROVE  Own(ctl[u].op.ollama)' /\ Own(ctl[u].child)'
    <3>1. CASE u = t
      <4>1. ctl'[u].op.ollama = c.op.ollama /\ ctl'[u].child = new
        BY <1>6, <1>7, <3>1
      <4> QED
        BY <1>2, <2>1, <2>3, <4>1
    <3>2. CASE u # t
      BY <1>7, <2>1, <3>2 DEF Inv, TypeOK, Owned
    <3> QED
      BY <3>1, <3>2
  <2> QED
    BY <2>2, <2>4, <2>5 DEF Owned
<1>16. Witnessed'
  <2>1. \A s \in Slots : ~Acting(s)
    BY <1>1, NoneActs DEF Inv
  <2> QED
    BY <1>8, <2>1 DEF Witnessed, Acting
<1>17. Covered' /\ Spared'
  BY <1>1, <1>2, <1>8 DEF Inv, Covered, Spared, Journaled, Marked
<1> QED
  BY <1>13, <1>14, <1>15, <1>16, <1>17 DEF Inv

LEMMA ReadyInv ==
    ASSUME Inv, NEW t \in Terminals, Ready(t) PROVE Inv'
<1> DEFINE c == ctl[t]
           d == [c EXCEPT !.at = "journal"]
<1>1. c.at = "ready"
  BY DEF Ready
<1>2. /\ c \in Controls /\ c.action = "start" /\ Journaled(c) /\ PlacedStart(c)
      /\ Own(c.op.ollama) /\ Own(c.child) /\ c.op \in Files
  BY <1>1, AtWork DEF PlacedStop, Stopping, Commanding
<1>3. CASE Failed(t)
  BY <1>1, <1>3, FailedInv
<1>4. CASE /\ session' = c.op
           /\ ctl' = [ctl EXCEPT ![t].at = "journal"]
           /\ UNCHANGED <<journal, windows, faults, killed>>
  <2>1. /\ d \in Controls /\ d.at = "journal" /\ d.child = c.child
        /\ d.op = c.op /\ d.action = "start" /\ d.then = c.then
    BY <1>2 DEF Controls, Starting
  <2>2. ctl' = [ctl EXCEPT ![t] = d] /\ ctl'[t] = d
    BY <1>4 DEF Inv, TypeOK
  <2> HIDE DEF d
  <2>3. UNCHANGED <<journal, workers, procs, hermes, births, faults, killed>>
    BY <1>4 DEF windows
  <2>4. Placed(ctl[t])'
    <3>1. PlacedStart(ctl[t])'
      BY <1>1, <1>2, <1>4, <2>1, <2>2, <2>3
         DEF PlacedStart, Early, Id, Starting, Commanding
    <3>2. Journaled(ctl[t])'
      BY <1>1, <1>2, <2>1, <2>2, <2>3 DEF Journaled, Marked
    <3> QED
      BY <2>1, <2>2, <3>1, <3>2 DEF Placed
  <2>5. /\ ctl' \in [Terminals -> Controls] /\ Locked'
        /\ \A u \in Terminals : Placed(ctl[u])'
    BY <1>1, <2>1, <2>2, <2>4, OneRuns DEF Inv
  <2>6. Shaped(c.op)
    BY <1>2 DEF Journaled, Shaped
  <2>7. TypeOK'
    BY <1>2, <1>4, <2>3, <2>5, <2>6 DEF Inv, TypeOK
  <2>8. Owned'
    BY <1>2, <1>4, <2>1, <2>2, <2>3, StillOwned DEF Inv, Owned
  <2>9. Witnessed'
    <3>1. \A s \in Slots : ~Acting(s)
      BY <1>1, NoneActs DEF Inv
    <3> QED
      BY <2>3, <3>1 DEF Witnessed, Acting
  <2>10. Covered'
    BY <1>1, <1>2, <2>3 DEF Covered, PlacedStart, Journaled, Names, Id
  <2>11. Spared'
    BY <2>3 DEF Inv, Spared
  <2> QED
    BY <2>5, <2>7, <2>8, <2>9, <2>10, <2>11 DEF Inv
<1> QED
  BY <1>3, <1>4 DEF Ready

LEMMA KillInv ==
    ASSUME Inv, NEW t \in Terminals, Kill(t) PROVE Inv'
<1> DEFINE c == ctl[t]
           d == [c EXCEPT !.at = "session"]
           ident == c.op.ollama
<1>1. c.at = "kill"
  BY DEF Kill
<1>2. /\ c \in Controls /\ c.action = "stop" /\ Journaled(c) /\ PlacedStop(c)
      /\ Own(ident) /\ Own(c.child) /\ c.op \in Files
  BY <1>1, AtWork DEF PlacedStart, Starting, Commanding
<1>3. /\ d \in Controls /\ d.at = "session" /\ d.child = c.child
      /\ d.op = c.op /\ d.action = "stop" /\ d.then = c.then
  BY <1>2 DEF Controls, Stopping
<1>4. ctl' = [ctl EXCEPT ![t] = d] /\ ctl'[t] = d
  BY DEF Kill, Inv, TypeOK
<1> HIDE DEF d
<1>5. UNCHANGED <<journal, session, workers, hermes, births, faults>>
  BY DEF Kill, files
<1>6. ident \in Idents
  BY <1>2 DEF Files
<1>7. /\ procs' \in [Pids -> Processes]
      /\ \A p \in Pids : procs'[p] = procs[p] \/ procs'[p] = Dead
      /\ \A p \in Pids : ~procs'[p].orion
      /\ killed' \subseteq Processes /\ \A k \in killed' : k.orion
  <2>1. CASE Same(ident)
    <3>1. ident.pid \in Pids /\ procs[ident.pid].orion
          /\ procs[ident.pid] \in Processes
      BY <1>2, <1>6, <2>1 DEF Same, Idents, Own, Inv, TypeOK
    <3>2. procs' = [procs EXCEPT ![ident.pid] = Dead]
          /\ killed' = killed \cup {procs[ident.pid]}
      BY <2>1 DEF Kill
    <3>3. \A p \in Pids : procs[p].orion => p = ident.pid
      BY <1>1, <1>2, Identities DEF PlacedStop
    <3> QED
      BY <3>1, <3>2, <3>3, Shapes DEF Inv, TypeOK, Spared, Dead
  <2>2. CASE ~Same(ident)
    <3>1. UNCHANGED <<procs, killed>>
      BY <2>2 DEF Kill
    <3>2. \A p \in Pids : ~procs[p].orion
      BY <1>1, <1>2, <2>2, Identities, OperatorAssumption
         DEF PlacedStop, Same
    <3> QED
      BY <3>1, <3>2 DEF Inv, TypeOK, Spared
  <2> QED
    BY <2>1, <2>2
<1>8. Placed(ctl[t])'
  <2>1. PlacedStop(ctl[t])'
    BY <1>3, <1>4, <1>7 DEF PlacedStop, Stopping, Commanding
  <2>2. Journaled(ctl[t])'
    BY <1>1, <1>2, <1>3, <1>4, <1>5 DEF Journaled, Marked
  <2> QED
    BY <1>3, <1>4, <2>1, <2>2 DEF Placed
<1>9. /\ ctl' \in [Terminals -> Controls] /\ Locked'
      /\ \A u \in Terminals : Placed(ctl[u])'
  BY <1>1, <1>3, <1>4, <1>8, OneRuns DEF Inv
<1>10. TypeOK'
  BY <1>5, <1>7, <1>9 DEF Inv, TypeOK
<1>11. Owned'
  BY <1>2, <1>3, <1>4, <1>5, <1>7, StillOwned DEF Inv, Owned
<1>12. Witnessed'
  <2>1. \A s \in Slots : ~Acting(s)
    BY <1>1, NoneActs DEF Inv
  <2> QED
    BY <1>5, <2>1 DEF Witnessed, Acting
<1>13. Covered' /\ Spared'
  BY <1>7 DEF Covered, Spared
<1> QED
  BY <1>9, <1>10, <1>11, <1>12, <1>13 DEF Inv

LEMMA ArchiveSessionInv ==
    ASSUME Inv, NEW t \in Terminals, ArchiveSession(t) PROVE Inv'
<1> DEFINE c == ctl[t]
           d == [c EXCEPT !.at = "journal"]
<1>1. c.at = "session"
  BY DEF ArchiveSession
<1>2. /\ c \in Controls /\ Placed(c) /\ c.action \in {"stop", "recover"}
      /\ Own(c.op.ollama) /\ Own(c.child)
      /\ \A p \in Pids : ~procs[p].orion
  BY <1>1, AtWork
     DEF Placed, PlacedStart, PlacedStop, PlacedRecover, Starting, Commanding
<1>3. /\ d \in Controls /\ d.at = "journal" /\ d.child = c.child
      /\ d.op = c.op /\ d.action = c.action /\ d.then = c.then
  BY <1>2 DEF Controls, Stopping
<1>4. ctl' = [ctl EXCEPT ![t] = d] /\ ctl'[t] = d
  BY DEF ArchiveSession, Inv, TypeOK
<1> HIDE DEF d
<1>5. UNCHANGED <<journal, workers, procs, hermes, births, faults, killed>>
      /\ session' = NoFile
  BY DEF ArchiveSession, windows
<1>6. Placed(ctl[t])'
  <2>1. CASE c.action = "stop"
    <3>1. PlacedStop(ctl[t])'
      BY <1>2, <1>3, <1>4, <1>5 DEF PlacedStop, Stopping, Commanding
    <3>2. Journaled(ctl[t])'
      BY <1>1, <1>2, <1>3, <1>4, <1>5, <2>1 DEF Placed, Journaled, Marked
    <3> QED
      BY <1>3, <1>4, <2>1, <3>1, <3>2 DEF Placed
  <2>2. CASE c.action = "recover"
    BY <1>1, <1>2, <1>3, <1>4, <1>5, <2>2 DEF Placed, PlacedRecover
  <2> QED
    BY <1>2, <2>1, <2>2
<1>7. /\ ctl' \in [Terminals -> Controls] /\ Locked'
      /\ \A u \in Terminals : Placed(ctl[u])'
  BY <1>1, <1>3, <1>4, <1>6, OneRuns DEF Inv
<1>8. TypeOK'
  BY <1>5, <1>7, Shapes DEF Inv, TypeOK
<1>9. Owned'
  <2>1. Own(session'.ollama)
    BY <1>5, Shapes DEF Own, Nobody
  <2> QED
    BY <1>2, <1>3, <1>4, <1>5, <2>1, StillOwned DEF Inv, Owned
<1>10. Witnessed'
  <2>1. \A s \in Slots : ~Acting(s)
    BY <1>1, NoneActs DEF Inv
  <2> QED
    BY <1>5, <2>1 DEF Witnessed, Acting
<1>11. Covered' /\ Spared'
  BY <1>2, <1>5 DEF Inv, Covered, Spared
<1> QED
  BY <1>7, <1>8, <1>9, <1>10, <1>11 DEF Inv

LEMMA ArchiveJournalInv ==
    ASSUME Inv, NEW t \in Terminals, ArchiveJournal(t) PROVE Inv'
<1> DEFINE c == ctl[t]
<1>1. c.at = "journal"
  BY DEF ArchiveJournal
<1>2. ctl' = [ctl EXCEPT ![t] = Idle] /\ ctl'[t] = Idle /\ Placed(ctl[t])'
  BY Shapes DEF ArchiveJournal, Inv, TypeOK, Placed
<1>3. UNCHANGED <<session, workers, procs, hermes, births, faults, killed>>
      /\ journal' = NoFile
  BY DEF ArchiveJournal, windows
<1>4. /\ ctl' \in [Terminals -> Controls] /\ Locked'
      /\ \A u \in Terminals : Placed(ctl[u])'
  BY <1>1, <1>2, OneRuns, Shapes DEF Inv
<1>5. TypeOK'
  BY <1>3, <1>4, Shapes DEF Inv, TypeOK
<1>6. Owned'
  <2>1. Own(journal'.ollama) /\ Own(Idle.op.ollama) /\ Own(Idle.child)
    BY <1>3, Shapes DEF Own, Nobody
  <2> QED
    BY <1>2, <1>3, <2>1, StillOwned, Shapes DEF Inv, Owned
<1>7. Witnessed'
  <2>1. \A s \in Slots : ~Acting(s)
    BY <1>1, NoneActs DEF Inv
  <2> QED
    BY <1>3, <2>1 DEF Witnessed, Acting
<1>8. Covered'
  <2>1. CASE c.action = "start"
    <3>1. PlacedStart(c) /\ Journaled(c)
      BY <1>1, <2>1, AtWork
    <3>2. \A p \in Pids : procs[p].orion => Names(session, Id(p))
      BY <1>1, <3>1 DEF PlacedStart, Journaled, Names
    <3> QED
      BY <1>3, <3>2 DEF Covered, Names, Id
  <2>2. CASE c.action # "start"
    <3>1. \A p \in Pids : ~procs[p].orion
      BY <1>1, <2>2, AtWork DEF Placed, PlacedStop, PlacedRecover
    <3> QED
      BY <1>3, <3>1 DEF Covered
  <2> QED
    BY <2>1, <2>2
<1>9. Spared'
  BY <1>3 DEF Inv, Spared
<1> QED
  BY <1>4, <1>5, <1>6, <1>7, <1>8, <1>9 DEF Inv

\* A new control: what the records say when nobody else is at work.
LEMMA Begins ==
    ASSUME Inv, NEW t \in Terminals, NEW action \in {"start", "stop", "recover"},
           Begin(t, action)
    PROVE  /\ Unlocked
           /\ \A s \in Slots : ~Acting(s)
           /\ journal.is # "torn"
           /\ action = "start" => \A p \in Pids : ~procs[p].orion
           /\ action = "recover" => \A p \in Pids : ~procs[p].orion
           /\ action = "stop" =>
                  /\ StopOp \in Files /\ StopOp.is = "record" /\ StopOp.here
                  /\ ~StopOp.inFlight /\ Own(StopOp.ollama)
                  /\ \A p \in Pids : procs[p].orion => Id(p) = StopOp.ollama
                  /\ journal.is = "none" => \A p \in Pids :
                         procs[p].orion => Names(session, Id(p))
<1>1. Unlocked /\ Loadable /\ journal.is # "torn"
  BY DEF Begin, Loadable
<1>2. /\ action = "start" => Startable
      /\ action = "stop" => Stoppable
      /\ action = "recover" => Recoverable
  BY DEF Begin
<1>3. /\ journal \in Files /\ session \in Files
      /\ journal.is # "record" => journal = NoFile
      /\ session.is # "record" => session = NoFile \/ session = Torn
  BY <1>1 DEF Inv, TypeOK, Shaped, Files
<1>4. /\ journal.is = "record" => journal \in Records
      /\ session.is = "record" => session \in Records
  BY DEF Records
<1>5. ~(journal.here /\ journal.inFlight)
  BY <1>2, <1>3, <1>4, Shapes DEF Startable, Stoppable, Recoverable
<1>6. \A s \in Slots : ~Acting(s)
  BY <1>5 DEF Inv, Witnessed
<1>7. \A p \in Pids : procs[p].orion => Names(journal, Id(p)) \/ Names(session, Id(p))
  BY <1>5 DEF Inv, Covered
<1>8. action \in {"start", "recover"} => \A p \in Pids : ~procs[p].orion
  BY <1>2, <1>4, <1>7 DEF Startable, Recoverable, Names
<1>9. ASSUME action = "stop"
      PROVE  /\ StopOp \in Files /\ StopOp.is = "record" /\ StopOp.here
             /\ ~StopOp.inFlight /\ Own(StopOp.ollama)
             /\ \A p \in Pids : procs[p].orion => Id(p) = StopOp.ollama
             /\ journal.is = "none" => \A p \in Pids :
                    procs[p].orion => Names(session, Id(p))
  <2> DEFINE op == IF journal.is = "record" THEN journal ELSE NewOp
             ident == IF session.ollama # Nobody THEN session.ollama ELSE op.ollama
  <2>1. op \in Files /\ op.is = "record" /\ op.here /\ ~op.inFlight
        /\ Own(op.ollama) /\ op.ollama \in Idents
    <3>1. CASE journal.is = "record"
      BY <1>2, <1>3, <1>4, <1>9, <3>1 DEF Stoppable, Inv, Owned, Files
    <3>2. CASE journal.is # "record"
      BY <3>2, Shapes DEF Own, Nobody, Files
    <3> QED
      BY <3>1, <3>2
  <2>2. ident \in Idents /\ Own(ident)
    BY <1>3, <2>1 DEF Inv, Owned, Files
  <2>3. StopOp = [op EXCEPT !.ollama = ident]
    BY <2>1 DEF StopOp, Files
  <2>4. \A p \in Pids : procs[p].orion => Id(p) = ident
    <3> SUFFICES ASSUME NEW p \in Pids, procs[p].orion PROVE Id(p) = ident
      OBVIOUS
    <3>1. Id(p) # Nobody
      BY Identities
    <3>2. CASE Names(session, Id(p))
      BY <3>1, <3>2 DEF Names
    <3>3. CASE Names(journal, Id(p))
      <4>1. op.ollama = Id(p)
        BY <3>3 DEF Names
      <4>2. CASE session.ollama = Nobody
        BY <4>1, <4>2
      <4>3. CASE session.ollama # Nobody
        <5>1. session.is = "record"
          BY <1>3, <4>3, Shapes
        <5> QED
          BY <1>1, <1>4, <3>1, <3>3, <5>1, <4>3 DEF Loadable, Names
      <4> QED
        BY <4>2, <4>3
    <3> QED
      BY <1>7, <3>2, <3>3
  <2>5. journal.is = "none" =>
            \A p \in Pids : procs[p].orion => Names(session, Id(p))
    BY <1>7 DEF Names
  <2> HIDE DEF op, ident
  <2> QED
    BY <2>1, <2>2, <2>3, <2>4, <2>5 DEF Files
<1> QED
  BY <1>1, <1>6, <1>8, <1>9

\* A control that begins as d, with its journal as given.
LEMMA Begun ==
    ASSUME Inv, NEW t \in Terminals, Unlocked, \A s \in Slots : ~Acting(s),
           NEW d \in Controls, ctl' = [ctl EXCEPT ![t] = d],
           UNCHANGED <<session, windows, faults, killed>>,
           journal' \in Files, Shaped(journal'), Own(journal'.ollama),
           Own(d.op.ollama), d.child = Nobody, Placed(ctl[t])',
           \A p \in Pids : procs[p].orion =>
               Names(journal', Id(p)) \/ Names(session, Id(p))
    PROVE  Inv'
<1> USE DEF windows
<1>1. /\ ctl' \in [Terminals -> Controls] /\ Locked'
      /\ \A u \in Terminals : Placed(ctl[u])'
  BY OneRuns DEF Inv
<1>2. TypeOK'
  BY <1>1 DEF Inv, TypeOK, Shaped
<1>3. Owned'
  <2>1. Own(d.child)
    BY DEF Own, Nobody
  <2> QED
    BY <2>1, StillOwned DEF Inv, Owned
<1>4. Witnessed'
  BY DEF Witnessed, Acting
<1>5. Covered' /\ Spared'
  BY DEF Inv, Covered, Spared, Names, Id
<1> QED
  BY <1>1, <1>2, <1>3, <1>4, <1>5 DEF Inv

LEMMA BeginInv ==
    ASSUME Inv, NEW t \in Terminals, NEW action \in {"start", "stop", "recover"},
           Begin(t, action)
    PROVE  Inv'
<1> DEFINE i == [Idle EXCEPT !.action = action]
<1>1. i \in Controls /\ i.action = action /\ i.child = Nobody /\ i.op = NoFile
  BY Shapes DEF Controls
<1>2. Unlocked /\ (\A s \in Slots : ~Acting(s)) /\ ctl \in [Terminals -> Controls]
      /\ UNCHANGED <<session, windows, faults, killed>>
  BY Begins DEF Begin, Inv, TypeOK
<1>3. Own(Nobody)
  BY DEF Own, Nobody
<1>4. CASE action = "start"
  <2> DEFINE d == [i EXCEPT !.at = "create", !.op = NewOp]
  <2>1. journal' = Torn /\ ctl' = [ctl EXCEPT ![t] = d]
    BY <1>4 DEF Begin
  <2>2. /\ d \in Controls /\ d.at = "create" /\ d.op = NewOp
        /\ d.child = Nobody /\ d.action = "start"
    <3> HIDE DEF i
    <3>1. "create" \in Starting /\ NewOp \in Files
      BY Shapes DEF Starting
    <3> QED
      BY <1>1, <1>4, <3>1 DEF Controls
  <2> HIDE DEF d
  <2>3. ctl'[t] = d
    BY <1>2, <2>1
  <2>4. \A p \in Pids : ~procs[p].orion
    BY <1>4, Begins
  <2>5. Placed(ctl[t])'
    <3>1. PlacedStart(ctl[t])'
      BY <1>2, <2>2, <2>3, <2>4, Shapes
         DEF PlacedStart, Early, Starting, Commanding, windows
    <3>2. Journaled(ctl[t])'
      BY <2>1, <2>2, <2>3, Shapes DEF Journaled, Marked
    <3> QED
      BY <2>2, <2>3, <3>1, <3>2 DEF Placed
  <2> QED
    BY <1>2, <1>3, <2>1, <2>2, <2>4, <2>5, Begun, Shapes
<1>5. CASE action = "stop"
  <2>1. /\ StopOp \in Files /\ StopOp.is = "record" /\ StopOp.here
        /\ ~StopOp.inFlight /\ Own(StopOp.ollama)
        /\ \A p \in Pids : procs[p].orion => Id(p) = StopOp.ollama
        /\ journal.is = "none" => \A p \in Pids :
               procs[p].orion => Names(session, Id(p))
    BY <1>5, Begins
  <2>2. CASE journal.is = "none"
    <3> DEFINE d == [i EXCEPT !.at = "create", !.op = StopOp]
    <3>1. journal' = Torn /\ ctl' = [ctl EXCEPT ![t] = d]
      BY <1>5, <2>2 DEF Begin
    <3>2. /\ d \in Controls /\ d.at = "create" /\ d.op = StopOp
          /\ d.child = Nobody /\ d.action = "stop"
      BY <1>1, <1>5, <2>1 DEF Controls, Starting
    <3> HIDE DEF d
    <3>3. ctl'[t] = d
      BY <1>2, <3>1
    <3>4. Placed(ctl[t])'
      <4>1. PlacedStop(ctl[t])'
        BY <1>2, <2>1, <3>2, <3>3 DEF PlacedStop, Id, Stopping, Commanding, windows
      <4>2. Journaled(ctl[t])'
        BY <2>1, <3>1, <3>2, <3>3 DEF Journaled, Marked
      <4> QED
        BY <3>2, <3>3, <4>1, <4>2 DEF Placed
    <3> QED
      BY <1>2, <1>3, <2>1, <2>2, <3>1, <3>2, <3>4, Begun, Shapes
  <2>3. CASE journal.is # "none"
    <3> DEFINE m == [i EXCEPT !.op = StopOp]
               d == First(m)
    <3>1. journal' = StopOp /\ ctl' = [ctl EXCEPT ![t] = d]
      BY <1>5, <2>3 DEF Begin
    <3>2. m \in Controls /\ m.op = StopOp /\ m.child = Nobody /\ m.action = "stop"
      BY <1>1, <1>5, <2>1 DEF Controls
    <3> HIDE DEF m
    <3>3. /\ d \in Controls /\ d.at = "mark" /\ d.op = StopOp
          /\ d.child = Nobody /\ d.action = "stop" /\ d.then = "verify"
      BY <3>2, Commands DEF First
    <3> HIDE DEF d
    <3>4. ctl'[t] = d
      BY <1>2, <3>1
    <3>5. Placed(ctl[t])'
      <4>1. PlacedStop(ctl[t])'
        BY <1>2, <2>1, <3>3, <3>4 DEF PlacedStop, Id, Stopping, Commanding, windows
      <4>2. Journaled(ctl[t])'
        BY <2>1, <3>1, <3>3, <3>4 DEF Journaled, Marked
      <4> QED
        BY <3>3, <3>4, <4>1, <4>2 DEF Placed
    <3>6. \A p \in Pids : procs[p].orion => Names(journal', Id(p))
      BY <2>1, <3>1 DEF Names
    <3>7. Shaped(journal')
      BY <2>1, <3>1 DEF Shaped
    <3> QED
      BY <1>2, <2>1, <3>1, <3>3, <3>5, <3>6, <3>7, Begun
  <2> QED
    BY <2>2, <2>3
<1>6. CASE action = "recover"
  <2> DEFINE d == [i EXCEPT !.at = "session"]
  <2>1. journal' = journal /\ ctl' = [ctl EXCEPT ![t] = d]
    BY <1>6 DEF Begin
  <2>2. /\ d \in Controls /\ d.at = "session" /\ d.op = NoFile
        /\ d.child = Nobody /\ d.action = "recover"
    BY <1>1, <1>6 DEF Controls, Stopping
  <2> HIDE DEF d
  <2>3. ctl'[t] = d
    BY <1>2, <2>1
  <2>4. \A p \in Pids : ~procs[p].orion
    BY <1>6, Begins
  <2>5. Placed(ctl[t])'
    BY <1>2, <2>2, <2>3, <2>4 DEF Placed, PlacedRecover, windows
  <2>6. journal \in Files /\ Shaped(journal) /\ Own(journal.ollama)
    BY DEF Inv, TypeOK, Owned
  <2> QED
    BY <1>2, <1>3, <2>1, <2>2, <2>4, <2>5, <2>6, Begun, Shapes
<1> QED
  BY <1>4, <1>5, <1>6

-----------------------------------------------------------------------------
(* Workers and the rest of Windows.                                        *)

\* Files, controls and Ollama stand; workers that act are among those before.
LEMMA WorkersMove ==
    ASSUME Inv, UNCHANGED <<ctl, files, procs, births, killed>>,
           workers' \in [Slots -> Workers], faults' \in Nat,
           hermes' \in {"running", "absent"},
           \A s \in Slots : Acting(s)' => Acting(s)
    PROVE  Inv'
<1> USE DEF files
<1>1. TypeOK'
  BY DEF Inv, TypeOK
<1>2. Locked' /\ Owned'
  BY DEF Inv, Locked, Owned, Own
<1>3. \A t \in Terminals : Placed(ctl[t])'
  <2> SUFFICES ASSUME NEW t \in Terminals PROVE Placed(ctl[t])'
    OBVIOUS
  <2>1. Placed(ctl[t])
    BY DEF Inv
  <2> QED
    BY <2>1 DEF Placed, PlacedStart, PlacedStop, PlacedRecover, Journaled, Id, Early
<1>4. Witnessed'
  BY DEF Inv, Witnessed
<1>5. Covered' /\ Spared'
  BY DEF Inv, Covered, Spared, Names, Id
<1> QED
  BY <1>1, <1>2, <1>3, <1>4, <1>5 DEF Inv

LEMMA ActInv ==
    ASSUME Inv, NEW s \in Slots, Act(s) PROVE Inv'
<1>1. workers \in [Slots -> Workers] /\ hermes \in {"running", "absent"}
      /\ workers[s] \in Workers
  BY DEF Inv, TypeOK
<1>2. hermes' \in {"running", "absent"}
  BY <1>1 DEF Act
<1>3. workers' \in [Slots -> Workers]
      /\ \A u \in Slots : Acting(u)' => Acting(u)
  <2> DEFINE w == [workers[s] EXCEPT !.phase = "over",
                     !.presence = IF workers[s].verb = "status" THEN hermes
                                  ELSE "unknown"]
  <2>1. workers' = [workers EXCEPT ![s] = w]
    BY <1>1 DEF Act
  <2>2. w \in Workers /\ w.phase = "over"
    BY <1>1 DEF Workers
  <2> HIDE DEF w
  <2> QED
    BY <1>1, <2>1, <2>2 DEF Acting
<1>4. faults' \in Nat /\ UNCHANGED <<ctl, files, procs, births, killed>>
  BY DEF Act, Inv, TypeOK
<1> QED
  BY <1>2, <1>3, <1>4, WorkersMove

LEMMA GiveUpInv ==
    ASSUME Inv, NEW s \in Slots, GiveUp(s) PROVE Inv'
<1>1. workers' \in [Slots -> Workers]
      /\ \A u \in Slots : Acting(u)' => Acting(u)
  <2>1. workers \in [Slots -> Workers] /\ workers' = [workers EXCEPT ![s] = NoWorker]
    BY DEF GiveUp, Inv, TypeOK
  <2>2. NoWorker \in Workers /\ NoWorker.phase = "none"
    BY Shapes DEF NoWorker
  <2> QED
    BY <2>1, <2>2 DEF Acting
<1>2. faults' \in Nat /\ hermes' \in {"running", "absent"}
      /\ UNCHANGED <<ctl, files, procs, births, killed>>
  BY DEF GiveUp, Inv, TypeOK
<1> QED
  BY <1>1, <1>2, WorkersMove

\* Others start a process at a moment when none was born, or one ends.
LEMMA ProcessesMove ==
    ASSUME Inv, UNCHANGED <<ctl, files, workers, faults, killed>>,
           hermes' \in {"running", "absent"}, births' \in Nat, births <= births',
           procs' \in [Pids -> Processes],
           \A p \in Pids : \/ procs'[p] = procs[p] \/ procs'[p] = Dead
                           \/ /\ procs'[p].born = births + 1
                              /\ births' = births + 1 /\ ~procs'[p].orion
    PROVE  Inv'
<1> USE DEF files
<1>0. births \in Nat /\ procs \in [Pids -> Processes]
      /\ Dead.born = 0 /\ ~Dead.orion
  BY DEF Inv, TypeOK, Dead
<1>1. TypeOK'
  BY DEF Inv, TypeOK
<1>2. Locked'
  BY DEF Inv, Locked
<1>3. Owned'
  <2>1. \A i : Own(i) => Own(i)'
    <3> SUFFICES ASSUME NEW i, Own(i), i.pid # 0 PROVE Own(i)'
      BY DEF Own
    <3>1. i.born \in 1 .. births /\ i.born \in 1 .. births'
      BY <1>0 DEF Own
    <3>2. \A p \in Pids : procs'[p].born = i.born => procs'[p].orion
      BY <1>0, <3>1 DEF Own
    <3> QED
      BY <3>1, <3>2 DEF Own
  <2>2. \A p \in Pids : procs'[p].born <= births'
    BY <1>0 DEF Inv, Owned, Processes
  <2> QED
    BY <2>1, <2>2 DEF Inv, Owned
<1>4. \A p \in Pids : procs'[p].orion => procs[p].orion /\ Id(p)' = Id(p)
  BY <1>0 DEF Id
<1>5. \A t \in Terminals : Placed(ctl[t])'
  <2> SUFFICES ASSUME NEW t \in Terminals PROVE Placed(ctl[t])'
    OBVIOUS
  <2>1. Placed(ctl[t])
    BY DEF Inv
  <2>2. PlacedStart(ctl[t]) => PlacedStart(ctl[t])'
    BY <1>4 DEF PlacedStart, Early
  <2>3. PlacedStop(ctl[t]) => PlacedStop(ctl[t])'
    BY <1>4 DEF PlacedStop
  <2>4. PlacedRecover(ctl[t]) => PlacedRecover(ctl[t])'
    BY <1>4 DEF PlacedRecover
  <2>5. Journaled(ctl[t]) => Journaled(ctl[t])'
    BY DEF Journaled
  <2> QED
    BY <2>1, <2>2, <2>3, <2>4, <2>5 DEF Placed
<1>6. Witnessed'
  BY DEF Inv, Witnessed, Acting
<1>7. Covered' /\ Spared'
  BY <1>4 DEF Inv, Covered, Spared, Names
<1> QED
  BY <1>1, <1>2, <1>3, <1>5, <1>6, <1>7 DEF Inv

LEMMA OtherOllamaInv ==
    ASSUME Inv, NEW p \in Pids, OtherOllama(p) PROVE Inv'
<1>1. births \in Nat /\ procs \in [Pids -> Processes]
      /\ hermes \in {"running", "absent"}
  BY DEF Inv, TypeOK
<1>2. births' = births + 1
      /\ procs' = [procs EXCEPT ![p] = [born |-> births + 1, orion |-> FALSE]]
      /\ UNCHANGED <<ctl, files, workers, hermes, faults, killed>>
  BY DEF OtherOllama
<1> QED
  BY <1>1, <1>2, ProcessesMove DEF Processes

LEMMA ExitInv ==
    ASSUME Inv, NEW p \in Pids, Exit(p) PROVE Inv'
<1>1. births \in Nat /\ procs \in [Pids -> Processes]
      /\ hermes \in {"running", "absent"}
  BY DEF Inv, TypeOK
<1>2. procs' = [procs EXCEPT ![p] = Dead]
      /\ UNCHANGED <<ctl, files, workers, hermes, births, faults, killed>>
  BY DEF Exit
<1> QED
  BY <1>1, <1>2, ProcessesMove, Shapes

LEMMA OtherHermesInv ==
    ASSUME Inv, OtherHermes PROVE Inv'
<1>1. births \in Nat /\ procs \in [Pids -> Processes]
  BY DEF Inv, TypeOK
<1>2. hermes' \in {"running", "absent"} /\ births' \in Nat /\ births <= births'
      /\ UNCHANGED <<ctl, files, workers, procs, faults, killed>>
  BY <1>1 DEF OtherHermes
<1> QED
  BY <1>1, <1>2, ProcessesMove

LEMMA RestartInv ==
    ASSUME Inv, Restart PROVE Inv'
<1> USE Shapes
<1>1. /\ ctl' = [t \in Terminals |-> Idle]
      /\ journal' = [journal EXCEPT !.here = FALSE]
      /\ session' = [session EXCEPT !.here = FALSE]
      /\ workers' = [s \in Slots |-> NoWorker]
      /\ procs' = [p \in Pids |-> Dead]
      /\ hermes' = "absent" /\ births' = births /\ killed' = killed
  BY DEF Restart
<1>2. faults' \in Nat
  BY DEF Restart, Inv, TypeOK
<1>3. ASSUME NEW f \in Files, Shaped(f)
      PROVE  LET g == [f EXCEPT !.here = FALSE]
             IN g \in Files /\ Shaped(g) /\ g.ollama = f.ollama
  BY <1>3 DEF Files, Shaped, NoFile, Torn
<1>4. /\ journal' \in Files /\ Shaped(journal') /\ journal'.ollama = journal.ollama
      /\ session' \in Files /\ Shaped(session') /\ session'.ollama = session.ollama
  BY <1>1, <1>3 DEF Inv, TypeOK
<1>5. TypeOK'
  BY <1>1, <1>2, <1>4 DEF Inv, TypeOK, Shaped
<1>6. Locked' /\ \A t \in Terminals : Placed(ctl[t])'
  BY <1>1 DEF Locked, Placed
<1>7. Owned'
  <2>1. \A i : Own(i) => Own(i)'
    BY <1>1 DEF Own, Dead, Inv, TypeOK
  <2>2. Own(Nobody)'
    BY DEF Own, Nobody
  <2>3. Own(journal.ollama)' /\ Own(session.ollama)'
    BY <1>4, <2>1 DEF Inv, Owned
  <2>4. \A p \in Pids : procs'[p].born <= births'
    BY <1>1 DEF Dead, Inv, TypeOK
  <2> QED
    BY <1>1, <2>2, <2>3, <2>4 DEF Owned
<1>8. Witnessed' /\ Covered'
  BY <1>1 DEF Witnessed, Acting, NoWorker, Covered, Dead
<1>9. Spared'
  BY <1>1 DEF Inv, Spared
<1> QED
  BY <1>5, <1>6, <1>7, <1>8, <1>9 DEF Inv

-----------------------------------------------------------------------------
(* The theorems.                                                           *)

LEMMA StepInv ==
    ASSUME Inv, NEW t \in Terminals, Step(t) PROVE Inv'
BY CreateInv, MarkInv, SpawnInv, ConsentInv, AwaitInv, CompareInv,
   MarkOllamaInv, StartOllamaInv, RecordOllamaInv, OllamaReadyInv,
   StartHermesInv, ConfirmInv, ReadyInv, VerifyInv, KillInv,
   ArchiveSessionInv, ArchiveJournalInv
   DEF Step

LEMMA NextInv == Inv /\ [Next]_vars => Inv'
<1> SUFFICES ASSUME Inv, [Next]_vars PROVE Inv'
  OBVIOUS
<1>1. CASE UNCHANGED vars
  <2>1. UNCHANGED <<ctl, files, procs, births, killed>>
        /\ UNCHANGED <<workers, faults, hermes>>
    BY <1>1 DEF vars, windows
  <2> QED
    BY <2>1, WorkersMove DEF Inv, TypeOK, Acting
<1>2. CASE \E t \in Terminals : Step(t) \/ Fault(t) \/ Crash(t)
  BY <1>2, StepInv, FaultInv, CrashInv
<1>3. CASE \E t \in Terminals, action \in {"start", "stop", "recover"} :
               Begin(t, action)
  BY <1>3, BeginInv
<1>4. CASE \E s \in Slots : Act(s) \/ GiveUp(s)
  BY <1>4, ActInv, GiveUpInv
<1>5. CASE \E p \in Pids : OtherOllama(p) \/ Exit(p)
  BY <1>5, OtherOllamaInv, ExitInv
<1>6. CASE OtherHermes \/ Restart
  BY <1>6, OtherHermesInv, RestartInv
<1> QED
  BY <1>1, <1>2, <1>3, <1>4, <1>5, <1>6 DEF Next

\* Inv holds in every reachable state, however many controls are given in how
\* many terminals, and whatever crashes, restarts or takes whose process id.
THEOREM Invariance == Spec => []Inv
BY InitInv, NextInv, PTL DEF Spec

\* Only an Ollama that a control started is ever terminated: the handle Kill
\* opens shows the creation time on record, and whoever has that was started
\* by a control.
THEOREM SparesOthersHolds == Spec => []SparesOthers
<1>1. Inv => SparesOthers
  BY DEF Inv, Spared, SparesOthers
<1> QED
  BY <1>1, Invariance, PTL

\* Whatever may still take effect is on record for the next control: the one
\* worker that may act has its durable marker, and an Ollama that was started
\* is named by a record or covered by the marker.
THEOREM NothingUnrecordedHolds == Spec => []NothingUnrecorded
<1>1. Inv => NothingUnrecorded
  <2> SUFFICES ASSUME Inv PROVE NothingUnrecorded
    OBVIOUS
  <2>1. \A s \in Slots : Acting(s) => journal.here /\ journal.inFlight
    BY DEF Inv, Witnessed
  <2>2. Cardinality({s \in Slots : Acting(s)}) <= 1
    <3> DEFINE A == {s \in Slots : Acting(s)}
    <3>1. CASE A = {}
      BY <3>1, FS_EmptySet
    <3>2. CASE A # {}
      <4>1. PICK s \in Slots : Acting(s)
        BY <3>2
      <4>2. A = {s}
        BY <4>1 DEF Inv, Witnessed
      <4> QED
        BY <4>2, FS_Singleton
    <3> QED
      BY <3>1, <3>2
  <2>3. \A p \in Pids : procs[p].orion =>
            LET ident == [pid |-> p, born |-> procs[p].born]
            IN \/ Names(journal, ident) \/ Names(session, ident)
               \/ journal.here /\ journal.inFlight
    BY DEF Inv, Covered, Id
  <2> QED
    BY <2>1, <2>2, <2>3 DEF NothingUnrecorded
<1> QED
  BY <1>1, Invariance, PTL
=============================================================================
