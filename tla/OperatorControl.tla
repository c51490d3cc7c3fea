-------------------------- MODULE OperatorControl --------------------------
(***************************************************************************)
(* The operator's one-shot controls (scripts/operator/packages,            *)
(* orion.py): start, stop and recover, given in any terminal, each a       *)
(* process of its own that takes the lifecycle lock, runs Hermes' commands *)
(* through short-lived worker processes, starts or terminates Ollama and   *)
(* ends.  Two files carry what the next control must know: the journal of  *)
(* the operation under way and the session of what runs.                   *)
(*                                                                         *)
(* A boot id is only ever compared with that of the boot at hand, so a     *)
(* record says whether it is from here.  A process is known by its id and  *)
(* its creation time (born); all images are ollama.exe, the case in which  *)
(* the image tells nothing.  A failing health check, time-out or I/O call  *)
(* is a Fault; a check that fails for what it sees costs no fault.         *)
(***************************************************************************)
EXTENDS Integers, FiniteSets

CONSTANTS
    Terminals,  \* where controls are given
    Pids,       \* process ids of Ollama processes, used again and again
    Slots,      \* bound: command workers alive at once
    MaxBirths,  \* bound: Ollama processes and foreign starts of Hermes
    MaxFaults   \* bound: faults, crashes and restarts amid an operation

ASSUME OperatorAssumption ==
    /\ 0 \notin Pids /\ 0 \notin Slots
    /\ {MaxBirths, MaxFaults} \subseteq Nat

VARIABLES
    ctl,        \* each terminal's control, in memory
    journal,    \* active-operation.json
    session,    \* launcher-session.json
    workers,    \* command workers, which outlive the control
    procs,      \* Windows: the process behind each id
    hermes,     \* Windows: whether Hermes runs
    births, faults,
    killed      \* history: processes the controls terminated

files == <<journal, session>>
windows == <<workers, procs, hermes, births>>
vars == <<ctl, files, windows, faults, killed>>

Nobody == [pid |-> 0, born |-> 0]
Dead == [born |-> 0, orion |-> FALSE]
NoWorker == [verb |-> "none", phase |-> "none", presence |-> "unknown"]

NoFile == [is |-> "none", here |-> FALSE, ollama |-> Nobody, inFlight |-> FALSE]
Torn == [NoFile EXCEPT !.is = "torn"]
NewOp == [NoFile EXCEPT !.is = "record", !.here = TRUE]

Idle == [at |-> "idle", action |-> "none", op |-> NoFile, child |-> Nobody,
         verb |-> "none", then |-> "none", worker |-> 0,
         presence |-> "unknown"]

\* The byte lock on lifecycle.lock ends with the process that holds it.
Unlocked == \A t \in Terminals : ctl[t].at = "idle"

\* Mutant: a process is known by its id.
SamePid(ident) == ident.pid # 0 /\ procs[ident.pid] # Dead

\* The process that is meant is the one that runs under its id.
Same(ident) == ident.pid # 0 /\ procs[ident.pid].born = ident.born

OllamaUp == \E p \in Pids : procs[p] # Dead
Acting(s) == workers[s].phase \in {"waiting", "told"}

\* An id is not given out again while someone holds a handle to its process.
FreePids ==
    {p \in Pids : procs[p] = Dead /\ \A t \in Terminals : ctl[t].child.pid # p}

\* Bound: what others start leaves a birth and an id for a start under way.
Spare ==
    LET starting == Cardinality({t \in Terminals : /\ ctl[t].action = "start"
                                                   /\ ctl[t].child = Nobody})
    IN births + starting < MaxBirths /\ Cardinality(FreePids) > starting

-----------------------------------------------------------------------------
(* Ends of an operation.                                                   *)

\* The operation ends in an error.  A journal of its own is written again
\* with what the control has in memory, or stays as it is when that fails.
Leave(t, j) ==
    /\ ctl' = [ctl EXCEPT ![t] = Idle]
    /\ journal' = IF ctl[t].op.is = "record" /\ journal.is # "none" THEN j
                  ELSE journal

Failed(t) ==
    /\ Leave(t, ctl[t].op)
    /\ UNCHANGED <<session, windows, faults, killed>>

\* What the control goes on with, having written op to the journal.
Write(t, op, c) ==
    /\ journal' = op
    /\ ctl' = [ctl EXCEPT ![t] = [c EXCEPT !.op = op]]
    /\ UNCHANGED <<session, killed, faults>>

Goto(t, at) ==
    /\ ctl' = [ctl EXCEPT ![t].at = at]
    /\ UNCHANGED <<files, windows, faults, killed>>

Command(c, verb, then) ==
    [c EXCEPT !.at = "mark", !.verb = verb, !.then = then]

First(c) ==
    IF c.action = "start" THEN Command(c, "status", "compare")
    ELSE Command(c, "stop", "verify")

\* A start or stop of Hermes is believed only when its status says so.
After(c) ==
    IF c.verb = "status" THEN [c EXCEPT !.at = c.then]
    ELSE Command(c, "status", c.then)

-----------------------------------------------------------------------------
(* Beginning.                                                              *)

Records == {f \in {journal, session} : f.is = "record"}

\* Records that cannot be read, or name two Ollamas, block every control.
Loadable ==
    /\ journal.is # "torn"
    /\ \A f, g \in Records : f.ollama # Nobody /\ g.ollama # Nobody
                                => f.ollama = g.ollama

Startable == Records = {}

Stoppable == \A f \in Records : f.here /\ ~f.inFlight

\* Mutant: only a session calls for recovery.
RecoverableSession == session.is = "record" /\ \A f \in Records : ~f.here

Recoverable == Records # {} /\ \A f \in Records : ~f.here

\* A stop goes on with the journal it finds; what the session owns counts.
StopOp ==
    LET op == IF journal.is = "record" THEN journal ELSE NewOp
    IN [op EXCEPT !.ollama = IF session.ollama # Nobody THEN session.ollama
                             ELSE @]

\* A new journal is created exclusively and then written.
Begin(t, action) ==
    LET c == [Idle EXCEPT !.action = action]
    IN /\ Unlocked /\ Loadable
       /\ CASE action = "start" ->
                 /\ Startable /\ Spare
                 /\ journal' = Torn
                 /\ ctl' = [ctl EXCEPT ![t] =
                               [c EXCEPT !.at = "create", !.op = NewOp]]
            [] action = "stop" ->
                 /\ Stoppable
                 /\ IF journal.is = "none"
                    THEN /\ journal' = Torn
                         /\ ctl' = [ctl EXCEPT ![t] =
                               [c EXCEPT !.at = "create", !.op = StopOp]]
                    ELSE /\ journal' = StopOp
                         /\ ctl' = [ctl EXCEPT ![t] =
                               First([c EXCEPT !.op = StopOp])]
            [] action = "recover" ->
                 /\ Recoverable
                 /\ ctl' = [ctl EXCEPT ![t] = [c EXCEPT !.at = "session"]]
                 /\ UNCHANGED journal
       /\ UNCHANGED <<session, windows, faults, killed>>

Create(t) ==
    /\ ctl[t].at = "create"
    /\ Write(t, ctl[t].op, First(ctl[t]))
    /\ UNCHANGED windows

-----------------------------------------------------------------------------
(* One command of Hermes.                                                  *)

\* The marker is durable before a worker exists.
Mark(t) ==
    /\ ctl[t].at = "mark"
    /\ Write(t, [ctl[t].op EXCEPT !.inFlight = TRUE],
             [ctl[t] EXCEPT !.at = "spawn"])
    /\ UNCHANGED windows

Spawn(t) ==
    /\ ctl[t].at = "spawn"
    /\ \E s \in Slots :
          /\ ~Acting(s)
          /\ workers' = [workers EXCEPT ![s] =
                [NoWorker EXCEPT !.verb = ctl[t].verb, !.phase = "waiting"]]
          /\ ctl' = [ctl EXCEPT ![t].at = "consent", ![t].worker = s]
    /\ UNCHANGED <<files, procs, hermes, births, faults, killed>>

\* The worker that is ready, and held by its handle, is told to go on.
Consent(t) ==
    LET s == ctl[t].worker
    IN /\ ctl[t].at = "consent"
       /\ IF workers[s].phase = "waiting"
          THEN /\ workers' = [workers EXCEPT ![s].phase = "told"]
               /\ ctl' = [ctl EXCEPT ![t].at = "wait"]
               /\ UNCHANGED <<files, procs, hermes, births, faults, killed>>
          ELSE Failed(t)

\* The outcome is known only by the exit of the worker and its receipt.
Await(t) ==
    LET s == ctl[t].worker
    IN /\ ctl[t].at = "wait" /\ workers[s].phase # "told"
       /\ IF workers[s].phase = "over"
          THEN /\ Write(t, [ctl[t].op EXCEPT !.inFlight = FALSE],
                        After([ctl[t] EXCEPT !.worker = 0,
                                   !.presence = workers[s].presence]))
               /\ workers' = [workers EXCEPT ![s] = NoWorker]
               /\ UNCHANGED <<procs, hermes, births>>
          ELSE Failed(t)

-----------------------------------------------------------------------------
(* start                                                                   *)

Compare(t) ==
    /\ ctl[t].at = "compare"
    /\ IF ctl[t].presence = hermes
       THEN Goto(t, IF OllamaUp THEN "hermes" ELSE "markOllama")
       ELSE Failed(t)

\* Mutant: the marker is left to the write that records the process.
MarkOllamaNot(t) == ctl[t].at = "markOllama" /\ Goto(t, "ollama")

MarkOllama(t) ==
    /\ ctl[t].at = "markOllama"
    /\ Write(t, [ctl[t].op EXCEPT !.inFlight = TRUE],
             [ctl[t] EXCEPT !.at = "ollama"])
    /\ UNCHANGED windows

StartOllama(t) ==
    /\ ctl[t].at = "ollama"
    /\ births' = births + 1
    /\ \E p \in FreePids :
          /\ procs' = [procs EXCEPT ![p] = [born |-> births', orion |-> TRUE]]
          /\ ctl' = [ctl EXCEPT ![t].at = "record",
                                ![t].child = [pid |-> p, born |-> births']]
    /\ UNCHANGED <<files, workers, hermes, faults, killed>>

RecordOllama(t) ==
    /\ ctl[t].at = "record"
    /\ IF Same(ctl[t].child)
       THEN /\ Write(t, [ctl[t].op EXCEPT !.ollama = ctl[t].child,
                                          !.inFlight = FALSE],
                     [ctl[t] EXCEPT !.at = "ollamaUp"])
            /\ UNCHANGED windows
       ELSE Failed(t)

OllamaReady(t) ==
    /\ ctl[t].at = "ollamaUp"
    /\ IF Same(ctl[t].child) THEN Goto(t, "hermes") ELSE Failed(t)

StartHermes(t) ==
    /\ ctl[t].at = "hermes"
    /\ IF ctl[t].presence = "absent"
       THEN /\ ctl' = [ctl EXCEPT ![t] = Command(ctl[t], "start", "confirm")]
            /\ UNCHANGED <<files, windows, faults, killed>>
       ELSE Goto(t, "ready")

Confirm(t) ==
    /\ ctl[t].at = "confirm"
    /\ IF ctl[t].presence = "running" /\ hermes = "running" THEN Goto(t, "ready")
       ELSE Failed(t)

Ready(t) ==
    /\ ctl[t].at = "ready"
    /\ IF /\ hermes = "running" /\ OllamaUp /\ session.is = "none"
          /\ ctl[t].child = Nobody \/ Same(ctl[t].child)
       THEN /\ session' = ctl[t].op
            /\ ctl' = [ctl EXCEPT ![t].at = "journal"]
            /\ UNCHANGED <<journal, windows, faults, killed>>
       ELSE Failed(t)

-----------------------------------------------------------------------------
(* stop and recover                                                        *)

Verify(t) ==
    /\ ctl[t].at = "verify"
    /\ IF ctl[t].presence = "absent" /\ hermes = "absent" THEN Goto(t, "kill")
       ELSE Failed(t)

\* One handle is opened, compared and terminated.
Kill(t) ==
    LET ident == ctl[t].op.ollama
    IN /\ ctl[t].at = "kill"
       /\ IF Same(ident)
          THEN /\ procs' = [procs EXCEPT ![ident.pid] = Dead]
               /\ killed' = killed \cup {procs[ident.pid]}
          ELSE UNCHANGED <<procs, killed>>
       /\ ctl' = [ctl EXCEPT ![t].at = "session"]
       /\ UNCHANGED <<files, workers, hermes, births, faults>>

ArchiveSession(t) ==
    /\ ctl[t].at = "session"
    /\ session' = NoFile
    /\ ctl' = [ctl EXCEPT ![t].at = "journal"]
    /\ UNCHANGED <<journal, windows, faults, killed>>

ArchiveJournal(t) ==
    /\ ctl[t].at = "journal"
    /\ journal' = NoFile
    /\ ctl' = [ctl EXCEPT ![t] = Idle]
    /\ UNCHANGED <<session, windows, faults, killed>>

-----------------------------------------------------------------------------
(* What goes wrong.                                                        *)

\* What a failing write of the journal left in memory.
InMemory(t) ==
    LET op == ctl[t].op
    IN {op} \cup
       (CASE ctl[t].at \in {"mark", "markOllama"} ->
                {[op EXCEPT !.inFlight = TRUE]}
          [] ctl[t].at = "wait" /\ workers[ctl[t].worker].phase = "over" ->
                {[op EXCEPT !.inFlight = FALSE]}
          [] ctl[t].at = "record" ->
                {[op EXCEPT !.ollama = ctl[t].child, !.inFlight = FALSE]}
          [] OTHER -> {})

Fault(t) ==
    /\ ctl[t].at # "idle"
    /\ faults < MaxFaults /\ faults' = faults + 1
    /\ \E j \in {journal} \cup InMemory(t) : Leave(t, j)
    /\ UNCHANGED <<session, windows, killed>>

Crash(t) ==
    /\ ctl[t].at # "idle"
    /\ faults < MaxFaults /\ faults' = faults + 1
    /\ ctl' = [ctl EXCEPT ![t] = Idle]
    /\ UNCHANGED <<files, windows, killed>>

Restart ==
    /\ IF Unlocked THEN UNCHANGED faults
       ELSE faults < MaxFaults /\ faults' = faults + 1
    /\ ctl' = [t \in Terminals |-> Idle]
    /\ journal' = [journal EXCEPT !.here = FALSE]
    /\ session' = [session EXCEPT !.here = FALSE]
    /\ workers' = [s \in Slots |-> NoWorker]
    /\ procs' = [p \in Pids |-> Dead]
    /\ hermes' = "absent"
    /\ UNCHANGED <<births, killed>>

-----------------------------------------------------------------------------
(* Workers and the rest of Windows.                                        *)

Act(s) ==
    LET verb == workers[s].verb
    IN /\ workers[s].phase = "told"
       /\ hermes' = CASE verb = "start" -> "running" [] verb = "stop" -> "absent"
                      [] OTHER -> hermes
       /\ workers' = [workers EXCEPT ![s].phase = "over",
             ![s].presence = IF verb = "status" THEN hermes ELSE "unknown"]
       /\ UNCHANGED <<ctl, files, procs, births, faults, killed>>

\* No receipt: the worker was not told in time, or the command raised.
GiveUp(s) ==
    /\ Acting(s)
    /\ IF \E t \in Terminals : ctl[t].worker = s
       THEN faults < MaxFaults /\ faults' = faults + 1
       ELSE workers[s].phase = "waiting" /\ UNCHANGED faults
    /\ workers' = [workers EXCEPT ![s] = NoWorker]
    /\ UNCHANGED <<ctl, files, procs, hermes, births, killed>>

OtherOllama(p) ==
    /\ p \in FreePids /\ Spare
    /\ births' = births + 1
    /\ procs' = [procs EXCEPT ![p] = [born |-> births', orion |-> FALSE]]
    /\ UNCHANGED <<ctl, files, workers, hermes, faults, killed>>

Exit(p) ==
    /\ procs[p] # Dead
    /\ procs' = [procs EXCEPT ![p] = Dead]
    /\ UNCHANGED <<ctl, files, workers, hermes, births, faults, killed>>

OtherHermes ==
    /\ \/ hermes = "running" /\ hermes' = "absent" /\ UNCHANGED births
       \/ /\ hermes = "absent" /\ hermes' = "running"
          /\ Spare /\ births' = births + 1
    /\ UNCHANGED <<ctl, files, workers, procs, faults, killed>>

-----------------------------------------------------------------------------
Init ==
    /\ ctl = [t \in Terminals |-> Idle]
    /\ journal = NoFile /\ session = NoFile
    /\ workers = [s \in Slots |-> NoWorker]
    /\ procs = [p \in Pids |-> Dead]
    /\ hermes \in {"running", "absent"}
    /\ births = 0 /\ faults = 0
    /\ killed = {}

Step(t) ==
    \/ Create(t)
    \/ Mark(t) \/ Spawn(t) \/ Consent(t) \/ Await(t)
    \/ Compare(t) \/ MarkOllama(t) \/ StartOllama(t) \/ RecordOllama(t)
    \/ OllamaReady(t) \/ StartHermes(t) \/ Confirm(t) \/ Ready(t)
    \/ Verify(t) \/ Kill(t) \/ ArchiveSession(t) \/ ArchiveJournal(t)

\* What the messages of a refused control tell the owner to do.
Advised ==
    \/ \E t \in Terminals : Begin(t, "stop") \/ Begin(t, "recover")
    \/ Unlocked /\ Loadable /\ ~Stoppable /\ ~Recoverable /\ Restart

Next ==
    \/ \E t \in Terminals :
          \/ Step(t) \/ Fault(t) \/ Crash(t)
          \/ \E action \in {"start", "stop", "recover"} : Begin(t, action)
    \/ \E s \in Slots : Act(s) \/ GiveUp(s)
    \/ \E p \in Pids : OtherOllama(p) \/ Exit(p)
    \/ OtherHermes \/ Restart

\* Controls and workers run on; the owner does what refusals advise.
Fairness ==
    /\ \A t \in Terminals : WF_vars(Step(t))
    /\ \A s \in Slots : WF_vars(Act(s)) /\ WF_vars(GiveUp(s))
    /\ WF_vars(Advised)

Spec == Init /\ [][Next]_vars /\ Fairness

-----------------------------------------------------------------------------
(* Properties.                                                             *)

\* A record of this boot names the process.
Names(f, ident) == f.is = "record" /\ f.here /\ f.ollama = ident

\* Whatever the controls have set going is on record for the next control,
\* over any crash, fault or restart: a command that may still take effect
\* is the only one and has its durable marker, and an Ollama that was
\* started is named by journal or session or covered by the marker.  So a
\* journal and session that are gone leave nothing of Orion running.
NothingUnrecorded ==
    /\ \A s \in Slots : Acting(s) => journal.here /\ journal.inFlight
    /\ Cardinality({s \in Slots : Acting(s)}) <= 1
    /\ \A p \in Pids : procs[p].orion =>
          LET ident == [pid |-> p, born |-> procs[p].born]
          IN \/ Names(journal, ident) \/ Names(session, ident)
             \/ journal.here /\ journal.inFlight

\* Only an Ollama that a control started is ever terminated, whatever id
\* Windows gives to whom, in this boot or the next.
SparesOthers == \A k \in killed : k.orion

\* An owner who does what the refusals advise always gets back to clean
\* records: by stop, or by a restart and recover.  Only a journal torn by a
\* crash while it was created needs a hand.
WayOut == []<>(journal.is = "torn" \/ (journal = NoFile /\ session = NoFile))
=============================================================================
