----------------------------- MODULE HudSession -----------------------------
(***************************************************************************)
(* The HUD in the browser, the loopback bridge it talks to, and the Hermes *)
(* runs behind both.                                                       *)
(*                                                                         *)
(* The browser runs one handler at a time, but a handler gives up control  *)
(* at every await: the status poll every 15 s, a turn's event stream, a    *)
(* session switch, a new session and an approval decision interleave at    *)
(* their awaits, and each goes on with what it read before.  A chain of    *)
(* awaits is a record in calls; an answer continues the chain.             *)
(*                                                                         *)
(* A request id that is counted up and compared when an answer comes is    *)
(* modelled by what the comparison tells: whether a later request of that  *)
(* kind has been made (latest).  An answer shows Hermes as it was at some  *)
(* moment between request and arrival (since).                             *)
(***************************************************************************)
EXTENDS ActionProjection, FiniteSets

CONSTANTS
    Sessions,     \* session ids
    Main,         \* the session the browser comes up with
    Results,      \* the outcomes of protected actions that occur
    MaxTurns,     \* bound: turns submitted
    MaxCalls,     \* bound: chains of awaits under way at once
    MaxAsks,      \* bound: approvals one run asks for
    MaxFaults,    \* bound: failed or unclear answers and broken streams
    MaxReloads,   \* bound: page reloads
    MaxDeletions  \* bound: sessions deleted in Hermes

NoSession == "none"

ASSUME HudAssumption ==
    /\ Main \in Sessions /\ NoSession \notin Sessions
    /\ Results \subseteq Outcomes
    /\ {MaxTurns, MaxCalls, MaxAsks, MaxFaults, MaxReloads, MaxDeletions}
           \subseteq Nat

VARIABLES
    hud,        \* the browser's state, in memory and in its storage
    calls,      \* chains of awaits under way
    stream,     \* the turn's event stream through the bridge
    runs,       \* Hermes: each run
    sessions,   \* Hermes: each session
    log,        \* Hermes: the runs whose results a session holds, in order
    faults, reloads,
    known,      \* history: runs the browser saw start or run, until an answer
                \* about one tells it nothing
    ended,      \* history: runs whose end the browser has seen
    newest,     \* history: how far into each log the browser has shown
    overtaken   \* history: a new session was linked while a turn was on

hermes == <<runs, sessions, log>>
history == <<known, ended, newest, overtaken>>
vars == <<hud, calls, stream, hermes, faults, reloads, history>>

Runs == 1 .. MaxTurns
Calls == 1 .. MaxCalls
NoRun == 0

NoCard == [run |-> NoRun, ask |-> 0]
NoLocator == [session |-> NoSession, run |-> NoRun]

\* Nothing, or nothing but what is no completed record, is shown.
Nothing == [session |-> NoSession, run |-> NoRun, state |-> "none"]

\* What the panel can say of the result of a run.
Shown == {"none", "succeeded", "refused", "stale_plan", "failed", "unknown"}

Durable(shown) == shown.run # NoRun

Idle == [at |-> "idle", session |-> NoSession, run |-> NoRun, next |-> "done",
         since |-> 0, ask |-> 0, latest |-> FALSE, current |-> FALSE]

NoStream == [run |-> NoRun, phase |-> "none"]

NewRun(s) == [session |-> s, status |-> "running", asks |-> 0,
              outcome |-> "none"]

Live(r) == runs[r].status = "running"
Rank(r) == CASE runs[r].status = "running" -> 1 [] runs[r].status = "done" -> 2
             [] runs[r].status = "gone" -> 3 [] OTHER -> 0

\* What the bridge may make of the result run r left.
Projections(r, hydrated) ==
    {[session |-> runs[r].session, run |-> r, state |-> ToolState(m, hydrated)] :
        m \in {n \in Remains(Result(runs[r].outcome)) : Evidence(<<n>>) # << >>}}

\* The last result an answer of session s may carry.
Hydrated(s, since) ==
    UNION {IF i = 0 THEN {Nothing} ELSE Projections(log[s][i], TRUE) :
              i \in since .. Len(log[s])}

Place(shown) ==
    IF Durable(shown)
    THEN CHOOSE i \in DOMAIN log[shown.session] :
             log[shown.session][i] = shown.run
    ELSE 0

-----------------------------------------------------------------------------
(* The browser's helpers.  B is the pair of hud and calls.                 *)

Browser == [hud |-> hud, calls |-> calls]

\* Mutant: only a stream under way, or an unresolved reconnect, is busy.
BusyByStream(h) == h.streaming \/ h.interlock # NoRun

Busy(h) == h.streaming \/ h.active # NoRun \/ h.interlock # NoRun

\* A later request of this kind was made: answers to the others are late.
Supersede(B, kind) ==
    [B EXCEPT !.calls = [c \in Calls |->
        [B.calls[c] EXCEPT
            !.latest = IF kind = B.calls[c].at THEN FALSE ELSE @,
            !.current = IF kind = "reconcile" THEN FALSE ELSE @]]]

Finish(B, c) == [B EXCEPT !.calls[c] = Idle]

\* A projection that is no completed record does not survive.
KeepDurable(h) == [h EXCEPT !.shown = IF Durable(h.shown) THEN @ ELSE Nothing]

ClearLocator(h) == [h EXCEPT !.locator = NoLocator, !.interlock = NoRun]

ClearRunLocator(h, r) ==
    IF h.locator.run = r
    THEN [h EXCEPT !.locator = NoLocator,
                   !.interlock = IF @ = r THEN NoRun ELSE @]
    ELSE h

\* Mutant: a broken stream leaves nothing that blocks the next turn.
ArmNothing(h) == h

\* Mutant: a run that is already under control is blocked on too.
ArmAlways(h) ==
    IF h.session # NoSession /\ h.locator.session = h.session
    THEN [h EXCEPT !.interlock = h.locator.run] ELSE h

ArmInterlock(h) ==
    IF h.session # NoSession /\ h.active = NoRun
          /\ h.locator.session = h.session
    THEN [h EXCEPT !.interlock = h.locator.run] ELSE h

\* Mutant: only session and locator tell whether an answer still counts.
IsCurrentByLocator(B, c) ==
    /\ B.hud.session = B.calls[c].session
    /\ ~B.hud.streaming /\ B.hud.card = NoCard
    /\ B.hud.locator = [session |-> B.calls[c].session, run |-> B.calls[c].run]

\* What a reconnect read before its await still holds after it.
IsCurrent(B, c) ==
    /\ B.calls[c].current
    /\ B.hud.session = B.calls[c].session
    /\ ~B.hud.streaming /\ B.hud.card = NoCard
    /\ B.hud.locator = [session |-> B.calls[c].session, run |-> B.calls[c].run]

Await(B, c, call) == [B EXCEPT !.calls[c] = call]

Reconcile(B0, c) ==
    LET B == Supersede(B0, "reconcile")
        h == B.hud
        matching == h.locator # NoLocator /\ h.locator.session = h.session
    IN IF h.session = NoSession \/ h.streaming \/ h.card # NoCard
       THEN Finish(B, c)
       ELSE IF ~matching THEN Finish([B EXCEPT !.hud.interlock = NoRun], c)
       ELSE Await([B EXCEPT !.hud = ArmInterlock(h)], c,
                  [Idle EXCEPT !.at = "status", !.session = h.locator.session,
                               !.run = h.locator.run, !.current = TRUE,
                               !.since = Rank(h.locator.run)])

\* Mutant: the locator is kept until the action's outcome is known.
SettleIfKnown(h, call) ==
    IF call.next = "settle" /\ Durable(h.shown)
    THEN ClearRunLocator(h, call.run) ELSE h

\* A run that is over needs no locator, whatever is known of its action.
Settle(h, call) ==
    IF call.next = "settle" THEN ClearRunLocator(h, call.run) ELSE h

\* What a chain does once its evidence is refreshed or was not to be.
AfterEvidence(B, c) ==
    LET call == B.calls[c]
    IN IF call.next = "done" THEN Finish(B, c)
       ELSE IF call.next = "reconcile" THEN Reconcile(B, c)
       ELSE IF ~IsCurrent(B, c) THEN Finish(B, c)
       ELSE Finish([B EXCEPT !.hud = KeepDurable(Settle(B.hud, call))], c)

RefreshEvidence(B0, c, next) ==
    LET B1 == Supersede(B0, "items")
        B == [B1 EXCEPT !.calls[c].next = next]
        h == B.hud
    IN IF h.streaming \/ h.card # NoCard THEN AfterEvidence(B, c)
       ELSE IF h.session = NoSession
            THEN AfterEvidence([B EXCEPT !.hud.shown = Nothing], c)
       ELSE Await(B, c, [B.calls[c] EXCEPT !.at = "items", !.latest = TRUE,
                                           !.ask = 0, !.session = h.session,
                                           !.since = Len(log[h.session])])

AfterHistory(B, c) ==
    IF B.calls[c].next = "reconcile" THEN Reconcile(B, c) ELSE Finish(B, c)

LoadMessages(B0, c, next) ==
    LET B1 == Supersede(B0, "history")
        B == [B1 EXCEPT !.calls[c].next = next]
        h == B.hud
    IN IF h.streaming THEN AfterHistory(B, c)
       ELSE IF h.session = NoSession
            THEN AfterHistory([B EXCEPT !.hud.shown = Nothing], c)
       ELSE Await(B, c, [Idle EXCEPT !.at = "history", !.session = h.session,
                                     !.next = next, !.latest = TRUE])

\* at is "list", or "boot" when the history is to be loaded after it.
RefreshSessions(B, c, at, next) ==
    Await(B, c, [Idle EXCEPT !.at = at, !.session = B.hud.session,
                             !.next = next,
                             !.since = IF /\ B.hud.session \in Sessions
                                          /\ sessions[B.hud.session] = "there"
                                       THEN 1 ELSE 0])

-----------------------------------------------------------------------------
Load(session, locator) ==
    ArmInterlock([session |-> session, active |-> NoRun, interlock |-> NoRun,
                  streaming |-> FALSE, locator |-> locator, card |-> NoCard,
                  shown |-> Nothing])

Boot(h) == RefreshSessions([hud |-> h, calls |-> [c \in Calls |-> Idle]],
                           1, "boot", "reconcile")

Init ==
    /\ runs = [r \in Runs |-> [NewRun(NoSession) EXCEPT !.status = "none"]]
    /\ sessions = [s \in Sessions |-> IF s = Main THEN "there" ELSE "new"]
    /\ log = [s \in Sessions |-> << >>]
    /\ hud = Load(Main, NoLocator)
    /\ calls = Boot(Load(Main, NoLocator)).calls
    /\ stream = NoStream
    /\ faults = 0 /\ reloads = 0
    /\ known = {} /\ ended = {} /\ overtaken = FALSE
    /\ newest = [s \in Sessions |-> 0]

\* The browser becomes B; what it shows then is noted.
Becomes(B) ==
    /\ hud' = B.hud /\ calls' = B.calls
    /\ newest' = [s \in Sessions |->
           IF B.hud.shown.session = s /\ Place(B.hud.shown) > newest[s]
           THEN Place(B.hud.shown) ELSE newest[s]]

Fault == faults < MaxFaults /\ faults' = faults + 1
NoFault == UNCHANGED faults

-----------------------------------------------------------------------------
(* Chains of awaits.                                                       *)

\* Bound: one place among the calls is kept for the end of the turn.
Spare(c) ==
    /\ calls[c] = Idle
    /\ hud.streaming => \E d \in Calls \ {c} : calls[d] = Idle

Poll(c) ==
    /\ Spare(c)
    /\ Becomes(RefreshSessions(Browser, c, "list", "reconcile"))
    /\ UNCHANGED <<stream, hermes, faults, reloads, known, ended, overtaken>>

\* The selected session is not in the list: it is let go.
Vanish(h) ==
    [ClearLocator(h) EXCEPT !.session = NoSession, !.active = NoRun,
                            !.card = NoCard, !.shown = Nothing]

AnswerList(c) ==
    LET call == calls[c]
        ignored == hud.session # call.session \/ hud.streaming
        Rest(B) == IF call.next = "reconcile" THEN Reconcile(B, c)
                   ELSE Finish(B, c)
    IN /\ call.at \in {"list", "boot"}
       /\ \/ /\ ignored
             /\ Becomes(Rest(Browser)) /\ NoFault
          \/ /\ ~ignored /\ Fault
             /\ Becomes(Rest(Browser))
          \/ /\ ~ignored /\ NoFault
             /\ hud.session = NoSession \/ call.since = 1
             /\ Becomes(IF call.at = "boot" /\ hud.session # NoSession
                        THEN LoadMessages(Browser, c, call.next)
                        ELSE Rest(Browser))
          \/ /\ ~ignored /\ NoFault
             /\ hud.session # NoSession /\ sessions[hud.session] = "deleted"
             /\ Becomes(Rest([Browser EXCEPT !.hud = Vanish(hud)]))
       /\ UNCHANGED <<stream, hermes, reloads, known, ended, overtaken>>

\* A history that fails to load is shown as such; the rest goes on.
AnswerHistory(c) ==
    /\ calls[c].at = "history"
    /\ Becomes(IF /\ calls[c].latest /\ hud.session = calls[c].session
                  /\ ~hud.streaming
               THEN RefreshEvidence(Browser, c, calls[c].next)
               ELSE AfterHistory(Browser, c))
    /\ UNCHANGED <<stream, hermes, faults, reloads, known, ended, overtaken>>

\* Mutant: the latest answer counts, whatever session it was asked for.
EvidenceWantedByCount(call) ==
    call.latest /\ ~hud.streaming /\ hud.card = NoCard

\* Mutant: any answer for the session counts.
EvidenceWantedBySession(call) ==
    /\ hud.session = call.session
    /\ ~hud.streaming /\ hud.card = NoCard

\* An answer with evidence still counts when it comes.
EvidenceWanted(call) ==
    /\ call.latest /\ hud.session = call.session
    /\ ~hud.streaming /\ hud.card = NoCard

AnswerEvidence(c) ==
    LET call == calls[c]
        Show(shown) == AfterEvidence([Browser EXCEPT !.hud.shown = shown], c)
    IN /\ call.at = "items"
       /\ \/ ~EvidenceWanted(call) /\ NoFault /\ Becomes(AfterEvidence(Browser, c))
          \/ /\ EvidenceWanted(call) /\ NoFault
             /\ \E shown \in Hydrated(call.session, call.since) :
                   Becomes(Show(shown))
          \/ /\ EvidenceWanted(call)
             /\ IF sessions[call.session] = "deleted" THEN NoFault ELSE Fault
             /\ Becomes(Show(Nothing))
       /\ UNCHANGED <<stream, hermes, reloads, known, ended, overtaken>>

\* A run observed active can be stopped; what it is doing was not observed.
Adopt(h, r) ==
    [h EXCEPT !.interlock = NoRun, !.active = r, !.card = NoCard,
              !.shown = Nothing]

\* What the browser makes of an answer about the locator's run.  exact: it
\* has a status code the browser knows, that run and a session.
Classify(call, seen, exact) ==
    IF seen = 3 THEN "expired"
    ELSE IF ~exact \/ runs[call.run].session # call.session THEN "unavailable"
    ELSE IF seen = 1 THEN "active" ELSE "terminal"

\* Only a run that is observed active is held on to; an answer that comes but
\* tells nothing lets the run go like one that says it is over.
AnswerStatus(c) ==
    LET call == calls[c]
        Known(h) == [h EXCEPT !.interlock = NoRun, !.active = NoRun]
        Unknown(h) == [h EXCEPT !.interlock = IF h.active = NoRun THEN call.run
                                              ELSE @]
        Read(h, next) == RefreshEvidence([Browser EXCEPT !.hud = h], c, next)
    IN /\ call.at = "status"
       /\ \/ /\ ~IsCurrent(Browser, c)
             /\ Becomes(Finish(Browser, c)) /\ NoFault /\ UNCHANGED <<known, ended>>
          \/ /\ IsCurrent(Browser, c) /\ Fault
             /\ Becomes(Read(Unknown(hud), "failed")) /\ UNCHANGED <<known, ended>>
          \/ /\ IsCurrent(Browser, c)
             /\ \E seen \in call.since .. Rank(call.run), exact \in BOOLEAN :
                   LET kind == Classify(call, seen, exact)
                   IN /\ IF exact THEN NoFault ELSE Fault
                      /\ Becomes(IF kind = "active"
                                 THEN Finish([Browser EXCEPT
                                          !.hud = Adopt(hud, call.run)], c)
                                 ELSE Read(Known(hud), "settle"))
                      /\ known' = IF kind = "active" THEN known \cup {call.run}
                                  ELSE IF kind = "unavailable"
                                       THEN known \ {call.run} ELSE known
                      /\ ended' = IF kind \in {"terminal", "expired"}
                                  THEN ended \cup {call.run} ELSE ended
       /\ UNCHANGED <<stream, hermes, reloads, overtaken>>

-----------------------------------------------------------------------------
(* The owner at the controls.                                              *)

Select(c, s) ==
    /\ ~Busy(hud)
    /\ calls[c] = Idle
    /\ s # hud.session /\ (s # NoSession => sessions[s] = "there")
    /\ LET h == [ClearLocator(hud) EXCEPT !.session = s, !.shown = Nothing]
       IN Becomes(LoadMessages([Browser EXCEPT !.hud = h], c, "done"))
    /\ UNCHANGED <<stream, hermes, faults, reloads, known, ended, overtaken>>

\* Bound: no more new sessions than there are ids for.
NewSession(c) ==
    /\ ~Busy(hud)
    /\ calls[c] = Idle
    /\ Cardinality({d \in Calls : calls[d].at = "create"})
         < Cardinality({s \in Sessions : sessions[s] = "new"})
    /\ Becomes(Await(Browser, c, [Idle EXCEPT !.at = "create"]))
    /\ UNCHANGED <<stream, hermes, faults, reloads, known, ended, overtaken>>

\* Whatever happened since, the new session is selected.  What was shown of
\* the session before stays.
AnswerCreate(c) ==
    /\ calls[c].at = "create"
    /\ \/ /\ Fault
          /\ Becomes(Finish(Browser, c))
          /\ UNCHANGED <<sessions, overtaken>>
       \/ /\ NoFault
          /\ \E s \in Sessions :
                /\ sessions[s] = "new"
                /\ sessions' = [sessions EXCEPT ![s] = "there"]
                /\ LET h == [ClearLocator(hud) EXCEPT !.session = s]
                       B == RefreshSessions([Browser EXCEPT !.hud = h], c,
                                            "boot", "done")
                   IN Becomes([B EXCEPT !.calls[c].since = 1])
          /\ overtaken' = (overtaken \/ Busy(hud))
    /\ UNCHANGED <<stream, runs, log, reloads, known, ended>>

Send ==
    /\ ~Busy(hud) /\ hud.session # NoSession
    /\ \E r \in Runs :
          /\ runs[r].status = "none" /\ \A q \in 1 .. r - 1 : runs[q].status # "none"
          /\ LET there == sessions[hud.session] = "there"
             IN /\ runs' = [runs EXCEPT ![r] =
                       [NewRun(hud.session) EXCEPT
                           !.status = IF there THEN "running" ELSE "gone"]]
                /\ stream' = [run |-> r, phase |-> IF there THEN "posted" ELSE "over"]
    /\ LET h == [hud EXCEPT !.streaming = TRUE, !.active = NoRun, !.card = NoCard]
           B == Supersede(Supersede([Browser EXCEPT !.hud = h], "history"), "items")
       IN Becomes(Supersede(B, "reconcile"))
    /\ UNCHANGED <<sessions, log, faults, reloads, known, ended, overtaken>>

Decide(c) ==
    /\ hud.card # NoCard
    /\ Spare(c)
    /\ \A d \in Calls : ~(calls[d].at = "decide" /\ calls[d].run = hud.card.run
                                               /\ calls[d].ask = hud.card.ask)
    /\ Becomes(IF hud.active = hud.card.run
               THEN Await(Browser, c, [Idle EXCEPT !.at = "decide",
                                          !.run = hud.card.run,
                                          !.ask = hud.card.ask])
               ELSE [Browser EXCEPT !.hud.card = NoCard])
    /\ UNCHANGED <<stream, hermes, faults, reloads, known, ended, overtaken>>

\* Hermes' answer hides the card it is about.  Buttons work again after an
\* error, or an answer that is not about this decision.
AnswerDecision(c) ==
    LET call == calls[c]
        mine == hud.card = [run |-> call.run, ask |-> call.ask]
                   /\ hud.active = call.run
    IN /\ call.at = "decide"
       /\ \E answer \in [run : {call.run, NoRun}, choice : {"once", "deny"},
                         resolved : BOOLEAN] :
             Becomes(Finish(IF mine /\ DecisionProjected(call.run, "once", answer)
                            THEN [Browser EXCEPT !.hud.card = NoCard,
                                                 !.hud.shown = Nothing]
                            ELSE Browser, c))
       /\ UNCHANGED <<stream, hermes, faults, reloads, known, ended, overtaken>>

\* The page is loaded again: storage is kept, memory and stream are gone.
Reload ==
    /\ reloads < MaxReloads /\ reloads' = reloads + 1
    /\ Becomes(Boot(Load(hud.session, hud.locator)))
    /\ stream' = NoStream
    /\ UNCHANGED <<hermes, faults, known, ended, overtaken>>

-----------------------------------------------------------------------------
(* The turn's event stream, projected by the bridge.                       *)

RunStarted ==
    /\ stream.phase = "posted"
    /\ stream' = [stream EXCEPT !.phase = "started"]
    /\ LET r == stream.run
       IN /\ Becomes([Browser EXCEPT
                !.hud.active = r, !.hud.shown = Nothing,
                !.hud.locator = [session |-> hud.session, run |-> r]])
          /\ known' = known \cup {r}
    /\ UNCHANGED <<hermes, faults, reloads, ended, overtaken>>

\* The run asks for an approval; a request that cannot be shown exactly
\* takes the card away.
ApprovalRequest ==
    LET r == stream.run
    IN /\ stream.phase = "started" /\ hud.active = r
       /\ Live(r) /\ runs[r].asks < MaxAsks
       /\ runs' = [runs EXCEPT ![r].asks = @ + 1]
       /\ \E request \in [run : BOOLEAN, command : BOOLEAN,
                          description : BOOLEAN, choices : BOOLEAN] :
             Becomes([Browser EXCEPT
                 !.hud.shown = Nothing,
                 !.hud.card = IF ApprovalState(request) = "approval_requested"
                              THEN [run |-> r, ask |-> runs[r].asks + 1]
                              ELSE NoCard])
       /\ UNCHANGED <<stream, sessions, log, faults, reloads, known, ended, overtaken>>

\* Mutant: an error ends the run's control but not its card.
OffDespiteCard(h) == KeepDurable([h EXCEPT !.active = NoRun])

\* The run is no longer this turn's.
Off(h) == KeepDurable([h EXCEPT !.active = NoRun, !.card = NoCard])

RunCompleted ==
    LET r == stream.run
        h == ClearRunLocator(Off(hud), r)
        Evidenced == IF \E i \in DOMAIN log[runs[r].session] :
                            log[runs[r].session][i] = r
                     THEN Projections(r, FALSE) ELSE {}
    IN /\ stream.phase = "started" /\ ~Live(r) /\ hud.active = r
       /\ \E shown \in Evidenced \cup {h.shown} :
             Becomes([Browser EXCEPT !.hud = [h EXCEPT !.shown = shown]])
       /\ ended' = ended \cup {r}
       /\ stream' = [stream EXCEPT !.phase = "over"]
       /\ UNCHANGED <<hermes, faults, reloads, known, overtaken>>

\* run.cancelled and run.failed
RunAborted ==
    LET r == stream.run
    IN /\ stream.phase = "started" /\ ~Live(r) /\ hud.active = r
       /\ Becomes([Browser EXCEPT !.hud = ClearRunLocator(Off(hud), r)])
       /\ ended' = ended \cup {r}
       /\ stream' = [stream EXCEPT !.phase = "over"]
       /\ UNCHANGED <<hermes, faults, reloads, known, overtaken>>

\* An error event of the run: the run may go on, its locator stays.
StreamError ==
    /\ stream.phase = "started" /\ hud.active = stream.run
    /\ Fault
    /\ Becomes([Browser EXCEPT !.hud = Off(hud)])
    /\ stream' = [stream EXCEPT !.phase = "over"]
    /\ UNCHANGED <<hermes, reloads, known, ended, overtaken>>

\* The stream ends, or breaks at any moment: a frame that is malformed, too
\* large or of another session ends it too.
StreamEnds(c) ==
    LET h == [(IF hud.active # NoRun \/ hud.card # NoCard THEN Off(hud) ELSE hud)
                 EXCEPT !.streaming = FALSE]
    IN /\ hud.streaming
       /\ calls[c] = Idle
       /\ IF stream.phase = "over" THEN NoFault ELSE Fault
       /\ stream' = NoStream
       /\ Becomes(LoadMessages([Browser EXCEPT !.hud = ArmInterlock(h)], c,
                               "reconcile"))
       /\ UNCHANGED <<hermes, reloads, known, ended, overtaken>>

-----------------------------------------------------------------------------
(* Hermes.                                                                 *)

\* A run ends, with a protected action or without; the message it leaves may
\* have lost the name of its tool.
RunEnds(r) ==
    /\ Live(r)
    /\ \E o \in Results \cup {"none"}, tool \in {"apply", "unknown"} :
          LET s == runs[r].session
              told == o # "none" /\ Evidence(<<[tool |-> tool]>>) # << >>
          IN /\ runs' = [runs EXCEPT ![r].status = "done",
                                     ![r].outcome = IF told THEN o ELSE "none"]
             /\ log' = IF told THEN [log EXCEPT ![s] = Append(@, r)] ELSE log
    /\ UNCHANGED <<hud, calls, stream, sessions, faults, reloads, history>>

RunForgotten(r) ==
    /\ runs[r].status = "done"
    /\ runs' = [runs EXCEPT ![r].status = "gone"]
    /\ UNCHANGED <<hud, calls, stream, sessions, log, faults, reloads, history>>

DeleteSession(s) ==
    /\ sessions[s] = "there"
    /\ Cardinality({t \in Sessions : sessions[t] = "deleted"}) < MaxDeletions
    /\ sessions' = [sessions EXCEPT ![s] = "deleted"]
    /\ UNCHANGED <<hud, calls, stream, runs, log, faults, reloads, history>>

-----------------------------------------------------------------------------
Turn == RunStarted \/ RunCompleted \/ RunAborted \/ \E c \in Calls : StreamEnds(c)

Answer(c) ==
    \/ AnswerList(c) \/ AnswerHistory(c) \/ AnswerEvidence(c)
    \/ AnswerStatus(c) \/ AnswerCreate(c) \/ AnswerDecision(c)

Owner ==
    \/ \E c \in Calls : \/ \E s \in Sessions \cup {NoSession} : Select(c, s)
                        \/ NewSession(c) \/ Decide(c)
    \/ Send \/ Reload

Hermes ==
    \/ \E r \in Runs : RunEnds(r) \/ RunForgotten(r)
    \/ \E s \in Sessions : DeleteSession(s)

Next ==
    \/ \E c \in Calls : Poll(c) \/ Answer(c)
    \/ Turn \/ ApprovalRequest \/ StreamError
    \/ Owner \/ Hermes

\* The timer polls, requests are answered and runs end.  A status, or the
\* evidence after it, that takes longer than to the next poll is asked for
\* again: not every answer comes too late.
Fairness ==
    /\ WF_vars(\E c \in Calls : Poll(c))
    /\ \A c \in Calls : WF_vars(Answer(c))
    /\ SF_vars(\E c \in Calls : AnswerStatus(c) /\ IsCurrent(Browser, c))
    /\ SF_vars(\E c \in Calls : AnswerEvidence(c) /\ IsCurrent(Browser, c))
    /\ WF_vars(Turn)
    /\ \A r \in Runs : WF_vars(RunEnds(r))

Spec == Init /\ [][Next]_vars /\ Fairness

-----------------------------------------------------------------------------
(* Properties.                                                             *)

\* Every variable has its type; what is shown is a result its session holds,
\* and STOP, the interlock and a running stream exclude what they exclude.
HudTypeOK ==
    /\ hud \in [session : Sessions \cup {NoSession}, active : {NoRun} \cup Runs,
               interlock : {NoRun} \cup Runs, streaming : BOOLEAN,
               locator : [session : Sessions \cup {NoSession},
                          run : {NoRun} \cup Runs],
               card : [run : {NoRun} \cup Runs, ask : 0 .. MaxAsks],
               shown : [session : Sessions \cup {NoSession},
                        run : {NoRun} \cup Runs, state : Shown]]
    /\ hud.streaming <=> stream.phase # "none"
    /\ hud.interlock # NoRun => hud.active = NoRun /\ ~hud.streaming
    /\ Durable(hud.shown) => \E i \in DOMAIN log[hud.shown.session] :
                                log[hud.shown.session][i] = hud.shown.run
    /\ hud.session # NoSession => sessions[hud.session] # "new"

\* A decision can be made only where it can still reach the run that asked:
\* while its event stream is open and it is the run STOP would stop.  An
\* ended, broken or failed stream, a lost session or a reload takes the
\* card away with the run.
CardOnItsTransport ==
    hud.card # NoCard => hud.streaming /\ hud.active = hud.card.run

\* What STOP would stop is what the locator names, in the session that is
\* selected: after a reload the same run is found again, and no session
\* control, late answer or clean-up leaves STOP aimed at a run the locator
\* has lost.  A new session that is linked while a turn is on is excepted.
LocatorBacksStop ==
    hud.active # NoRun =>
        overtaken \/ hud.locator = [session |-> hud.session, run |-> hud.active]

\* A run the browser has seen end is never its active run again, however
\* late the answer that saw it running comes.
EndedStaysEnded == hud.active \notin ended

\* What the panel says of a protected action is true: success only of one
\* that was committed, "refused" and "stale plan" only of one that changed
\* nothing and left no record open, whatever a message lost on its way.
ClaimsTrue ==
    Durable(hud.shown) =>
        LET o == runs[hud.shown.run].outcome
        IN /\ hud.shown.state = "succeeded" => o = "committed"
           /\ hud.shown.state \in {"refused", "stale_plan"} =>
                  ~Changed(o) /\ ~Unresolved(o)

\* No turn is submitted to a session while a run of it that the browser knows
\* of is still live: not after a broken stream, a failed answer or a reload,
\* not between the answers of a reconnect.  The one exception is what the code
\* does with a status answer it cannot classify: it lets the run go, live or
\* not, so that only an answer that shows the run active makes it known again.
NoCompetingTurn ==
    [][\A r \in Runs :
          runs[r].status = "none" /\ runs'[r].status = "running" /\ ~overtaken =>
              \A q \in known : runs[q].session = runs'[r].session => ~Live(q)]_vars

\* A record comes to be shown only under the session that holds it: an
\* answer that comes after the session was changed shows nothing.
EvidenceLands ==
    [][hud'.shown # hud.shown /\ Durable(hud'.shown) /\ ~overtaken =>
           hud'.shown.session = hud'.session]_vars

\* What is shown of a session never goes back to an earlier result: an
\* answer asked for before a turn does not replace what the turn showed.
NeverOlder ==
    [][hud'.shown # hud.shown /\ Durable(hud'.shown) =>
           Place(hud'.shown) >= newest[hud'.shown.session]]_vars

\* The controls are not blocked for good: once a run is over, its interlock
\* and its STOP go away, through broken streams, reloads, failed answers and
\* answers that overtake each other.  A run whose locator a new session took
\* away is excepted: its STOP stays for as long as the page does.
Unblocks == <>[](~Busy(hud) \/ overtaken)

\* "cross-session and late-hydration evidence cannot bleed into the selected
\* session": what is shown belongs to the selected session, unless a request
\* that will correct it is under way.
NoBleed ==
    Durable(hud.shown) /\ hud.shown.session # hud.session =>
        \E c \in Calls : /\ calls[c].at \in {"boot", "history", "items"}
                         /\ calls[c].session = hud.session
=============================================================================
