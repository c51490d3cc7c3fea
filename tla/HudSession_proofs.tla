--------------------------- MODULE HudSession_proofs ---------------------------
(***************************************************************************)
(* Proofs about the HUD browser: the type invariant and every safety and   *)
(* action property of HudSession that the runs check and find to hold, for *)
(* every set of sessions, every set of results and every bound.            *)
(*                                                                         *)
(* The inductive invariant has five parts.  World says what Hermes and the *)
(* histories can be; Controls what STOP, the interlock, the card and the   *)
(* locator say of each other and of the runs; Chains what a chain of       *)
(* awaits still carries from before its await; Panel what is shown;        *)
(* Frontier how that lies to the logs and to what is still asked for.      *)
(*                                                                         *)
(* Controls and Chains are operators of the values they speak about, so    *)
(* that a lemma about them can be used before and after a step.            *)
(***************************************************************************)
EXTENDS HudSession, SequenceTheorems, TLAPS

SomeSession == Sessions \cup {NoSession}
SomeRun == {NoRun} \cup Runs

Huds == [session : SomeSession, active : SomeRun, interlock : SomeRun,
         streaming : BOOLEAN, locator : [session : SomeSession, run : SomeRun],
         card : [run : SomeRun, ask : 0 .. MaxAsks],
         shown : [session : SomeSession, run : SomeRun, state : Shown]]

Continuations == {"done", "reconcile", "settle", "failed"}

Chain == [at : {"idle", "list", "boot", "history", "items", "status",
                "create", "decide"},
          session : SomeSession, run : SomeRun, next : Continuations,
          since : Nat, ask : Nat, latest : BOOLEAN, current : BOOLEAN]

Pairs == [hud : Huds, calls : [Calls -> Chain]]

HermesRuns == [session : SomeSession,
               status : {"none", "running", "done", "gone"},
               asks : 0 .. MaxAsks, outcome : Outcomes \cup {"none"}]

Types ==
    /\ Browser \in Pairs
    /\ stream \in [run : SomeRun, phase : {"none", "posted", "started", "over"}]
    /\ runs \in [Runs -> HermesRuns]
    /\ sessions \in [Sessions -> {"new", "there", "deleted"}]
    /\ log \in [Sessions -> Seq(Runs)]
    /\ known \subseteq Runs /\ ended \subseteq Runs
    /\ newest \in [Sessions -> Nat]
    /\ overtaken \in BOOLEAN
    /\ faults \in Nat /\ reloads \in Nat

\* Runs belong to linked sessions; what the browser knows of was submitted
\* and what it saw end is over; an open stream is of a submitted run.
Submitted ==
    /\ \A r \in Runs : runs[r].status # "none" =>
          runs[r].session \in Sessions /\ sessions[runs[r].session] # "new"
    /\ \A r \in known : runs[r].status # "none"
    /\ \A r \in ended : runs[r].status \in {"done", "gone"}
    /\ stream.phase # "none" => /\ stream.run \in Runs
                                /\ runs[stream.run].status # "none"
    /\ stream.phase = "posted" => stream.run \notin ended

\* A session's log holds runs of that session that are over, each once.
Recorded ==
    \A s \in Sessions : \A i \in DOMAIN log[s] :
       /\ runs[log[s][i]].session = s
       /\ runs[log[s][i]].status \in {"done", "gone"}
       /\ runs[log[s][i]].outcome \in Outcomes
       /\ \A j \in DOMAIN log[s] : log[s][j] = log[s][i] => j = i

World == Types /\ Submitted /\ Recorded

-----------------------------------------------------------------------------
(* Controls and chains.                                                    *)

\* A run that no other turn may compete with: the browser knows of it, it is
\* live in a session that exists, and no new session was linked over it.  A
\* status answer that cannot be classified ends that, not the run.
Guarded(q, rs, ss, kn, ov) ==
    /\ q \in kn /\ rs[q].status = "running"
    /\ ss[rs[q].session] = "there" /\ ~ov

\* The controls exclude what they exclude.
Exclusive(h, st, en) ==
    /\ h.interlock # NoRun => h.active = NoRun /\ ~h.streaming
    /\ h.card # NoCard => h.streaming /\ h.active = h.card.run
    /\ h.streaming <=> st.phase # "none"
    /\ st.phase = "posted" => h.active = NoRun /\ h.card = NoCard
    /\ h.active \notin en

\* What session, locator and stream name exists and fits.
Linked(h, st, rs, ss, ov) ==
    /\ h.active # NoRun =>
          ov \/ h.locator = [session |-> h.session, run |-> h.active]
    /\ h.session # NoSession => ss[h.session] # "new"
    /\ h.locator # NoLocator =>
          /\ h.locator.run \in Runs /\ h.locator.session \in Sessions
          /\ rs[h.locator.run].status # "none"
    /\ h.streaming => /\ h.session \in Sessions
                      /\ ov \/ rs[st.run].session = h.session

\* A guarded run is held on to.
Held(h, st, rs, ss, kn, ov) ==
    \A q \in Runs : Guarded(q, rs, ss, kn, ov) =>
       /\ h.session = rs[q].session
       /\ h.locator = [session |-> h.session, run |-> q]
       /\ h.active = q \/ h.interlock = q \/ h.streaming
       /\ st.phase # "posted"

Controls(h, st, rs, ss, kn, en, ov) ==
    /\ Exclusive(h, st, en)
    /\ Linked(h, st, rs, ss, ov)
    /\ Held(h, st, rs, ss, kn, ov)

\* What one chain carries: a reconnect that still counts never saw a run
\* that was known to be over as running, and gives up no run that is guarded.
Carries(q, h, rs, ss, kn, en, ov) ==
    /\ q.current => /\ q.at \in {"status", "items"}
                    /\ q.run \in Runs /\ ~h.streaming
    /\ q.current /\ q.at = "items" => q.next \in {"settle", "failed"}
    /\ q.current /\ q.at = "items" /\ q.next = "settle" =>
          h.active = NoRun /\ ~Guarded(q.run, rs, ss, kn, ov)
    /\ q.current /\ q.at = "status" =>
          /\ q.since >= 1
          /\ q.run \in en => q.since >= 2
    /\ q.at = "items" => q.session \in Sessions
    /\ q.at = "items" /\ q.latest => ~h.streaming

\* At most one reconnect and one request for evidence still count.
Single(cs) ==
    \A c, d \in Calls : c # d =>
       /\ ~(cs[c].current /\ cs[d].current)
       /\ ~(cs[c].at = "items" /\ cs[c].latest
              /\ cs[d].at = "items" /\ cs[d].latest)

Chains(cs, h, rs, ss, kn, en, ov) ==
    /\ Single(cs)
    /\ \A c \in Calls : Carries(cs[c], h, rs, ss, kn, en, ov)

-----------------------------------------------------------------------------
(* What is shown.                                                          *)

\* A result that is shown is in its session's log, is true, and is one the
\* browser has come as far as.
Panel ==
    /\ Durable(hud.shown) =>
          /\ hud.shown.session \in Sessions
          /\ \E i \in DOMAIN log[hud.shown.session] :
                log[hud.shown.session][i] = hud.shown.run
          /\ \A i \in DOMAIN log[hud.shown.session] :
                log[hud.shown.session][i] = hud.shown.run
                   => i <= newest[hud.shown.session]
    /\ ClaimsTrue

\* No request for evidence asks for a result before the newest shown.
Fresh(cs, nw) ==
    \A c \in Calls : cs[c].at = "items" /\ cs[c].latest =>
       nw[cs[c].session] <= cs[c].since

\* The result of an open stream's run comes after all that was shown.
Ahead ==
    stream.phase \in {"posted", "started"} =>
       \A i \in DOMAIN log[runs[stream.run].session] :
          log[runs[stream.run].session][i] = stream.run =>
             i > newest[runs[stream.run].session]

Frontier ==
    /\ \A s \in Sessions : newest[s] <= Len(log[s])
    /\ Fresh(calls, newest)
    /\ Ahead

HudInvariant ==
    /\ World
    /\ Controls(hud, stream, runs, sessions, known, ended, overtaken)
    /\ Chains(calls, hud, runs, sessions, known, ended, overtaken)
    /\ Panel
    /\ Frontier

-----------------------------------------------------------------------------
(* The browser's helpers.                                                  *)

\* q is what is left of chain p when a later request was made.
Older(q, p) ==
    /\ q \in Chain
    /\ q.at = p.at /\ q.session = p.session /\ q.run = p.run
    /\ q.next = p.next /\ q.since = p.since
    /\ q.latest => p.latest
    /\ q.current => p.current

\* Nothing but what is shown may differ.
Steady(h, g) ==
    /\ h.session = g.session /\ h.active = g.active /\ h.card = g.card
    /\ h.streaming = g.streaming
    /\ h.shown \in {g.shown, Nothing}

\* What a handler does to locator and interlock: nothing, unblock a session
\* the locator does not name, block on the run it names, or let go of the
\* run of a reconnect that still counts.
Relinked(B, S, c, nx) ==
    \/ S.hud.locator = B.hud.locator /\ S.hud.interlock = B.hud.interlock
    \/ /\ S.hud.locator = B.hud.locator /\ S.hud.interlock = NoRun
       /\ B.hud.locator = NoLocator \/ B.hud.locator.session # B.hud.session
    \/ /\ S.hud.locator = B.hud.locator
       /\ S.hud.interlock = B.hud.locator.run
       /\ B.hud.active = NoRun /\ ~B.hud.streaming
       /\ B.hud.session # NoSession
       /\ B.hud.locator.session = B.hud.session
    \/ /\ nx = "settle" /\ B.calls[c].current
       /\ B.hud.locator.run = B.calls[c].run
       /\ S.hud.locator = NoLocator
       /\ S.hud.interlock \in {NoRun, B.hud.interlock}

\* Where the chain goes: to its end, or to its next await.
Goes(B, S, c, nx) ==
    \/ S.calls[c] = Idle
    \/ S.calls[c].at = "history" /\ ~S.calls[c].current
    \/ /\ S.calls[c].at = "items" /\ ~B.hud.streaming
       /\ S.calls[c].session = B.hud.session
       /\ B.hud.session \in Sessions
       /\ S.calls[c].since = Len(log[B.hud.session])
       /\ S.calls[c].run = B.calls[c].run
       /\ S.calls[c].current = B.calls[c].current
       /\ S.calls[c].next = nx
       /\ \A d \in Calls \ {c} : S.calls[d].at = "items" => ~S.calls[d].latest
    \/ /\ S.calls[c].at = "status" /\ ~B.hud.streaming
       /\ S.calls[c].run = B.hud.locator.run
       /\ S.calls[c].since = Rank(B.hud.locator.run)
       /\ B.hud.locator # NoLocator
       /\ \A d \in Calls \ {c} : ~S.calls[d].current

\* What a helper that ends chain c's handler makes of B.
TailOf(B, S, c, nx) ==
    /\ S \in Pairs
    /\ Steady(S.hud, B.hud)
    /\ \A d \in Calls \ {c} : Older(S.calls[d], B.calls[d])
    /\ Relinked(B, S, c, nx)
    /\ Goes(B, S, c, nx)

\* What comes before such a helper.
Ready(A, B, c) ==
    /\ B \in Pairs
    /\ Steady(B.hud, A.hud)
    /\ B.hud.locator = A.hud.locator /\ B.hud.interlock = A.hud.interlock
    /\ \A d \in Calls \ {c} : Older(B.calls[d], A.calls[d])
    /\ B.calls[c].run = A.calls[c].run
    /\ B.calls[c].current = A.calls[c].current

LEMMA IdleType == Idle \in Chain
<1>1. NoSession \in SomeSession /\ NoRun \in SomeRun
  BY DEF SomeSession, SomeRun
<1> QED BY <1>1 DEF Idle, Chain, Continuations

\* A later request takes latest or current from chains, and nothing else.
LEMMA SupersedeOlder ==
  ASSUME NEW B \in Pairs, NEW kind
  PROVE  /\ Supersede(B, kind) \in Pairs
         /\ Supersede(B, kind).hud = B.hud
         /\ \A d \in Calls : Older(Supersede(B, kind).calls[d], B.calls[d])
         /\ kind # "reconcile" =>
               \A d \in Calls : Supersede(B, kind).calls[d].current
                                    = B.calls[d].current
         /\ kind = "reconcile" =>
               \A d \in Calls : ~Supersede(B, kind).calls[d].current
         /\ kind = "items" =>
               \A d \in Calls : Supersede(B, kind).calls[d].at = "items"
                                   => ~Supersede(B, kind).calls[d].latest
<1> DEFINE Q(c) == [B.calls[c] EXCEPT
              !.latest = IF kind = B.calls[c].at THEN FALSE ELSE @,
              !.current = IF kind = "reconcile" THEN FALSE ELSE @]
<1> DEFINE F == [c \in Calls |-> Q(c)]
<1>1. Supersede(B, kind) = [B EXCEPT !.calls = F]
  BY DEF Supersede
<1>2. \A c \in Calls :
         /\ Q(c) \in Chain /\ Older(Q(c), B.calls[c])
         /\ kind # "reconcile" => Q(c).current = B.calls[c].current
         /\ kind = "reconcile" => ~Q(c).current
         /\ kind = "items" => (Q(c).at = "items" => ~Q(c).latest)
  <2> TAKE c \in Calls
  <2>1. B.calls[c] \in Chain
    BY DEF Pairs
  <2> QED BY <2>1 DEF Chain, Older
<1> HIDE DEF Q
<1>3. F \in [Calls -> Chain] /\ \A c \in Calls : F[c] = Q(c)
  BY <1>2
<1> HIDE DEF F
<1>4. [B EXCEPT !.calls = F] \in Pairs
  BY <1>3 DEF Pairs
<1>5. [B EXCEPT !.calls = F].hud = B.hud /\ [B EXCEPT !.calls = F].calls = F
  BY DEF Pairs
<1> QED BY <1>1, <1>2, <1>3, <1>4, <1>5

LEMMA OlderSelf ==
  ASSUME NEW q \in Chain
  PROVE  Older(q, q)
  BY DEF Older

LEMMA OlderOlder ==
  ASSUME NEW p, NEW q, NEW r, Older(q, p), Older(r, q)
  PROVE  Older(r, p)
  BY DEF Older

\* A chain that ends, or goes to its next await, leaves the others alone.
LEMMA AwaitPair ==
  ASSUME NEW B \in Pairs, NEW c \in Calls, NEW q \in Chain
  PROVE  /\ Await(B, c, q) \in Pairs
         /\ Await(B, c, q).hud = B.hud
         /\ Await(B, c, q).calls[c] = q
         /\ \A d \in Calls \ {c} : Await(B, c, q).calls[d] = B.calls[d]
         /\ \A d \in Calls \ {c} : Older(Await(B, c, q).calls[d], B.calls[d])
<1>1. \A d \in Calls : B.calls[d] \in Chain
  BY DEF Pairs
<1>2. [B.calls EXCEPT ![c] = q] \in [Calls -> Chain]
  BY DEF Pairs
<1>3. \A d \in Calls \ {c} : [B.calls EXCEPT ![c] = q][d] = B.calls[d]
  BY DEF Pairs
<1>4. [B.calls EXCEPT ![c] = q][c] = q
  BY DEF Pairs
<1> QED BY <1>1, <1>2, <1>3, <1>4, OlderSelf DEF Await, Pairs

LEMMA FinishPair ==
  ASSUME NEW B \in Pairs, NEW c \in Calls
  PROVE  Finish(B, c) = Await(B, c, Idle)
  BY DEF Finish, Await

\* A new state of the browser with the chains as they were.
LEMMA HudPair ==
  ASSUME NEW B \in Pairs, NEW h \in Huds
  PROVE  /\ [B EXCEPT !.hud = h] \in Pairs
         /\ [B EXCEPT !.hud = h].hud = h
         /\ [B EXCEPT !.hud = h].calls = B.calls
  BY DEF Pairs

LEMMA ArmPair ==
  ASSUME NEW h \in Huds
  PROVE  /\ ArmInterlock(h) \in Huds
         /\ Steady(ArmInterlock(h), h)
         /\ ArmInterlock(h).locator = h.locator
         /\ ArmInterlock(h).shown = h.shown
         /\ \/ ArmInterlock(h).interlock = h.interlock
               /\ ~(/\ h.session # NoSession /\ h.active = NoRun
                    /\ h.locator.session = h.session)
            \/ /\ ArmInterlock(h).interlock = h.locator.run
               /\ h.session # NoSession /\ h.active = NoRun
               /\ h.locator.session = h.session
  BY DEF ArmInterlock, Huds, Steady, SomeRun, SomeSession

\* A chain that ends is one way of the tail.
LEMMA FinishTail ==
  ASSUME NEW B \in Pairs, NEW c \in Calls, NEW nx
  PROVE  TailOf(B, Finish(B, c), c, nx)
<1>1. Finish(B, c) = Await(B, c, Idle)
  BY FinishPair
<1>2. Steady(B.hud, B.hud)
  BY DEF Steady
<1> QED BY <1>1, <1>2, IdleType, AwaitPair DEF TailOf, Relinked, Goes

\* What a tail makes of what came before it, it makes of what came first.
LEMMA ReadyTail ==
  ASSUME NEW A \in Pairs, NEW B, NEW S, NEW c \in Calls, NEW nx,
         Ready(A, B, c), TailOf(B, S, c, nx)
  PROVE  TailOf(A, S, c, nx)
<1>1. Steady(S.hud, A.hud)
  BY DEF Ready, TailOf, Steady
<1>2. \A d \in Calls \ {c} : Older(S.calls[d], A.calls[d])
  BY OlderOlder DEF Ready, TailOf
<1>3. /\ B.hud.session = A.hud.session /\ B.hud.active = A.hud.active
      /\ B.hud.streaming = A.hud.streaming
      /\ B.hud.locator = A.hud.locator /\ B.hud.interlock = A.hud.interlock
      /\ B.calls[c].run = A.calls[c].run
      /\ B.calls[c].current = A.calls[c].current
  BY DEF Ready, Steady
<1>4. Relinked(A, S, c, nx)
  <2>1. Relinked(B, S, c, nx)
    BY DEF TailOf
  <2> QED BY <1>3, <2>1 DEF Relinked
<1>5. Goes(A, S, c, nx)
  <2>1. Goes(B, S, c, nx)
    BY DEF TailOf
  <2> QED BY <1>3, <2>1 DEF Goes
<1> QED BY <1>1, <1>2, <1>4, <1>5 DEF TailOf

\* What the locator of a selected session names, a reconnect can ask about.
LEMMA ReconcileTail ==
  ASSUME Types, NEW B \in Pairs, NEW c \in Calls, NEW nx
  PROVE  TailOf(B, Reconcile(B, c), c, nx)
<1> DEFINE A == Supersede(B, "reconcile")
           h == A.hud
           matching == h.locator # NoLocator /\ h.locator.session = h.session
           asked == [Idle EXCEPT !.at = "status", !.session = h.locator.session,
                                 !.run = h.locator.run, !.current = TRUE,
                                 !.since = Rank(h.locator.run)]
<1>1. /\ A \in Pairs /\ h = B.hud /\ h \in Huds
      /\ \A d \in Calls : Older(A.calls[d], B.calls[d]) /\ ~A.calls[d].current
  BY SupersedeOlder DEF Pairs
<1>2. \A g : Steady(g, g)
  BY DEF Steady
<1>3. CASE h.session = NoSession \/ h.streaming \/ h.card # NoCard
  <2>1. Reconcile(B, c) = Await(A, c, Idle)
    BY <1>3, FinishPair, <1>1 DEF Reconcile
  <2> HIDE DEF A
  <2> QED BY <2>1, <1>1, <1>2, IdleType, AwaitPair, OlderOlder
          DEF TailOf, Relinked, Goes
<1>4. CASE ~(h.session = NoSession \/ h.streaming \/ h.card # NoCard)
           /\ ~matching
  <2> DEFINE g == [h EXCEPT !.interlock = NoRun]
             C == [A EXCEPT !.hud = g]
  <2>1. [A EXCEPT !.hud.interlock = NoRun] = C
    BY <1>1 DEF Pairs
  <2>2. g \in Huds /\ Steady(g, h) /\ g.locator = h.locator /\ g.interlock = NoRun
    BY <1>1 DEF Huds, Steady, SomeRun
  <2>3. C \in Pairs /\ C.hud = g /\ C.calls = A.calls
    BY <1>1, <2>2, HudPair
  <2>4. Reconcile(B, c) = Await(C, c, Idle)
    BY <1>4, <2>1, <2>3, FinishPair DEF Reconcile
  <2> HIDE DEF g, C, A
  <2>5. Await(C, c, Idle) \in Pairs
      /\ Await(C, c, Idle).hud = C.hud
      /\ Await(C, c, Idle).calls[c] = Idle
      /\ \A d \in Calls \ {c} : Await(C, c, Idle).calls[d] = C.calls[d]
    BY <2>3, IdleType, AwaitPair
  <2>6. Relinked(B, Await(C, c, Idle), c, nx)
    BY <1>1, <1>4, <2>2, <2>3, <2>5 DEF Relinked
  <2> QED BY <2>2, <2>3, <2>4, <2>5, <2>6, <1>1 DEF TailOf, Goes
<1>5. CASE ~(h.session = NoSession \/ h.streaming \/ h.card # NoCard)
           /\ matching
  <2> DEFINE g == ArmInterlock(h)
             C == [A EXCEPT !.hud = g]
  <2>1. /\ g \in Huds /\ Steady(g, h) /\ g.locator = h.locator
        /\ \/ g.interlock = h.interlock
           \/ /\ g.interlock = h.locator.run
              /\ h.session # NoSession /\ h.active = NoRun
              /\ h.locator.session = h.session
    BY <1>1, ArmPair
  <2>2. C \in Pairs /\ C.hud = g /\ C.calls = A.calls
    BY <1>1, <2>1, HudPair
  <2>3. Reconcile(B, c) = Await(C, c, asked)
    BY <1>5 DEF Reconcile
  <2>4. asked \in Chain
    <3>1. h.locator.session \in SomeSession /\ h.locator.run \in SomeRun
      BY <1>1 DEF Huds
    <3>2. Rank(h.locator.run) \in Nat
      BY DEF Rank
    <3> QED BY <3>1, <3>2, IdleType DEF Chain
  <2>6. /\ asked.at = "status" /\ asked.run = h.locator.run
        /\ asked.since = Rank(h.locator.run)
    BY DEF Idle
  <2> HIDE DEF g, C, asked, A
  <2>5. Await(C, c, asked) \in Pairs
      /\ Await(C, c, asked).hud = C.hud
      /\ Await(C, c, asked).calls[c] = asked
      /\ \A d \in Calls \ {c} : Await(C, c, asked).calls[d] = C.calls[d]
    BY <2>2, <2>4, AwaitPair
  <2>7. Relinked(B, Await(C, c, asked), c, nx)
    BY <1>1, <1>5, <2>1, <2>2, <2>5 DEF Relinked
  <2>8. Goes(B, Await(C, c, asked), c, nx)
    BY <1>1, <1>5, <2>2, <2>5, <2>6 DEF Goes
  <2> QED BY <2>1, <2>2, <2>3, <2>5, <2>7, <2>8, <1>1 DEF TailOf
<1> QED BY <1>3, <1>4, <1>5

\* A record that is no completed result is all that KeepDurable can drop.
LEMMA KeepPair ==
  ASSUME NEW h \in Huds
  PROVE  /\ KeepDurable(h) \in Huds
         /\ Steady(KeepDurable(h), h)
         /\ KeepDurable(h).locator = h.locator
         /\ KeepDurable(h).interlock = h.interlock
<1>1. NoSession \in SomeSession /\ NoRun \in SomeRun
  BY DEF SomeSession, SomeRun
<1> QED BY <1>1 DEF KeepDurable, Huds, Steady, Nothing, Shown

LEMMA ClearRunPair ==
  ASSUME NEW h \in Huds, NEW r
  PROVE  /\ ClearRunLocator(h, r) \in Huds
         /\ Steady(ClearRunLocator(h, r), h)
         /\ ClearRunLocator(h, r).shown = h.shown
         /\ h.locator.run = r =>
               /\ ClearRunLocator(h, r).locator = NoLocator
               /\ ClearRunLocator(h, r).interlock
                     = IF h.interlock = r THEN NoRun ELSE h.interlock
         /\ h.locator.run # r => ClearRunLocator(h, r) = h
<1>1. NoSession \in SomeSession /\ NoRun \in SomeRun
  BY DEF SomeSession, SomeRun
<1> QED BY <1>1 DEF ClearRunLocator, Huds, Steady, NoLocator

\* After its evidence, a chain ends, reconnects, or settles the run of a
\* reconnect that still counts.
LEMMA AfterEvidenceTail ==
  ASSUME Types, NEW B \in Pairs, NEW c \in Calls
  PROVE  TailOf(B, AfterEvidence(B, c), c, B.calls[c].next)
<1> DEFINE call == B.calls[c]
<1>1. CASE call.next = "done" \/ (call.next # "reconcile" /\ ~IsCurrent(B, c))
  <2>1. AfterEvidence(B, c) = Finish(B, c)
    BY <1>1 DEF AfterEvidence
  <2> QED BY <2>1, FinishTail
<1>2. CASE call.next = "reconcile"
  <2>1. AfterEvidence(B, c) = Reconcile(B, c)
    BY <1>2 DEF AfterEvidence
  <2> QED BY <2>1, ReconcileTail
<1>3. CASE call.next # "done" /\ call.next # "reconcile" /\ IsCurrent(B, c)
  <2> DEFINE h == Settle(B.hud, call)
             k == KeepDurable(h)
             C == [B EXCEPT !.hud = k]
  <2>1. B.hud \in Huds /\ B.hud.locator.run = call.run /\ call.current
    BY <1>3 DEF Pairs, IsCurrent
  <2>2. /\ h \in Huds /\ Steady(h, B.hud)
        /\ \/ h = B.hud
           \/ /\ call.next = "settle" /\ h.locator = NoLocator
              /\ h.interlock \in {NoRun, B.hud.interlock}
    <3>1. CASE call.next = "settle"
      BY <3>1, <2>1, ClearRunPair DEF Settle
    <3>2. CASE call.next # "settle"
      BY <3>2, <2>1 DEF Settle, Steady
    <3> QED BY <3>1, <3>2
  <2>3. /\ k \in Huds /\ Steady(k, h)
        /\ k.locator = h.locator /\ k.interlock = h.interlock
    BY <2>2, KeepPair
  <2>4. Steady(k, B.hud)
    BY <2>2, <2>3 DEF Steady
  <2>5. C \in Pairs /\ C.hud = k /\ C.calls = B.calls
    BY <2>3, HudPair
  <2>6. AfterEvidence(B, c) = Await(C, c, Idle)
    BY <1>3, <2>5, FinishPair DEF AfterEvidence
  <2>7. Await(C, c, Idle) \in Pairs
      /\ Await(C, c, Idle).hud = C.hud
      /\ Await(C, c, Idle).calls[c] = Idle
      /\ \A d \in Calls \ {c} : Older(Await(C, c, Idle).calls[d], C.calls[d])
    BY <2>5, IdleType, AwaitPair
  <2> HIDE DEF h, k, C
  <2>8. Relinked(B, Await(C, c, Idle), c, call.next)
    BY <2>1, <2>2, <2>3, <2>5, <2>7 DEF Relinked
  <2> QED BY <2>4, <2>5, <2>6, <2>7, <2>8 DEF TailOf, Goes
<1> QED BY <1>1, <1>2, <1>3

\* One chain gets a new continuation.
LEMMA NextPair ==
  ASSUME NEW B \in Pairs, NEW c \in Calls, NEW next \in Continuations
  PROVE  /\ [B EXCEPT !.calls[c].next = next] \in Pairs
         /\ [B EXCEPT !.calls[c].next = next].hud = B.hud
         /\ [B EXCEPT !.calls[c].next = next].calls[c]
               = [B.calls[c] EXCEPT !.next = next]
         /\ \A d \in Calls \ {c} :
               [B EXCEPT !.calls[c].next = next].calls[d] = B.calls[d]
<1> DEFINE q == [B.calls[c] EXCEPT !.next = next]
<1>1. q \in Chain
  BY DEF Pairs, Chain
<1>2. [B EXCEPT !.calls[c].next = next] = Await(B, c, q)
  BY DEF Pairs, Await
<1> HIDE DEF q
<1>3. /\ Await(B, c, q) \in Pairs /\ Await(B, c, q).hud = B.hud
      /\ Await(B, c, q).calls[c] = q
      /\ \A d \in Calls \ {c} : Await(B, c, q).calls[d] = B.calls[d]
  BY <1>1, AwaitPair
<1> QED BY <1>2, <1>3 DEF q

\* Nothing is shown any more.
LEMMA BlankPair ==
  ASSUME NEW B \in Pairs
  PROVE  /\ [B EXCEPT !.hud.shown = Nothing] \in Pairs
         /\ [B EXCEPT !.hud.shown = Nothing].calls = B.calls
         /\ Steady([B EXCEPT !.hud.shown = Nothing].hud, B.hud)
         /\ [B EXCEPT !.hud.shown = Nothing].hud.locator = B.hud.locator
         /\ [B EXCEPT !.hud.shown = Nothing].hud.interlock = B.hud.interlock
<1> DEFINE h == [B.hud EXCEPT !.shown = Nothing]
<1>1. Nothing \in [session : SomeSession, run : SomeRun, state : Shown]
  BY DEF Nothing, SomeSession, SomeRun, Shown
<1>2. /\ h \in Huds /\ Steady(h, B.hud) /\ h.locator = B.hud.locator
      /\ h.interlock = B.hud.interlock
  BY <1>1 DEF Pairs, Huds, Steady
<1>3. [B EXCEPT !.hud.shown = Nothing] = [B EXCEPT !.hud = h]
  BY DEF Pairs
<1> QED BY <1>2, <1>3, HudPair

\* What a request for evidence or history does before it goes its way.
Renewed(B, kind, c, next) == [Supersede(B, kind) EXCEPT !.calls[c].next = next]

LEMMA RenewedReady ==
  ASSUME NEW B \in Pairs, NEW c \in Calls, NEW next \in Continuations,
         NEW kind \in {"items", "history"}
  PROVE  /\ Ready(B, Renewed(B, kind, c, next), c)
         /\ Renewed(B, kind, c, next) \in Pairs
         /\ Renewed(B, kind, c, next).hud = B.hud
         /\ Renewed(B, kind, c, next).calls[c].next = next
         /\ kind = "items" => \A d \in Calls \ {c} :
               Renewed(B, kind, c, next).calls[d].at = "items"
                  => ~Renewed(B, kind, c, next).calls[d].latest
<1> DEFINE A == Supersede(B, kind)
           R == Renewed(B, kind, c, next)
<1>1. /\ A \in Pairs /\ A.hud = B.hud
      /\ \A d \in Calls : /\ Older(A.calls[d], B.calls[d])
                          /\ A.calls[d].current = B.calls[d].current
      /\ kind = "items" => \A d \in Calls :
            A.calls[d].at = "items" => ~A.calls[d].latest
  BY SupersedeOlder
<1>2. R = [A EXCEPT !.calls[c].next = next]
  BY DEF Renewed
<1> HIDE DEF A, R
<1>3. /\ R \in Pairs /\ R.hud = A.hud
      /\ R.calls[c] = [A.calls[c] EXCEPT !.next = next]
      /\ \A d \in Calls \ {c} : R.calls[d] = A.calls[d]
  BY <1>1, <1>2, NextPair
<1>4. A.calls[c] \in Chain /\ A.calls[c].run = B.calls[c].run
  BY <1>1 DEF Pairs, Older
<1>5. /\ R.calls[c].run = B.calls[c].run
      /\ R.calls[c].current = B.calls[c].current
      /\ R.calls[c].next = next
  BY <1>1, <1>3, <1>4 DEF Chain
<1>6. Ready(B, R, c)
  BY <1>1, <1>3, <1>5 DEF Ready, Steady
<1>7. kind = "items" => \A d \in Calls \ {c} :
         R.calls[d].at = "items" => ~R.calls[d].latest
  BY <1>1, <1>3
<1> QED BY <1>1, <1>3, <1>5, <1>6, <1>7 DEF R

\* A request for evidence is made for the session that is selected, or the
\* chain goes on without.
LEMMA RefreshEvidenceTail ==
  ASSUME Types, NEW B \in Pairs, NEW c \in Calls, NEW next \in Continuations
  PROVE  TailOf(B, RefreshEvidence(B, c, next), c, next)
<1> DEFINE R == Renewed(B, "items", c, next)
           h == R.hud
<1>1. /\ Ready(B, R, c) /\ R.hud = B.hud /\ R.calls[c].next = next
      /\ \A d \in Calls \ {c} : R.calls[d].at = "items" => ~R.calls[d].latest
      /\ R \in Pairs
  BY RenewedReady
<1>2. CASE h.streaming \/ h.card # NoCard
  <2>1. RefreshEvidence(B, c, next) = AfterEvidence(R, c)
    BY <1>2 DEF RefreshEvidence, Renewed
  <2> HIDE DEF R
  <2>2. TailOf(R, AfterEvidence(R, c), c, next)
    BY <1>1, AfterEvidenceTail
  <2> QED BY <2>1, <2>2, <1>1, ReadyTail
<1>3. CASE ~(h.streaming \/ h.card # NoCard) /\ h.session = NoSession
  <2> DEFINE K == [R EXCEPT !.hud.shown = Nothing]
  <2>1. RefreshEvidence(B, c, next) = AfterEvidence(K, c)
    BY <1>3 DEF RefreshEvidence, Renewed
  <2> HIDE DEF R
  <2>2. /\ K \in Pairs /\ K.calls = R.calls /\ Steady(K.hud, R.hud)
        /\ K.hud.locator = R.hud.locator /\ K.hud.interlock = R.hud.interlock
    BY <1>1, BlankPair
  <2>3. Ready(B, K, c) /\ K.calls[c].next = next
    BY <1>1, <2>2 DEF Ready, Steady
  <2> HIDE DEF K
  <2>4. TailOf(K, AfterEvidence(K, c), c, next)
    BY <2>2, <2>3, AfterEvidenceTail
  <2> QED BY <2>1, <2>3, <2>4, ReadyTail
<1>4. CASE ~(h.streaming \/ h.card # NoCard) /\ h.session # NoSession
  <2> DEFINE q == [R.calls[c] EXCEPT
                      !.at = "items", !.latest = TRUE, !.ask = 0,
                      !.session = h.session, !.since = Len(log[h.session])]
             W == Await(R, c, q)
  <2>1. h.session \in Sessions /\ Len(log[h.session]) \in Nat
    BY <1>1, <1>4 DEF Pairs, Huds, SomeSession, Types
  <2>2. RefreshEvidence(B, c, next) = W
    BY <1>4 DEF RefreshEvidence, Renewed
  <2> HIDE DEF R
  <2>3. R.calls[c] \in Chain /\ h.session \in SomeSession
    BY <1>1, <2>1 DEF Pairs, SomeSession
  <2>4. q \in Chain
    BY <2>1, <2>3 DEF Chain
  <2>5. /\ q.at = "items" /\ q.session = h.session /\ q.next = next
        /\ q.since = Len(log[h.session]) /\ q.run = R.calls[c].run
        /\ q.current = R.calls[c].current
    BY <1>1 DEF Pairs, Chain
  <2> HIDE DEF q
  <2>6. /\ W \in Pairs /\ W.hud = R.hud /\ W.calls[c] = q
        /\ \A d \in Calls \ {c} : W.calls[d] = R.calls[d]
    BY <1>1, <2>4, AwaitPair
  <2> HIDE DEF W
  <2>7. Goes(B, W, c, next)
    BY <1>1, <1>4, <2>1, <2>5, <2>6 DEF Goes, Ready
  <2>8. Relinked(B, W, c, next) /\ Steady(W.hud, B.hud)
    BY <1>1, <2>6 DEF Relinked, Steady
  <2>9. \A d \in Calls \ {c} : Older(W.calls[d], B.calls[d])
    BY <1>1, <2>6 DEF Ready
  <2> QED BY <2>2, <2>6, <2>7, <2>8, <2>9 DEF TailOf
<1> QED BY <1>2, <1>3, <1>4

LEMMA AfterHistoryTail ==
  ASSUME Types, NEW B \in Pairs, NEW c \in Calls, NEW nx
  PROVE  TailOf(B, AfterHistory(B, c), c, nx)
  BY ReconcileTail, FinishTail DEF AfterHistory

\* The history is asked for in the session that is selected, or the chain
\* goes on without.
LEMMA LoadMessagesTail ==
  ASSUME Types, NEW B \in Pairs, NEW c \in Calls, NEW next \in Continuations
  PROVE  TailOf(B, LoadMessages(B, c, next), c, next)
<1> DEFINE R == Renewed(B, "history", c, next)
           h == R.hud
<1>1. Ready(B, R, c) /\ R.hud = B.hud /\ R.calls[c].next = next /\ R \in Pairs
  BY RenewedReady
<1>2. CASE h.streaming
  <2>1. LoadMessages(B, c, next) = AfterHistory(R, c)
    BY <1>2 DEF LoadMessages, Renewed
  <2> HIDE DEF R
  <2>2. TailOf(R, AfterHistory(R, c), c, next)
    BY <1>1, AfterHistoryTail
  <2> QED BY <2>1, <2>2, <1>1, ReadyTail
<1>3. CASE ~h.streaming /\ h.session = NoSession
  <2> DEFINE K == [R EXCEPT !.hud.shown = Nothing]
  <2>1. LoadMessages(B, c, next) = AfterHistory(K, c)
    BY <1>3 DEF LoadMessages, Renewed
  <2> HIDE DEF R
  <2>2. /\ K \in Pairs /\ K.calls = R.calls /\ Steady(K.hud, R.hud)
        /\ K.hud.locator = R.hud.locator /\ K.hud.interlock = R.hud.interlock
    BY <1>1, BlankPair
  <2>3. Ready(B, K, c)
    BY <1>1, <2>2 DEF Ready, Steady
  <2> HIDE DEF K
  <2>4. TailOf(K, AfterHistory(K, c), c, next)
    BY <2>2, AfterHistoryTail
  <2> QED BY <2>1, <2>3, <2>4, ReadyTail
<1>4. CASE ~h.streaming /\ h.session # NoSession
  <2> DEFINE q == [Idle EXCEPT !.at = "history", !.session = h.session,
                               !.next = next, !.latest = TRUE]
             W == Await(R, c, q)
  <2>1. LoadMessages(B, c, next) = W
    BY <1>4 DEF LoadMessages, Renewed
  <2> HIDE DEF R
  <2>2. q \in Chain
    <3>1. h.session \in SomeSession
      BY <1>1 DEF Pairs, Huds
    <3> QED BY <3>1, IdleType DEF Chain
  <2>3. q.at = "history" /\ ~q.current
    BY DEF Idle
  <2> HIDE DEF q
  <2>4. /\ W \in Pairs /\ W.hud = R.hud /\ W.calls[c] = q
        /\ \A d \in Calls \ {c} : W.calls[d] = R.calls[d]
    BY <1>1, <2>2, AwaitPair
  <2> HIDE DEF W
  <2>5. Goes(B, W, c, next)
    BY <2>3, <2>4 DEF Goes
  <2>6. Relinked(B, W, c, next) /\ Steady(W.hud, B.hud)
    BY <1>1, <2>4 DEF Relinked, Steady
  <2>7. \A d \in Calls \ {c} : Older(W.calls[d], B.calls[d])
    BY <1>1, <2>4 DEF Ready
  <2> QED BY <2>1, <2>4, <2>5, <2>6, <2>7 DEF TailOf
<1> QED BY <1>2, <1>3, <1>4

-----------------------------------------------------------------------------
(* What the helpers keep.                                                  *)

\* What chain c may do with its continuation nx: a reconnect that still
\* counts settles only a run that is not guarded, and no stream is open.
Licensed(B, c, nx, rs, ss, kn, ov) ==
    B.calls[c].current =>
       /\ B.calls[c].run \in Runs /\ ~B.hud.streaming
       /\ nx \in {"settle", "failed"}
       /\ nx = "settle" => /\ B.hud.active = NoRun
                           /\ ~Guarded(B.calls[c].run, rs, ss, kn, ov)

\* A tail keeps the controls, whatever was seen to end.
LEMMA TailControls ==
  ASSUME Types, NEW B \in Pairs, NEW S, NEW c \in Calls, NEW nx, NEW st, NEW en,
         NEW kn,
         Controls(B.hud, st, runs, sessions, kn, en, overtaken),
         Licensed(B, c, nx, runs, sessions, kn, overtaken),
         TailOf(B, S, c, nx)
  PROVE  Controls(S.hud, st, runs, sessions, kn, en, overtaken)
<1> DEFINE h == B.hud
           g == S.hud
<1>1. /\ g.session = h.session /\ g.active = h.active /\ g.card = h.card
      /\ g.streaming = h.streaming
  BY DEF TailOf, Steady
<1>2. /\ Exclusive(h, st, en) /\ Linked(h, st, runs, sessions, overtaken)
      /\ Held(h, st, runs, sessions, kn, overtaken)
  BY DEF Controls
<1>3. NoLocator.run = NoRun /\ NoLocator.session = NoSession
  BY DEF NoLocator
<1>4. h.active # NoRun => h.interlock = NoRun
  BY <1>2 DEF Exclusive
<1>5. CASE g.locator = h.locator /\ g.interlock = h.interlock
  BY <1>1, <1>2, <1>5 DEF Controls, Exclusive, Linked, Held
<1>6. CASE /\ g.locator = h.locator /\ g.interlock = NoRun
           /\ h.locator = NoLocator \/ h.locator.session # h.session
  <2>1. Held(g, st, runs, sessions, kn, overtaken)
    <3> SUFFICES ASSUME NEW q \in Runs,
                        Guarded(q, runs, sessions, kn, overtaken)
                 PROVE  FALSE
      BY DEF Held
    <3>1. h.locator = [session |-> h.session, run |-> q]
      BY <1>2 DEF Held
    <3>2. q # NoRun
      BY DEF Runs, NoRun
    <3> QED BY <1>3, <1>6, <3>1, <3>2
  <2> QED BY <1>1, <1>2, <1>6, <2>1 DEF Controls, Exclusive, Linked
<1>7. CASE /\ g.locator = h.locator /\ g.interlock = h.locator.run
           /\ h.active = NoRun /\ ~h.streaming
           /\ h.session # NoSession /\ h.locator.session = h.session
  <2>1. Held(g, st, runs, sessions, kn, overtaken)
    BY <1>1, <1>2, <1>7 DEF Held
  <2> QED BY <1>1, <1>2, <1>7, <2>1 DEF Controls, Exclusive, Linked
<1>8. CASE /\ nx = "settle" /\ B.calls[c].current
           /\ h.locator.run = B.calls[c].run
           /\ g.locator = NoLocator /\ g.interlock \in {NoRun, h.interlock}
  <2>1. /\ h.active = NoRun /\ ~h.streaming
        /\ ~Guarded(B.calls[c].run, runs, sessions, kn, overtaken)
    BY <1>8 DEF Licensed
  <2>2. Held(g, st, runs, sessions, kn, overtaken)
    <3> SUFFICES ASSUME NEW q \in Runs,
                        Guarded(q, runs, sessions, kn, overtaken)
                 PROVE  FALSE
      BY DEF Held
    <3>1. h.locator = [session |-> h.session, run |-> q]
      BY <1>2 DEF Held
    <3>2. q = B.calls[c].run
      BY <1>8, <3>1
    <3> QED BY <2>1, <3>2
  <2>3. Exclusive(g, st, en)
    BY <1>1, <1>2, <1>8 DEF Exclusive
  <2>4. Linked(g, st, runs, sessions, overtaken)
    BY <1>1, <1>2, <1>8, <2>1 DEF Linked
  <2> QED BY <2>2, <2>3, <2>4 DEF Controls
<1>9. Relinked(B, S, c, nx)
  BY DEF TailOf
<1> QED BY <1>5, <1>6, <1>7, <1>8, <1>9 DEF Relinked

\* An older chain carries no more than it did.
LEMMA OlderCarries ==
  ASSUME NEW p, NEW q, Older(q, p), NEW h, NEW g,
         g.streaming = h.streaming, g.active = h.active,
         NEW rs, NEW ss, NEW kn, NEW en, NEW ov,
         Carries(p, h, rs, ss, kn, en, ov)
  PROVE  Carries(q, g, rs, ss, kn, en, ov)
  BY DEF Older, Carries

\* A tail keeps what the other chains carry, and its own chain goes on with
\* what it may.
LEMMA TailChains ==
  ASSUME Types, Submitted,
         NEW B \in Pairs, NEW S, NEW c \in Calls, NEW nx, NEW st, NEW en,
         NEW kn,
         Controls(B.hud, st, runs, sessions, kn, en, overtaken),
         \A r \in Runs \cap en : runs[r].status \in {"done", "gone"},
         Single(B.calls),
         \A d \in Calls \ {c} : Carries(B.calls[d], B.hud, runs, sessions,
                                        kn, en, overtaken),
         Licensed(B, c, nx, runs, sessions, kn, overtaken),
         TailOf(B, S, c, nx)
  PROVE  Chains(S.calls, S.hud, runs, sessions, kn, en, overtaken)
<1> DEFINE Fits(q) == Carries(q, S.hud, runs, sessions, kn, en, overtaken)
<1>1. /\ S \in Pairs
      /\ S.hud.streaming = B.hud.streaming /\ S.hud.active = B.hud.active
  BY DEF TailOf, Steady
<1>2. \A d \in Calls \ {c} : Older(S.calls[d], B.calls[d])
  BY DEF TailOf
<1>3. \A d \in Calls \ {c} : Fits(S.calls[d])
  BY <1>1, <1>2, OlderCarries
<1>4. Goes(B, S, c, nx)
  BY DEF TailOf
<1>5. CASE S.calls[c] = Idle
  <2>1. Fits(S.calls[c])
    BY <1>5 DEF Carries, Idle
  <2>2. Single(S.calls)
    <3>1. ~S.calls[c].current /\ S.calls[c].at # "items"
      BY <1>5 DEF Idle
    <3> QED BY <1>2, <3>1 DEF Single, Older
  <2> QED BY <1>3, <2>1, <2>2 DEF Chains
<1>6. CASE S.calls[c].at = "history" /\ ~S.calls[c].current
  <2>1. Fits(S.calls[c])
    BY <1>6 DEF Carries
  <2>2. Single(S.calls)
    BY <1>2, <1>6 DEF Single, Older
  <2> QED BY <1>3, <2>1, <2>2 DEF Chains
<1>7. CASE /\ S.calls[c].at = "items" /\ ~B.hud.streaming
           /\ S.calls[c].session = B.hud.session
           /\ B.hud.session \in Sessions
           /\ S.calls[c].run = B.calls[c].run
           /\ S.calls[c].current = B.calls[c].current
           /\ S.calls[c].next = nx
           /\ \A d \in Calls \ {c} :
                 S.calls[d].at = "items" => ~S.calls[d].latest
  <2>1. Fits(S.calls[c])
    BY <1>1, <1>7 DEF Carries, Licensed
  <2>2. Single(S.calls)
    BY <1>2, <1>7 DEF Single, Older
  <2> QED BY <1>3, <2>1, <2>2 DEF Chains
<1>8. CASE /\ S.calls[c].at = "status" /\ ~B.hud.streaming
           /\ S.calls[c].run = B.hud.locator.run
           /\ S.calls[c].since = Rank(B.hud.locator.run)
           /\ B.hud.locator # NoLocator
           /\ \A d \in Calls \ {c} : ~S.calls[d].current
  <2> DEFINE r == S.calls[c].run
  <2>1. r \in Runs /\ runs[r].status # "none"
    BY <1>8 DEF Controls, Linked
  <2>2. runs[r].status \in {"running", "done", "gone"}
    BY <2>1 DEF Types, HermesRuns
  <2>3. S.calls[c].since >= 1 /\ (r \in en => S.calls[c].since >= 2)
    BY <1>8, <2>1, <2>2 DEF Rank
  <2>4. Fits(S.calls[c])
    BY <1>1, <1>8, <2>1, <2>3 DEF Carries
  <2>5. Single(S.calls)
    BY <1>2, <1>8 DEF Single, Older
  <2> QED BY <1>3, <2>4, <2>5 DEF Chains
<1> QED BY <1>4, <1>5, <1>6, <1>7, <1>8 DEF Goes

-----------------------------------------------------------------------------
(* What a step of the browser does to World, Panel and Frontier.           *)

\* A run stands once in its session's log, so its place is where it stands.
LEMMA PlaceIs ==
  ASSUME Recorded, NEW shown, Durable(shown), shown.session \in Sessions,
         NEW i \in DOMAIN log[shown.session],
         log[shown.session][i] = shown.run
  PROVE  Place(shown) = i
<1> DEFINE s == shown.session
           j == CHOOSE k \in DOMAIN log[s] : log[s][k] = shown.run
<1>1. j \in DOMAIN log[s] /\ log[s][j] = shown.run
  OBVIOUS
<1>2. Place(shown) = j
  BY DEF Place
<1> HIDE DEF j
<1> QED BY <1>1, <1>2 DEF Recorded

LEMMA NothingPlace ==
  ASSUME NEW shown, ~Durable(shown)
  PROVE  Place(shown) = 0
  BY DEF Place

LEMMA NothingNotDurable == ~Durable(Nothing)
  BY DEF Durable, Nothing

\* Showing the same, or nothing, is no news.
LEMMA SameNotes ==
  ASSUME HudInvariant, NEW S, Becomes(S), S.hud.shown \in {hud.shown, Nothing}
  PROVE  newest' = newest
<1> DEFINE shown == S.hud.shown
<1>1. newest \in [Sessions -> Nat]
  BY DEF HudInvariant, World, Types
<1>2. \A s \in Sessions : shown.session = s => ~(Place(shown) > newest[s])
  <2> SUFFICES ASSUME shown.session \in Sessions
               PROVE  ~(Place(shown) > newest[shown.session])
    OBVIOUS
  <2>1. CASE ~Durable(shown)
    BY <1>1, <2>1, NothingPlace
  <2>2. CASE Durable(shown)
    <3>1. shown = hud.shown
      BY <2>2, NothingNotDurable
    <3>2. PICK i \in DOMAIN log[shown.session] :
             log[shown.session][i] = shown.run /\ i <= newest[shown.session]
      BY <2>2, <3>1 DEF HudInvariant, Panel
    <3>3. Place(shown) = i
      BY <2>2, <3>2, PlaceIs DEF HudInvariant, World
    <3>4. DOMAIN log[shown.session] \subseteq Nat
      <4>1. log[shown.session] \in Seq(Runs)
        BY DEF HudInvariant, World, Types
      <4> QED BY <4>1
    <3> QED BY <1>1, <3>2, <3>3, <3>4
  <2> QED BY <2>1, <2>2
<1>3. newest' = [s \in Sessions |->
           IF shown.session = s /\ Place(shown) > newest[s]
           THEN Place(shown) ELSE newest[s]]
  BY DEF Becomes
<1> HIDE DEF shown
<1> QED BY <1>1, <1>2, <1>3

\* Hermes is what it was, but for the approvals its runs have asked for and
\* sessions that were linked or deleted.
Undisturbed ==
    /\ log' = log
    /\ sessions' \in [Sessions -> {"new", "there", "deleted"}]
    /\ \A s \in Sessions : sessions[s] # "new" => sessions'[s] # "new"
    /\ runs' \in [Runs -> HermesRuns]
    /\ \A r \in Runs : /\ runs'[r].session = runs[r].session
                       /\ runs'[r].status = runs[r].status
                       /\ runs'[r].outcome = runs[r].outcome

LEMMA UnchangedUndisturbed ==
  ASSUME HudInvariant, UNCHANGED hermes
  PROVE  Undisturbed
  BY DEF HudInvariant, World, Types, Undisturbed, hermes

LEMMA QuietPanel ==
  ASSUME HudInvariant, hud'.shown \in {hud.shown, Nothing}, newest' = newest,
         Undisturbed
  PROVE  Panel'
<1>1. Durable(hud.shown) => hud.shown.run \in Runs
  BY DEF HudInvariant, World, Types, Browser, Pairs, Huds, Durable, SomeRun
<1>2. Panel /\ ClaimsTrue
  BY DEF HudInvariant, Panel
<1>3. log' = log
  BY DEF Undisturbed
<1>4. ClaimsTrue'
  BY <1>1, <1>2, NothingNotDurable DEF ClaimsTrue, Undisturbed
<1>5. CASE hud'.shown = Nothing
  BY <1>4, <1>5, NothingNotDurable DEF Panel
<1>6. CASE hud'.shown = hud.shown
  BY <1>2, <1>3, <1>4, <1>6 DEF Panel
<1> QED BY <1>5, <1>6

LEMMA QuietFrontier ==
  ASSUME HudInvariant, newest' = newest, Undisturbed,
         Fresh(calls', newest),
         stream'.phase \in {"posted", "started"} =>
            stream.phase \in {"posted", "started"} /\ stream'.run = stream.run
  PROVE  Frontier'
<1>1. stream.phase # "none" => stream.run \in Runs
  BY DEF HudInvariant, World, Submitted
<1>2. Ahead'
  BY <1>1 DEF HudInvariant, Frontier, Ahead, Undisturbed
<1>3. (\A s \in Sessions : newest[s] <= Len(log[s]))'
  BY DEF HudInvariant, Frontier, Undisturbed
<1>4. Fresh(calls, newest)'
  BY DEF Fresh
<1> QED BY <1>2, <1>3, <1>4 DEF Frontier

\* A step that leaves Hermes alone leaves the world what it was.
LEMMA QuietWorld ==
  ASSUME HudInvariant, Undisturbed,
         NEW S \in Pairs, Becomes(S), newest' \in [Sessions -> Nat],
         known' \subseteq Runs, ended' \subseteq Runs, overtaken' \in BOOLEAN,
         faults' \in Nat, reloads' \in Nat,
         stream' \in [run : SomeRun,
                      phase : {"none", "posted", "started", "over"}],
         \A r \in known' : runs[r].status # "none",
         \A r \in ended' : runs[r].status \in {"done", "gone"},
         stream'.phase # "none" => /\ stream'.run \in Runs
                                   /\ runs[stream'.run].status # "none",
         stream'.phase = "posted" => stream'.run \notin ended'
  PROVE  World'
<1>1. World
  BY DEF HudInvariant
<1>2. Browser' \in Pairs
  BY DEF Becomes, Browser, Pairs
<1>3. Types'
  BY <1>1, <1>2 DEF World, Types, Undisturbed
<1>4. Submitted'
  <2>1. \A r \in Runs : runs'[r].status # "none" =>
           runs'[r].session \in Sessions /\ sessions'[runs'[r].session] # "new"
    BY <1>1 DEF World, Submitted, Undisturbed
  <2>2. \A r \in known' : runs'[r].status # "none"
    BY DEF Undisturbed
  <2>3. \A r \in ended' : runs'[r].status \in {"done", "gone"}
    BY DEF Undisturbed
  <2>4. stream'.phase # "none" => /\ stream'.run \in Runs
                                  /\ runs'[stream'.run].status # "none"
    BY DEF Undisturbed
  <2> QED BY <2>1, <2>2, <2>3, <2>4 DEF Submitted
<1>5. Recorded'
  <2>1. \A s \in Sessions : \A i \in DOMAIN log[s] : log[s][i] \in Runs
    BY <1>1, ElementOfSeq DEF World, Types
  <2> QED BY <1>1, <2>1 DEF World, Recorded, Undisturbed
<1> QED BY <1>3, <1>4, <1>5 DEF World

\* Chains that stay, or lose what they had, ask for nothing earlier.
LEMMA OlderFresh ==
  ASSUME NEW cs, NEW ds, NEW nw, Fresh(cs, nw),
         \A d \in Calls : \/ Older(ds[d], cs[d])
                          \/ ds[d].at # "items"
  PROVE  Fresh(ds, nw)
  BY DEF Fresh, Older

LEMMA TailFresh ==
  ASSUME NEW B, NEW S, NEW c \in Calls, NEW nx, NEW nw,
         \A d \in Calls \ {c} : B.calls[d].at = "items" /\ B.calls[d].latest =>
            nw[B.calls[d].session] <= B.calls[d].since,
         \A s \in Sessions : nw[s] <= Len(log[s]),
         TailOf(B, S, c, nx)
  PROVE  Fresh(S.calls, nw)
<1>1. \A d \in Calls \ {c} : Older(S.calls[d], B.calls[d])
  BY DEF TailOf
<1>2. S.calls[c].at = "items" => nw[S.calls[c].session] <= S.calls[c].since
  BY DEF TailOf, Goes, Idle
<1> QED BY <1>1, <1>2 DEF Fresh, Older

\* A handler's tail: the world, the controls and the chains.
LEMMA TailCoreOf ==
  ASSUME HudInvariant, NEW B \in Pairs, NEW S, NEW c \in Calls, NEW nx,
         TailOf(B, S, c, nx), Becomes(S), UNCHANGED <<hermes, overtaken>>,
         known' \subseteq Runs, \A r \in known' : runs[r].status # "none",
         B.calls = calls,
         Controls(B.hud, stream', runs, sessions, known', ended', overtaken),
         \A d \in Calls \ {c} : Carries(calls[d], B.hud, runs, sessions,
                                        known', ended', overtaken),
         Licensed(B, c, nx, runs, sessions, known', overtaken),
         ended' \subseteq Runs,
         \A r \in ended' : runs[r].status \in {"done", "gone"},
         stream' \in {stream, NoStream},
         stream'.phase = "posted" => stream'.run \notin ended',
         newest' \in [Sessions -> Nat], faults' \in Nat, reloads' \in Nat
  PROVE  /\ World'
         /\ Controls(hud, stream, runs, sessions, known, ended, overtaken)'
         /\ Chains(calls, hud, runs, sessions, known, ended, overtaken)'
<1>1. World /\ Types /\ Submitted /\ Single(calls)
  BY DEF HudInvariant, World, Chains
<1>2. /\ S \in Pairs /\ hud' = S.hud /\ calls' = S.calls
      /\ runs' = runs /\ sessions' = sessions
      /\ overtaken' = overtaken
  BY DEF TailOf, Becomes, hermes
<1>3. Undisturbed
  BY UnchangedUndisturbed DEF hermes
<1>4. World'
  <2>1. /\ stream' \in [run : SomeRun,
                        phase : {"none", "posted", "started", "over"}]
        /\ stream'.phase # "none" => /\ stream'.run \in Runs
                                     /\ runs[stream'.run].status # "none"
    BY <1>1 DEF Types, Submitted, NoStream, SomeRun
  <2>2. overtaken' \in BOOLEAN
    BY <1>1, <1>2 DEF Types
  <2> QED BY <1>1, <1>2, <1>3, <2>1, <2>2, QuietWorld
<1>5. Controls(S.hud, stream', runs, sessions, known', ended', overtaken)
  BY <1>1, TailControls
<1>6. Chains(S.calls, S.hud, runs, sessions, known', ended', overtaken)
  BY <1>1, TailChains
<1> QED BY <1>2, <1>4, <1>5, <1>6

\* A handler's tail, when what is shown stays or goes.
LEMMA TailStepOf ==
  ASSUME HudInvariant, NEW B \in Pairs, NEW S, NEW c \in Calls, NEW nx,
         TailOf(B, S, c, nx), Becomes(S), UNCHANGED <<hermes, overtaken>>,
         known' \subseteq Runs, \A r \in known' : runs[r].status # "none",
         B.calls = calls, B.hud.shown \in {hud.shown, Nothing},
         Controls(B.hud, stream', runs, sessions, known', ended', overtaken),
         \A d \in Calls \ {c} : Carries(calls[d], B.hud, runs, sessions,
                                        known', ended', overtaken),
         Licensed(B, c, nx, runs, sessions, known', overtaken),
         ended' \subseteq Runs,
         \A r \in ended' : runs[r].status \in {"done", "gone"},
         stream' \in {stream, NoStream},
         stream'.phase = "posted" => stream'.run \notin ended',
         faults' \in Nat, reloads' \in Nat
  PROVE  HudInvariant'
<1>1. /\ Fresh(calls, newest)
      /\ \A s \in Sessions : newest[s] <= Len(log[s])
      /\ newest \in [Sessions -> Nat]
  BY DEF HudInvariant, World, Types, Frontier
<1>2. hud' = S.hud /\ calls' = S.calls
  BY DEF Becomes
<1>3. S.hud.shown \in {hud.shown, Nothing}
  BY DEF TailOf, Steady
<1>4. newest' = newest
  BY <1>3, SameNotes
<1>5. newest' \in [Sessions -> Nat]
  BY <1>1, <1>4
<1>6. /\ World'
      /\ Controls(hud, stream, runs, sessions, known, ended, overtaken)'
      /\ Chains(calls, hud, runs, sessions, known, ended, overtaken)'
  BY <1>5, TailCoreOf
<1>7. Undisturbed
  BY UnchangedUndisturbed DEF hermes
<1>8. Panel'
  BY <1>2, <1>3, <1>4, <1>7, QuietPanel
<1>9. Fresh(S.calls, newest)
  <2>1. \A d \in Calls \ {c} : B.calls[d].at = "items" /\ B.calls[d].latest =>
            newest[B.calls[d].session] <= B.calls[d].since
    BY <1>1 DEF Fresh
  <2> QED BY <1>1, <2>1, TailFresh
<1>10. Frontier'
  BY <1>2, <1>4, <1>7, <1>9, QuietFrontier DEF NoStream
<1> QED BY <1>6, <1>8, <1>10 DEF HudInvariant

LEMMA BrowserPair ==
  ASSUME HudInvariant
  PROVE  /\ Browser \in Pairs /\ Browser.hud = hud /\ Browser.calls = calls
         /\ hud \in Huds /\ \A c \in Calls : calls[c] \in Chain
  BY DEF HudInvariant, World, Types, Browser, Pairs

\* While a stream is open no reconnect counts and no evidence is awaited.
LEMMA StreamingCarries ==
  ASSUME HudInvariant, hud.streaming, NEW d \in Calls, NEW h,
         NEW rs, NEW ss, NEW kn, NEW en, NEW ov
  PROVE  Carries(calls[d], h, rs, ss, kn, en, ov)
<1>1. Carries(calls[d], hud, runs, sessions, known, ended, overtaken)
  BY DEF HudInvariant, Chains
<1> QED BY <1>1 DEF Carries

\* A chain that is neither a reconnect nor a request for evidence.
Plain(q) == q.at # "items" /\ ~q.current

\* A step of the browser that shows nothing new, and in which chains start
\* or end without a tail.
LEMMA PlainStep ==
  ASSUME HudInvariant, Undisturbed,
         NEW S \in Pairs, Becomes(S), S.hud.shown \in {hud.shown, Nothing},
         \A d \in Calls : \/ Plain(S.calls[d])
                          \/ /\ Older(S.calls[d], calls[d])
                             /\ Carries(calls[d], S.hud, runs', sessions',
                                        known', ended', overtaken'),
         Controls(S.hud, stream', runs', sessions', known', ended',
                  overtaken'),
         known' \subseteq Runs, ended' \subseteq Runs, overtaken' \in BOOLEAN,
         faults' \in Nat, reloads' \in Nat,
         stream' \in [run : SomeRun,
                      phase : {"none", "posted", "started", "over"}],
         \A r \in known' : runs[r].status # "none",
         \A r \in ended' : runs[r].status \in {"done", "gone"},
         stream'.phase # "none" => /\ stream'.run \in Runs
                                   /\ runs[stream'.run].status # "none",
         stream'.phase = "posted" => stream'.run \notin ended',
         stream'.phase \in {"posted", "started"} =>
            stream.phase \in {"posted", "started"} /\ stream'.run = stream.run
  PROVE  HudInvariant'
<1>1. /\ Single(calls) /\ Fresh(calls, newest)
      /\ newest \in [Sessions -> Nat]
  BY DEF HudInvariant, World, Types, Chains, Frontier
<1>2. /\ hud' = S.hud /\ calls' = S.calls
  BY DEF Becomes
<1>3. newest' = newest
  BY SameNotes
<1>4. World'
  BY <1>1, <1>3, QuietWorld
<1>5. Single(S.calls)
  BY <1>1 DEF Single, Plain, Older
<1>6. \A d \in Calls : Carries(S.calls[d], S.hud, runs', sessions',
                               known', ended', overtaken')
  <2> TAKE d \in Calls
  <2>1. CASE Plain(S.calls[d])
    BY <2>1 DEF Plain, Carries
  <2>2. CASE Older(S.calls[d], calls[d])
             /\ Carries(calls[d], S.hud, runs', sessions',
                        known', ended', overtaken')
    BY <2>2, OlderCarries
  <2> QED BY <2>1, <2>2
<1>7. Panel'
  BY <1>2, <1>3, QuietPanel
<1>8. Fresh(S.calls, newest)
  BY <1>1, OlderFresh DEF Plain
<1>9. Frontier'
  BY <1>2, <1>3, <1>8, QuietFrontier
<1>10. Chains(S.calls, S.hud, runs', sessions', known', ended', overtaken')
  BY <1>5, <1>6 DEF Chains
<1> QED BY <1>2, <1>4, <1>7, <1>9, <1>10 DEF HudInvariant

\* Nothing of the histories, the stream and the bounds changes.
LEMMA QuietRest ==
  ASSUME HudInvariant
  PROVE  /\ known \subseteq Runs /\ ended \subseteq Runs /\ overtaken \in BOOLEAN
         /\ faults \in Nat /\ reloads \in Nat
         /\ stream \in [run : SomeRun,
                        phase : {"none", "posted", "started", "over"}]
         /\ \A r \in known : runs[r].status # "none"
         /\ \A r \in ended : runs[r].status \in {"done", "gone"}
         /\ stream.phase # "none" => /\ stream.run \in Runs
                                     /\ runs[stream.run].status # "none"
         /\ stream.phase = "posted" => stream.run \notin ended
         /\ Controls(hud, stream, runs, sessions, known, ended, overtaken)
         /\ \A d \in Calls : Carries(calls[d], hud, runs, sessions, known,
                                     ended, overtaken)
  BY DEF HudInvariant, World, Types, Submitted, Chains

\* The same, when nothing is learnt of a run.
LEMMA TailCore ==
  ASSUME HudInvariant, NEW B \in Pairs, NEW S, NEW c \in Calls, NEW nx,
         TailOf(B, S, c, nx), Becomes(S), UNCHANGED <<hermes, known, overtaken>>,
         B.calls = calls,
         Controls(B.hud, stream', runs, sessions, known, ended', overtaken),
         \A d \in Calls \ {c} : Carries(calls[d], B.hud, runs, sessions,
                                        known, ended', overtaken),
         Licensed(B, c, nx, runs, sessions, known, overtaken),
         ended' \subseteq Runs,
         \A r \in ended' : runs[r].status \in {"done", "gone"},
         stream' \in {stream, NoStream},
         stream'.phase = "posted" => stream'.run \notin ended',
         newest' \in [Sessions -> Nat], faults' \in Nat, reloads' \in Nat
  PROVE  /\ World'
         /\ Controls(hud, stream, runs, sessions, known, ended, overtaken)'
         /\ Chains(calls, hud, runs, sessions, known, ended, overtaken)'
<1>1. /\ known' = known /\ UNCHANGED <<hermes, overtaken>>
      /\ known' \subseteq Runs /\ \A r \in known' : runs[r].status # "none"
  BY QuietRest DEF hermes
<1>2. /\ Controls(B.hud, stream', runs, sessions, known', ended', overtaken)
      /\ Licensed(B, c, nx, runs, sessions, known', overtaken)
      /\ \A d \in Calls \ {c} : Carries(calls[d], B.hud, runs, sessions,
                                        known', ended', overtaken)
  BY <1>1
<1> QED BY <1>1, <1>2, TailCoreOf

\* The same, when nothing is learnt of a run.
LEMMA TailStep ==
  ASSUME HudInvariant, NEW B \in Pairs, NEW S, NEW c \in Calls, NEW nx,
         TailOf(B, S, c, nx), Becomes(S), UNCHANGED <<hermes, known, overtaken>>,
         B.calls = calls, B.hud.shown \in {hud.shown, Nothing},
         Controls(B.hud, stream', runs, sessions, known, ended', overtaken),
         \A d \in Calls \ {c} : Carries(calls[d], B.hud, runs, sessions,
                                        known, ended', overtaken),
         Licensed(B, c, nx, runs, sessions, known, overtaken),
         ended' \subseteq Runs,
         \A r \in ended' : runs[r].status \in {"done", "gone"},
         stream' \in {stream, NoStream},
         stream'.phase = "posted" => stream'.run \notin ended',
         faults' \in Nat, reloads' \in Nat
  PROVE  HudInvariant'
<1>1. /\ known' = known /\ UNCHANGED <<hermes, overtaken>>
      /\ known' \subseteq Runs /\ \A r \in known' : runs[r].status # "none"
  BY QuietRest DEF hermes
<1>2. /\ Controls(B.hud, stream', runs, sessions, known', ended', overtaken)
      /\ Licensed(B, c, nx, runs, sessions, known', overtaken)
      /\ \A d \in Calls \ {c} : Carries(calls[d], B.hud, runs, sessions,
                                        known', ended', overtaken)
  BY <1>1
<1> QED BY <1>1, <1>2, TailStepOf

\* The simplest steps: the controls stay, one chain starts or ends.
LEMMA AwaitStep ==
  ASSUME HudInvariant, NEW c \in Calls, NEW q \in Chain, Plain(q),
         Becomes(Await(Browser, c, q)), faults' \in Nat,
         UNCHANGED <<hermes, stream, reloads, known, ended, overtaken>>
  PROVE  HudInvariant'
<1> DEFINE S == Await(Browser, c, q)
<1>1. /\ S \in Pairs /\ S.hud = hud /\ S.calls[c] = q
      /\ \A d \in Calls \ {c} : Older(S.calls[d], calls[d])
  BY BrowserPair, AwaitPair
<1>2. /\ Undisturbed /\ runs' = runs /\ sessions' = sessions
      /\ UNCHANGED <<stream, reloads, known, ended, overtaken>>
  BY UnchangedUndisturbed DEF hermes
<1> HIDE DEF S
<1>3. \A d \in Calls : \/ Plain(S.calls[d])
                       \/ /\ Older(S.calls[d], calls[d])
                          /\ Carries(calls[d], S.hud, runs', sessions',
                                     known', ended', overtaken')
  BY <1>1, <1>2, QuietRest
<1>4. Becomes(S)
  BY DEF S
<1>5. Controls(S.hud, stream', runs', sessions', known', ended', overtaken')
  BY <1>1, <1>2, QuietRest
<1>6. S.hud.shown \in {hud.shown, Nothing}
  BY <1>1
<1> QED BY <1>1, <1>2, <1>3, <1>4, <1>5, <1>6, QuietRest, PlainStep

\* A request for the list of sessions.
LEMMA ListChain ==
  ASSUME NEW B \in Pairs, NEW c, NEW at \in {"list", "boot"},
         NEW next \in Continuations
  PROVE  \E q \in Chain : /\ RefreshSessions(B, c, at, next) = Await(B, c, q)
                          /\ Plain(q) /\ q.at = at
                          /\ q.session = B.hud.session
<1> DEFINE q == [Idle EXCEPT !.at = at, !.session = B.hud.session,
                             !.next = next,
                             !.since = IF /\ B.hud.session \in Sessions
                                          /\ sessions[B.hud.session] = "there"
                                       THEN 1 ELSE 0]
<1>1. B.hud.session \in SomeSession
  BY DEF Pairs, Huds
<1>2. q \in Chain
  BY <1>1, IdleType DEF Chain
<1>3. Plain(q) /\ q.at = at /\ q.session = B.hud.session
  BY DEF Plain, Idle
<1>4. RefreshSessions(B, c, at, next) = Await(B, c, q)
  BY DEF RefreshSessions
<1> HIDE DEF q
<1> QED BY <1>2, <1>3, <1>4

LEMMA PollKeeps ==
  ASSUME HudInvariant, NEW c \in Calls, Poll(c)
  PROVE  HudInvariant'
<1>1. PICK q \in Chain :
         /\ RefreshSessions(Browser, c, "list", "reconcile") = Await(Browser, c, q)
         /\ Plain(q)
  BY BrowserPair, ListChain DEF Continuations
<1>2. Becomes(Await(Browser, c, q))
  BY <1>1 DEF Poll
<1>3. faults' \in Nat /\ UNCHANGED <<hermes, stream, reloads, known, ended, overtaken>>
  BY QuietRest DEF Poll
<1> QED BY <1>1, <1>2, <1>3, AwaitStep

LEMMA NewSessionKeeps ==
  ASSUME HudInvariant, NEW c \in Calls, NewSession(c)
  PROVE  HudInvariant'
<1> DEFINE q == [Idle EXCEPT !.at = "create"]
<1>1. q \in Chain /\ Plain(q)
  BY IdleType DEF Chain, Plain, Idle
<1>2. Becomes(Await(Browser, c, q))
  BY DEF NewSession
<1>3. faults' \in Nat /\ UNCHANGED <<hermes, stream, reloads, known, ended, overtaken>>
  BY QuietRest DEF NewSession
<1> HIDE DEF q
<1> QED BY <1>1, <1>2, <1>3, AwaitStep

-----------------------------------------------------------------------------
(* The actions.                                                            *)

\* A step that changes the browser's state and no chain.
LEMMA HudStep ==
  ASSUME HudInvariant, Undisturbed, NEW h \in Huds,
         Becomes([Browser EXCEPT !.hud = h]), h.shown \in {hud.shown, Nothing},
         \A d \in Calls : Carries(calls[d], h, runs', sessions',
                                  known', ended', overtaken'),
         Controls(h, stream', runs', sessions', known', ended', overtaken'),
         known' \subseteq Runs, ended' \subseteq Runs, overtaken' \in BOOLEAN,
         faults' \in Nat, reloads' \in Nat,
         stream' \in [run : SomeRun,
                      phase : {"none", "posted", "started", "over"}],
         \A r \in known' : runs[r].status # "none",
         \A r \in ended' : runs[r].status \in {"done", "gone"},
         stream'.phase # "none" => /\ stream'.run \in Runs
                                   /\ runs[stream'.run].status # "none",
         stream'.phase = "posted" => stream'.run \notin ended',
         stream'.phase \in {"posted", "started"} =>
            stream.phase \in {"posted", "started"} /\ stream'.run = stream.run
  PROVE  HudInvariant'
<1> DEFINE S == [Browser EXCEPT !.hud = h]
<1>1. S \in Pairs /\ S.hud = h /\ S.calls = calls
  BY BrowserPair, HudPair
<1>2. Becomes(S)
  OBVIOUS
<1> HIDE DEF S
<1>3. \A d \in Calls : Older(S.calls[d], calls[d])
  BY <1>1, BrowserPair, OlderSelf
<1> QED BY <1>1, <1>2, <1>3, PlainStep

LEMMA DecideKeeps ==
  ASSUME HudInvariant, NEW c \in Calls, Decide(c)
  PROVE  HudInvariant'
<1>1. /\ hud.card # NoCard /\ UNCHANGED <<stream, known, ended, overtaken>>
      /\ UNCHANGED hermes /\ faults' = faults /\ reloads' = reloads
  BY DEF Decide
<1>2. hud \in Huds /\ hud.card \in [run : SomeRun, ask : 0 .. MaxAsks]
  BY BrowserPair DEF Huds
<1>3. CASE hud.active = hud.card.run
  <2> DEFINE q == [Idle EXCEPT !.at = "decide", !.run = hud.card.run,
                               !.ask = hud.card.ask]
  <2>1. q \in Chain
    <3>1. hud.card.run \in SomeRun /\ hud.card.ask \in Nat
      BY <1>2
    <3> QED BY <3>1, IdleType DEF Chain
  <2>2. Plain(q)
    BY DEF Plain, Idle
  <2>3. Becomes(Await(Browser, c, q))
    BY <1>3 DEF Decide
  <2> HIDE DEF q
  <2> QED BY <1>1, <2>1, <2>2, <2>3, QuietRest, AwaitStep DEF hermes
<1>4. CASE hud.active # hud.card.run
  <2>1. Exclusive(hud, stream, ended)
    BY QuietRest DEF Controls
  <2> QED BY <1>1, <1>4, <2>1 DEF Exclusive
<1> QED BY <1>3, <1>4

\* Hiding the card, and what is shown, changes no other control.
LEMMA HideCard ==
  ASSUME HudInvariant, NEW h, h = [hud EXCEPT !.card = NoCard, !.shown = Nothing]
  PROVE  /\ h \in Huds /\ h.shown = Nothing
         /\ Controls(h, stream, runs, sessions, known, ended, overtaken)
         /\ \A d \in Calls : Carries(calls[d], h, runs, sessions, known,
                                     ended, overtaken)
<1>1. NoCard \in [run : SomeRun, ask : 0 .. MaxAsks]
  BY HudAssumption DEF NoCard, SomeRun
<1>2. Nothing \in [session : SomeSession, run : SomeRun, state : Shown]
  BY DEF Nothing, SomeSession, SomeRun, Shown
<1>3. h \in Huds /\ h.shown = Nothing
  BY BrowserPair, <1>1, <1>2 DEF Huds
<1>4. /\ h.session = hud.session /\ h.active = hud.active
      /\ h.interlock = hud.interlock /\ h.streaming = hud.streaming
      /\ h.locator = hud.locator /\ h.card = NoCard
  BY BrowserPair DEF Huds
<1>5. Controls(h, stream, runs, sessions, known, ended, overtaken)
  <2>1. Controls(hud, stream, runs, sessions, known, ended, overtaken)
    BY QuietRest
  <2> QED BY <1>4, <2>1 DEF Controls, Exclusive, Linked, Held
<1>6. \A d \in Calls : Carries(calls[d], h, runs, sessions, known,
                               ended, overtaken)
  <2>1. \A d \in Calls : Carries(calls[d], hud, runs, sessions, known,
                                 ended, overtaken)
    BY QuietRest
  <2> QED BY <1>4, <2>1 DEF Carries
<1> QED BY <1>3, <1>5, <1>6

LEMMA AnswerDecisionKeeps ==
  ASSUME HudInvariant, NEW c \in Calls, AnswerDecision(c)
  PROVE  HudInvariant'
<1> DEFINE h == [hud EXCEPT !.card = NoCard, !.shown = Nothing]
           B == [Browser EXCEPT !.hud = h]
<1>1. /\ UNCHANGED <<stream, known, ended, overtaken, faults, reloads>>
      /\ UNCHANGED hermes
      /\ Becomes(Finish(Browser, c)) \/ Becomes(Finish(B, c))
  <2>1. [Browser EXCEPT !.hud.card = NoCard, !.hud.shown = Nothing] = B
    BY DEF Browser
  <2> HIDE DEF B
  <2> QED BY <2>1 DEF AnswerDecision
<1>2. Plain(Idle) /\ Idle \in Chain
  BY IdleType DEF Plain, Idle
<1>3. CASE Becomes(Finish(Browser, c))
  <2>1. Becomes(Await(Browser, c, Idle))
    BY <1>3, BrowserPair, FinishPair
  <2> QED BY <1>1, <1>2, <2>1, QuietRest, AwaitStep DEF hermes
<1>4. CASE Becomes(Finish(B, c))
  <2>1. /\ h \in Huds /\ h.shown = Nothing
        /\ Controls(h, stream, runs, sessions, known, ended, overtaken)
        /\ \A d \in Calls : Carries(calls[d], h, runs, sessions, known,
                                    ended, overtaken)
    BY HideCard
  <2> HIDE DEF h
  <2>2. B \in Pairs /\ B.hud = h /\ B.calls = calls
    BY <2>1, BrowserPair, HudPair
  <2> HIDE DEF B
  <2> DEFINE S == Await(B, c, Idle)
  <2>3. Becomes(S)
    BY <1>4, <2>2, FinishPair
  <2>4. /\ S \in Pairs /\ S.hud = h /\ S.calls[c] = Idle
        /\ \A d \in Calls \ {c} : Older(S.calls[d], calls[d])
    BY <1>2, <2>2, AwaitPair
  <2> HIDE DEF S
  <2>5. Undisturbed /\ runs' = runs /\ sessions' = sessions
    BY <1>1, UnchangedUndisturbed DEF hermes
  <2>6. \A d \in Calls :
           \/ Plain(S.calls[d])
           \/ /\ Older(S.calls[d], calls[d])
              /\ Carries(calls[d], S.hud, runs', sessions',
                         known', ended', overtaken')
    BY <1>1, <1>2, <2>1, <2>4, <2>5
  <2>7. Controls(S.hud, stream', runs', sessions', known', ended', overtaken')
    BY <1>1, <2>1, <2>4, <2>5
  <2>8. S.hud.shown \in {hud.shown, Nothing}
    BY <2>1, <2>4
  <2> QED BY <1>1, <2>3, <2>4, <2>5, <2>6, <2>7, <2>8, QuietRest, PlainStep
<1> QED BY <1>1, <1>3, <1>4

\* A step of the open stream shows nothing new, and no chain is in its way.
LEMMA StreamStep ==
  ASSUME HudInvariant, hud.streaming, Undisturbed, NEW h \in Huds,
         Becomes([Browser EXCEPT !.hud = h]), h.shown \in {hud.shown, Nothing},
         Controls(h, stream', runs', sessions', known', ended', overtaken),
         UNCHANGED <<reloads, overtaken>>, faults' \in Nat,
         known' \subseteq Runs, ended' \subseteq Runs,
         \A r \in known' : runs[r].status # "none",
         \A r \in ended' : runs[r].status \in {"done", "gone"},
         stream' \in {stream, [stream EXCEPT !.phase = "started"],
                      [stream EXCEPT !.phase = "over"]},
         stream'.phase = "started" => stream.phase \in {"posted", "started"},
         stream'.phase = "posted" => stream'.run \notin ended'
  PROVE  HudInvariant'
<1>1. \A d \in Calls : Carries(calls[d], h, runs', sessions',
                               known', ended', overtaken')
  BY StreamingCarries
<1>2. /\ stream \in [run : SomeRun,
                     phase : {"none", "posted", "started", "over"}]
      /\ stream.phase # "none" /\ stream.run \in Runs
      /\ runs[stream.run].status # "none"
  BY QuietRest DEF Controls, Exclusive
<1>3. /\ stream' \in [run : SomeRun,
                      phase : {"none", "posted", "started", "over"}]
      /\ stream'.run = stream.run
      /\ stream'.phase \in {"posted", "started"} =>
            stream.phase \in {"posted", "started"}
  BY <1>2
<1> QED BY <1>1, <1>2, <1>3, QuietRest, HudStep

LEMMA RunStartedKeeps ==
  ASSUME HudInvariant, RunStarted
  PROVE  HudInvariant'
<1> DEFINE r == stream.run
           loc == [session |-> hud.session, run |-> r]
           h == [hud EXCEPT !.active = r, !.shown = Nothing, !.locator = loc]
<1>1. /\ stream.phase = "posted" /\ stream' = [stream EXCEPT !.phase = "started"]
      /\ known' = known \cup {r}
      /\ UNCHANGED <<faults, reloads, ended, overtaken>> /\ UNCHANGED hermes
      /\ Becomes([Browser EXCEPT !.hud = h])
  <2>1. [Browser EXCEPT !.hud.active = r, !.hud.shown = Nothing,
                        !.hud.locator = [session |-> hud.session, run |-> r]]
          = [Browser EXCEPT !.hud = h]
    BY DEF Browser
  <2> HIDE DEF h
  <2> QED BY <2>1 DEF RunStarted
<1>2. /\ r \in Runs /\ runs[r].status # "none" /\ r \notin ended
      /\ stream \in [run : SomeRun,
                     phase : {"none", "posted", "started", "over"}]
      /\ Exclusive(hud, stream, ended)
      /\ Linked(hud, stream, runs, sessions, overtaken)
      /\ Held(hud, stream, runs, sessions, known, overtaken)
  BY <1>1, QuietRest DEF Controls
<1>3. hud.streaming /\ hud.session \in Sessions /\ hud.card = NoCard
      /\ hud.interlock = NoRun
      /\ (overtaken \/ runs[r].session = hud.session)
  BY <1>1, <1>2 DEF Exclusive, Linked
<1>4. /\ h \in Huds /\ h.shown = Nothing
      /\ h.session = hud.session /\ h.active = r /\ h.locator = loc
      /\ h.interlock = NoRun /\ h.card = NoCard /\ h.streaming
  <2>1. Nothing \in [session : SomeSession, run : SomeRun, state : Shown]
    BY DEF Nothing, SomeSession, SomeRun, Shown
  <2>2. loc \in [session : SomeSession, run : SomeRun] /\ r \in SomeRun
    BY <1>2, <1>3 DEF SomeSession, SomeRun
  <2> QED BY <1>3, <2>1, <2>2, BrowserPair DEF Huds
<1>5. Undisturbed /\ runs' = runs /\ sessions' = sessions
  BY <1>1, UnchangedUndisturbed DEF hermes
<1>6. /\ stream'.phase = "started" /\ stream'.run = r
  BY <1>1, <1>2
<1>7. Exclusive(h, stream', ended')
  BY <1>1, <1>2, <1>4, <1>6 DEF Exclusive
<1>8. Linked(h, stream', runs', sessions', overtaken')
  <2>1. loc.run = r /\ loc.session = hud.session
    OBVIOUS
  <2>2. hud.session # NoSession => sessions[hud.session] # "new"
    BY <1>2 DEF Linked
  <2> HIDE DEF loc, h
  <2> QED BY <1>1, <1>2, <1>3, <1>4, <1>5, <1>6, <2>1, <2>2 DEF Linked, loc
<1>9. Held(h, stream', runs', sessions', known', overtaken')
  <2> SUFFICES ASSUME NEW q \in Runs,
                      Guarded(q, runs, sessions, known \cup {r}, overtaken)
               PROVE  /\ h.session = runs[q].session
                      /\ h.locator = [session |-> h.session, run |-> q]
                      /\ h.active = q \/ h.interlock = q \/ h.streaming
                      /\ stream'.phase # "posted"
    BY <1>1, <1>5 DEF Held
  <2>1. q = r
    <3>1. q \notin known
      BY <1>1, <1>2 DEF Held, Guarded
    <3> QED BY <3>1 DEF Guarded
  <2>2. ~overtaken
    BY DEF Guarded
  <2> QED BY <1>3, <1>4, <1>6, <2>1, <2>2
<1>10. Controls(h, stream', runs', sessions', known', ended', overtaken)
  BY <1>1, <1>7, <1>8, <1>9 DEF Controls
<1> HIDE DEF h
<1>11. /\ known' \subseteq Runs /\ \A q \in known' : runs[q].status # "none"
       /\ ended' \subseteq Runs
       /\ \A q \in ended' : runs[q].status \in {"done", "gone"}
       /\ faults' \in Nat
  BY <1>1, <1>2, QuietRest
<1> QED BY <1>1, <1>3, <1>4, <1>5, <1>6, <1>10, <1>11, StreamStep

LEMMA ApprovalRequestKeeps ==
  ASSUME HudInvariant, ApprovalRequest
  PROVE  HudInvariant'
<1> DEFINE r == stream.run
           Card(k) == [hud EXCEPT !.shown = Nothing, !.card = k]
<1>1. /\ stream.phase = "started" /\ hud.active = r
      /\ Live(r) /\ runs[r].asks < MaxAsks
      /\ runs' = [runs EXCEPT ![r].asks = @ + 1]
      /\ UNCHANGED <<stream, sessions, log, faults, reloads, known, ended,
                     overtaken>>
  BY DEF ApprovalRequest
<1>2. PICK k \in {[run |-> r, ask |-> runs[r].asks + 1], NoCard} :
         Becomes([Browser EXCEPT !.hud = Card(k)])
  <2>1. \A k : [Browser EXCEPT !.hud.shown = Nothing, !.hud.card = k]
                  = [Browser EXCEPT !.hud = Card(k)]
    BY DEF Browser
  <2> HIDE DEF Card
  <2> QED BY <2>1 DEF ApprovalRequest
<1> DEFINE h == Card(k)
<1>3. /\ r \in Runs /\ runs \in [Runs -> HermesRuns]
      /\ Exclusive(hud, stream, ended)
      /\ Controls(hud, stream, runs, sessions, known, ended, overtaken)
      /\ hud.streaming
  <2>1. runs \in [Runs -> HermesRuns]
    BY DEF HudInvariant, World, Types
  <2> QED BY <1>1, <2>1, QuietRest DEF Controls, Exclusive
<1>4. Undisturbed
  <2>1. runs[r].asks \in 0 .. MaxAsks /\ MaxAsks \in Nat
    BY <1>3, HudAssumption DEF HermesRuns
  <2>2. runs[r].asks + 1 \in 0 .. MaxAsks
    BY <1>1, <2>1
  <2>3. [runs[r] EXCEPT !.asks = @ + 1] \in HermesRuns
    BY <1>3, <2>2 DEF HermesRuns
  <2>4. runs' = [runs EXCEPT ![r] = [runs[r] EXCEPT !.asks = @ + 1]]
    BY <1>1
  <2>5. /\ runs' \in [Runs -> HermesRuns]
        /\ \A q \in Runs : /\ runs'[q].session = runs[q].session
                           /\ runs'[q].status = runs[q].status
                           /\ runs'[q].outcome = runs[q].outcome
    BY <1>3, <2>3, <2>4 DEF HermesRuns
  <2>6. sessions \in [Sessions -> {"new", "there", "deleted"}]
    BY DEF HudInvariant, World, Types
  <2> QED BY <1>1, <2>5, <2>6 DEF Undisturbed
<1>5. k \in [run : SomeRun, ask : 0 .. MaxAsks] /\ (k # NoCard => k.run = r)
  <2>1. runs[r].asks \in 0 .. MaxAsks /\ MaxAsks \in Nat
    BY <1>3, HudAssumption DEF HermesRuns
  <2>2. runs[r].asks + 1 \in 0 .. MaxAsks
    BY <1>1, <2>1
  <2> QED BY <1>3, <2>1, <2>2 DEF NoCard, SomeRun
<1>6. /\ h \in Huds /\ h.shown = Nothing /\ h.card = k
      /\ h.session = hud.session /\ h.active = hud.active
      /\ h.locator = hud.locator /\ h.interlock = hud.interlock
      /\ h.streaming = hud.streaming
  <2>1. Nothing \in [session : SomeSession, run : SomeRun, state : Shown]
    BY DEF Nothing, SomeSession, SomeRun, Shown
  <2> QED BY <1>5, <2>1, BrowserPair DEF Huds
<1> HIDE DEF Card
<1>7. Exclusive(h, stream', ended')
  BY <1>1, <1>3, <1>5, <1>6 DEF Exclusive
<1>8. Linked(h, stream', runs', sessions', overtaken')
  <2>1. Linked(hud, stream, runs, sessions, overtaken)
    BY <1>3 DEF Controls
  <2> QED BY <1>1, <1>3, <1>4, <1>6, <2>1 DEF Linked, Undisturbed
<1>9. Held(h, stream', runs', sessions', known', overtaken')
  <2>1. Held(hud, stream, runs, sessions, known, overtaken)
    BY <1>3 DEF Controls
  <2> QED BY <1>1, <1>4, <1>6, <2>1 DEF Held, Guarded, Undisturbed
<1>10. Controls(h, stream', runs', sessions', known', ended', overtaken)
  BY <1>1, <1>7, <1>8, <1>9 DEF Controls
<1>11. Becomes([Browser EXCEPT !.hud = h])
  BY <1>2
<1> HIDE DEF h
<1> QED BY <1>1, <1>3, <1>4, <1>6, <1>10, <1>11, QuietRest, StreamStep

\* A run that is no longer the turn's is neither stopped nor decided on.
LEMMA OffPair ==
  ASSUME NEW g \in Huds
  PROVE  /\ Off(g) \in Huds
         /\ Off(g).session = g.session /\ Off(g).streaming = g.streaming
         /\ Off(g).active = NoRun /\ Off(g).card = NoCard
         /\ Off(g).locator = g.locator /\ Off(g).interlock = g.interlock
         /\ Off(g).shown \in {g.shown, Nothing}
<1> DEFINE k == [g EXCEPT !.active = NoRun, !.card = NoCard]
<1>1. NoCard \in [run : SomeRun, ask : 0 .. MaxAsks] /\ NoRun \in SomeRun
  BY HudAssumption DEF NoCard, SomeRun
<1>2. /\ k \in Huds /\ k.session = g.session /\ k.streaming = g.streaming
      /\ k.active = NoRun /\ k.card = NoCard /\ k.shown = g.shown
      /\ k.locator = g.locator /\ k.interlock = g.interlock
  BY <1>1 DEF Huds
<1>3. Off(g) = KeepDurable(k)
  BY DEF Off
<1> HIDE DEF k
<1> QED BY <1>2, <1>3, KeepPair DEF Steady

\* An open stream's run that is over: what the end of a turn leaves.
LEMMA OverControls ==
  ASSUME HudInvariant, NEW r, r = stream.run, stream.phase = "started", ~Live(r)
  PROVE  /\ ClearRunLocator(Off(hud), r) \in Huds
         /\ ClearRunLocator(Off(hud), r).shown \in {hud.shown, Nothing}
         /\ ClearRunLocator(Off(hud), r).session = hud.session
         /\ \A shown : Controls([ClearRunLocator(Off(hud), r)
                                    EXCEPT !.shown = shown],
                                [stream EXCEPT !.phase = "over"], runs, sessions,
                                known, ended \cup {r}, overtaken)
         /\ hud.streaming /\ r \in Runs /\ runs[r].status \in {"done", "gone"}
         /\ overtaken \/ runs[r].session = hud.session
<1> DEFINE o == Off(hud)
           h == ClearRunLocator(o, r)
           over == [stream EXCEPT !.phase = "over"]
<1>1. /\ Exclusive(hud, stream, ended)
      /\ Linked(hud, stream, runs, sessions, overtaken)
      /\ Held(hud, stream, runs, sessions, known, overtaken)
      /\ r \in Runs /\ runs[r].status # "none" /\ ended \subseteq Runs
      /\ stream \in [run : SomeRun,
                     phase : {"none", "posted", "started", "over"}]
  BY QuietRest DEF Controls
<1>2. /\ hud.streaming /\ hud.session \in Sessions /\ hud.interlock = NoRun
      /\ overtaken \/ runs[r].session = hud.session
  BY <1>1 DEF Exclusive, Linked
<1>3. runs[r].status \in {"done", "gone"}
  <2>1. runs[r].status \in {"none", "running", "done", "gone"}
    BY <1>1 DEF HudInvariant, World, Types, HermesRuns
  <2> QED BY <1>1, <2>1 DEF Live
<1>4. /\ o \in Huds
      /\ o.session = hud.session /\ o.streaming = hud.streaming
      /\ o.active = NoRun /\ o.card = NoCard
      /\ o.locator = hud.locator /\ o.interlock = hud.interlock
      /\ o.shown \in {hud.shown, Nothing}
  BY OffPair, BrowserPair
<1> HIDE DEF o
<1>5. /\ h \in Huds /\ Steady(h, o) /\ h.shown = o.shown
      /\ o.locator.run = r => /\ h.locator = NoLocator
                              /\ h.interlock = IF o.interlock = r THEN NoRun
                                               ELSE o.interlock
      /\ o.locator.run # r => h = o
  BY <1>4, ClearRunPair
<1> HIDE DEF h
<1>6. /\ h.session = hud.session /\ h.streaming
      /\ h.active = NoRun /\ h.card = NoCard /\ h.interlock = NoRun
      /\ \/ h.locator = NoLocator /\ hud.locator.run = r
         \/ h.locator = hud.locator
  BY <1>2, <1>4, <1>5 DEF Steady
<1>7. over.phase = "over" /\ over.run = r
  BY <1>1
<1>8. NoRun \notin ended \cup {r}
  BY <1>1 DEF Runs, NoRun
<1> HIDE DEF over
<1>9. ASSUME NEW shown
      PROVE  Controls([h EXCEPT !.shown = shown], over, runs, sessions,
                      known, ended \cup {r}, overtaken)
  <2> DEFINE g == [h EXCEPT !.shown = shown]
  <2>1. /\ g.session = h.session /\ g.streaming = h.streaming
        /\ g.active = h.active /\ g.card = h.card
        /\ g.interlock = h.interlock /\ g.locator = h.locator
    BY <1>5 DEF Huds
  <2> HIDE DEF g
  <2>2. Exclusive(g, over, ended \cup {r})
    BY <1>6, <1>7, <1>8, <2>1 DEF Exclusive
  <2>3. Linked(g, over, runs, sessions, overtaken)
    BY <1>1, <1>2, <1>6, <1>7, <2>1 DEF Linked
  <2>4. Held(g, over, runs, sessions, known, overtaken)
    <3> SUFFICES ASSUME NEW q \in Runs,
                        Guarded(q, runs, sessions, known, overtaken)
                 PROVE  /\ h.session = runs[q].session
                        /\ h.locator = [session |-> h.session, run |-> q]
      BY <1>6, <1>7, <2>1 DEF Held
    <3>1. /\ hud.session = runs[q].session
          /\ hud.locator = [session |-> hud.session, run |-> q]
      BY <1>1 DEF Held
    <3>2. q # r
      BY <1>3 DEF Guarded
    <3> QED BY <1>6, <3>1, <3>2
  <2> QED BY <2>2, <2>3, <2>4 DEF Controls, g
<1> QED BY <1>1, <1>2, <1>3, <1>4, <1>5, <1>6, <1>9 DEF o, h, over

LEMMA RunAbortedKeeps ==
  ASSUME HudInvariant, RunAborted
  PROVE  HudInvariant'
<1> DEFINE r == stream.run
           h == ClearRunLocator(Off(hud), r)
<1>1. /\ stream.phase = "started" /\ ~Live(r)
      /\ Becomes([Browser EXCEPT !.hud = h])
      /\ ended' = ended \cup {r}
      /\ stream' = [stream EXCEPT !.phase = "over"]
      /\ UNCHANGED <<faults, reloads, known, overtaken>> /\ UNCHANGED hermes
  BY DEF RunAborted
<1>2. /\ h \in Huds /\ h.shown \in {hud.shown, Nothing}
      /\ \A shown : Controls([h EXCEPT !.shown = shown],
                             [stream EXCEPT !.phase = "over"], runs, sessions,
                             known, ended \cup {r}, overtaken)
      /\ hud.streaming /\ r \in Runs /\ runs[r].status \in {"done", "gone"}
  BY <1>1, OverControls
<1> HIDE DEF h
<1>3. h = [h EXCEPT !.shown = h.shown]
  BY <1>2 DEF Huds
<1>4. Undisturbed /\ runs' = runs /\ sessions' = sessions
  BY <1>1, UnchangedUndisturbed DEF hermes
<1>5. Controls(h, stream', runs', sessions', known', ended', overtaken)
  <2>1. Controls([h EXCEPT !.shown = h.shown],
                 [stream EXCEPT !.phase = "over"], runs, sessions,
                 known, ended \cup {r}, overtaken)
    BY <1>2
  <2>2. Controls(h, [stream EXCEPT !.phase = "over"], runs, sessions,
                 known, ended \cup {r}, overtaken)
    BY <1>3, <2>1
  <2> QED BY <1>1, <1>4, <2>2
<1>6. /\ ended' \subseteq Runs
      /\ \A q \in ended' : runs[q].status \in {"done", "gone"}
      /\ known' \subseteq Runs /\ \A q \in known' : runs[q].status # "none"
      /\ faults' \in Nat
  BY <1>1, <1>2, QuietRest
<1>7. stream'.phase = "over"
  BY <1>1, QuietRest
<1> QED BY <1>1, <1>2, <1>4, <1>5, <1>6, <1>7, StreamStep

LEMMA StreamErrorKeeps ==
  ASSUME HudInvariant, StreamError
  PROVE  HudInvariant'
<1> DEFINE h == Off(hud)
<1>1. /\ stream.phase = "started" /\ faults' = faults + 1
      /\ Becomes([Browser EXCEPT !.hud = h])
      /\ stream' = [stream EXCEPT !.phase = "over"]
      /\ UNCHANGED <<reloads, known, ended, overtaken>> /\ UNCHANGED hermes
  BY DEF StreamError, Fault
<1>2. /\ Exclusive(hud, stream, ended)
      /\ Linked(hud, stream, runs, sessions, overtaken)
      /\ Held(hud, stream, runs, sessions, known, overtaken)
      /\ ended \subseteq Runs
      /\ stream \in [run : SomeRun,
                     phase : {"none", "posted", "started", "over"}]
  BY QuietRest DEF Controls
<1>3. hud.streaming
  BY <1>1, <1>2 DEF Exclusive
<1>4. /\ h \in Huds
      /\ h.session = hud.session /\ h.streaming = hud.streaming
      /\ h.active = NoRun /\ h.card = NoCard
      /\ h.locator = hud.locator /\ h.interlock = hud.interlock
      /\ h.shown \in {hud.shown, Nothing}
  BY OffPair, BrowserPair
<1> HIDE DEF h
<1>5. Undisturbed /\ runs' = runs /\ sessions' = sessions
  BY <1>1, UnchangedUndisturbed DEF hermes
<1>6. stream'.phase = "over" /\ stream'.run = stream.run
  BY <1>1, <1>2
<1>7. NoRun \notin ended
  BY <1>2 DEF Runs, NoRun
<1>8. Controls(h, stream', runs, sessions, known, ended, overtaken)
  <2>1. Exclusive(h, stream', ended)
    BY <1>2, <1>3, <1>4, <1>6, <1>7 DEF Exclusive
  <2>2. Linked(h, stream', runs, sessions, overtaken)
    BY <1>2, <1>4, <1>6 DEF Linked
  <2>3. Held(h, stream', runs, sessions, known, overtaken)
    BY <1>2, <1>3, <1>4, <1>6 DEF Held
  <2> QED BY <2>1, <2>2, <2>3 DEF Controls
<1>9. Controls(h, stream', runs', sessions', known', ended', overtaken)
  BY <1>1, <1>5, <1>8
<1>10. faults' \in Nat
  BY <1>1, QuietRest
<1> QED BY <1>1, <1>3, <1>4, <1>5, <1>6, <1>9, <1>10, QuietRest, StreamStep

-----------------------------------------------------------------------------
(* The chains of awaits.                                                   *)

\* A chain carries no more under controls that stop no run but the same.
LEMMA CalmCarries ==
  ASSUME NEW q, NEW h, NEW g, g.streaming = h.streaming,
         g.active \in {h.active, NoRun},
         NEW rs, NEW ss, NEW kn, NEW en, NEW ov,
         Carries(q, h, rs, ss, kn, en, ov)
  PROVE  Carries(q, g, rs, ss, kn, en, ov)
  BY DEF Carries

\* Beside a reconnect that still counts no other chain is one.
LEMMA OthersCarry ==
  ASSUME HudInvariant, NEW c \in Calls, calls[c].current,
         NEW d \in Calls \ {c}, NEW h, h.streaming = hud.streaming,
         NEW rs, NEW ss, NEW kn, NEW en, NEW ov
  PROVE  Carries(calls[d], h, rs, ss, kn, en, ov)
<1>1. ~calls[d].current
  BY DEF HudInvariant, Chains, Single
<1>2. Carries(calls[d], hud, runs, sessions, known, ended, overtaken)
  BY DEF HudInvariant, Chains
<1> QED BY <1>1, <1>2 DEF Carries

\* A chain that is no reconnect may go on as it likes.
LEMMA FreeLicensed ==
  ASSUME NEW B, NEW c, ~B.calls[c].current,
         NEW nx, NEW rs, NEW ss, NEW kn, NEW ov
  PROVE  Licensed(B, c, nx, rs, ss, kn, ov)
  BY DEF Licensed

\* A tail from a browser with other controls, or with the same.
LEMMA TurnOver ==
  ASSUME HudInvariant, NEW h \in Huds, NEW S, NEW c \in Calls, NEW nx,
         NEW B, B = [Browser EXCEPT !.hud = h],
         TailOf(B, S, c, nx), Becomes(S),
         UNCHANGED <<hermes, stream, reloads, known, ended, overtaken>>,
         faults' \in Nat,
         h.shown \in {hud.shown, Nothing},
         Controls(h, stream, runs, sessions, known, ended, overtaken),
         \A d \in Calls \ {c} : Carries(calls[d], h, runs, sessions,
                                        known, ended, overtaken),
         Licensed(B, c, nx, runs, sessions, known, overtaken)
  PROVE  HudInvariant'
<1>1. B \in Pairs /\ B.hud = h /\ B.calls = calls
  BY BrowserPair, HudPair
<1>2. /\ UNCHANGED <<hermes, known, overtaken>>
      /\ stream' = stream /\ ended' = ended /\ reloads' = reloads
  BY DEF hermes
<1>3. /\ stream' \in {stream, NoStream} /\ ended' \subseteq Runs
      /\ \A r \in ended' : runs[r].status \in {"done", "gone"}
      /\ stream'.phase = "posted" => stream'.run \notin ended'
      /\ reloads' \in Nat
  BY <1>2, QuietRest
<1>4. Controls(B.hud, stream', runs, sessions, known, ended', overtaken)
  BY <1>1, <1>2
<1>5. \A d \in Calls \ {c} : Carries(calls[d], B.hud, runs, sessions,
                                     known, ended', overtaken)
  BY <1>1, <1>2
<1> QED BY <1>1, <1>2, <1>3, <1>4, <1>5, TailStep

LEMMA SameTurnOver ==
  ASSUME HudInvariant, NEW S, NEW c \in Calls, NEW nx,
         TailOf(Browser, S, c, nx), Becomes(S),
         UNCHANGED <<hermes, stream, reloads, known, ended, overtaken>>,
         faults' \in Nat,
         Licensed(Browser, c, nx, runs, sessions, known, overtaken)
  PROVE  HudInvariant'
<1>1. Browser = [Browser EXCEPT !.hud = hud]
  BY DEF Browser
<1>2. hud \in Huds
  BY BrowserPair
<1> QED BY <1>1, <1>2, QuietRest, TurnOver

LEMMA FaultNat ==
  ASSUME HudInvariant, Fault \/ NoFault
  PROVE  faults' \in Nat
  BY QuietRest DEF Fault, NoFault

\* A session that Hermes has lost takes its controls with it.
LEMMA VanishControls ==
  ASSUME HudInvariant, ~hud.streaming, hud.session # NoSession,
         sessions[hud.session] = "deleted"
  PROVE  /\ Vanish(hud) \in Huds /\ Vanish(hud).shown = Nothing
         /\ Vanish(hud).streaming = hud.streaming
         /\ Vanish(hud).active = NoRun
         /\ Controls(Vanish(hud), stream, runs, sessions, known, ended,
                     overtaken)
<1> DEFINE g == [hud EXCEPT !.locator = NoLocator, !.interlock = NoRun,
                            !.session = NoSession, !.active = NoRun,
                            !.card = NoCard, !.shown = Nothing]
<1>1. Vanish(hud) = g
  BY DEF Vanish, ClearLocator
<1>2. /\ NoCard \in [run : SomeRun, ask : 0 .. MaxAsks] /\ NoRun \in SomeRun
      /\ NoLocator \in [session : SomeSession, run : SomeRun]
      /\ NoSession \in SomeSession
      /\ Nothing \in [session : SomeSession, run : SomeRun, state : Shown]
  BY HudAssumption
     DEF NoCard, NoLocator, Nothing, SomeRun, SomeSession, Shown
<1>3. /\ g \in Huds /\ g.session = NoSession /\ g.active = NoRun
      /\ g.interlock = NoRun /\ g.card = NoCard /\ g.locator = NoLocator
      /\ g.streaming = hud.streaming /\ g.shown = Nothing
  BY <1>2, BrowserPair DEF Huds
<1> HIDE DEF g
<1>4. /\ Exclusive(hud, stream, ended)
      /\ Held(hud, stream, runs, sessions, known, overtaken)
      /\ ended \subseteq Runs
  BY QuietRest DEF Controls
<1>5. NoRun \notin ended
  BY <1>4 DEF Runs, NoRun
<1>6. Exclusive(g, stream, ended)
  BY <1>3, <1>4, <1>5 DEF Exclusive
<1>7. Linked(g, stream, runs, sessions, overtaken)
  BY <1>3 DEF Linked
<1>8. Held(g, stream, runs, sessions, known, overtaken)
  BY <1>4 DEF Held, Guarded
<1> QED BY <1>1, <1>3, <1>6, <1>7, <1>8 DEF Controls

LEMMA AnswerListKeeps ==
  ASSUME HudInvariant, NEW c \in Calls, AnswerList(c)
  PROVE  HudInvariant'
<1> DEFINE call == calls[c]
           Rest(B) == IF call.next = "reconcile" THEN Reconcile(B, c)
                      ELSE Finish(B, c)
           B == [Browser EXCEPT !.hud = Vanish(hud)]
<1>1. /\ call.at \in {"list", "boot"}
      /\ UNCHANGED <<stream, reloads, known, ended, overtaken>>
      /\ UNCHANGED hermes
  BY DEF AnswerList
<1>2. faults' \in Nat
  BY FaultNat DEF AnswerList
<1>3. \/ Becomes(Rest(Browser))
      \/ Becomes(LoadMessages(Browser, c, call.next))
      \/ /\ ~hud.streaming /\ hud.session # NoSession
         /\ sessions[hud.session] = "deleted"
         /\ Becomes(Rest(B))
  BY DEF AnswerList
<1>4. /\ call \in Chain /\ ~call.current /\ call.next \in Continuations
      /\ Types
  <2>1. Carries(call, hud, runs, sessions, known, ended, overtaken)
    BY QuietRest
  <2>2. call \in Chain
    BY BrowserPair
  <2> QED BY <1>1, <2>1, <2>2 DEF Carries, Chain, HudInvariant, World
<1>5. ASSUME NEW A \in Pairs
      PROVE  TailOf(A, Rest(A), c, "reconcile")
  BY <1>4, <1>5, ReconcileTail, FinishTail
<1> HIDE DEF Rest
<1>6. \A nx : Licensed(Browser, c, nx, runs, sessions, known, overtaken)
  BY <1>4, BrowserPair, FreeLicensed
<1>7. UNCHANGED <<hermes, stream, reloads, known, ended, overtaken>>
  BY <1>1 DEF hermes
<1>8. CASE Becomes(Rest(Browser))
  BY <1>2, <1>5, <1>6, <1>7, <1>8, BrowserPair, SameTurnOver
<1>9. CASE Becomes(LoadMessages(Browser, c, call.next))
  <2>1. TailOf(Browser, LoadMessages(Browser, c, call.next), c, call.next)
    BY <1>4, BrowserPair, LoadMessagesTail
  <2> QED BY <1>2, <1>6, <1>7, <1>9, <2>1, SameTurnOver
<1>10. CASE /\ ~hud.streaming /\ hud.session # NoSession
            /\ sessions[hud.session] = "deleted"
            /\ Becomes(Rest(B))
  <2> DEFINE g == Vanish(hud)
  <2>1. /\ g \in Huds /\ g.shown = Nothing
        /\ g.streaming = hud.streaming /\ g.active = NoRun
        /\ Controls(g, stream, runs, sessions, known, ended, overtaken)
    BY <1>10, VanishControls
  <2> HIDE DEF g
  <2>2. \A d \in Calls \ {c} : Carries(calls[d], g, runs, sessions,
                                       known, ended, overtaken)
    BY <2>1, QuietRest, CalmCarries
  <2>3. B = [Browser EXCEPT !.hud = g]
    BY DEF g
  <2> HIDE DEF B
  <2>4. B \in Pairs /\ B.calls = calls
    BY <2>1, <2>3, BrowserPair, HudPair
  <2>5. Licensed(B, c, "reconcile", runs, sessions, known, overtaken)
    BY <1>4, <2>4, FreeLicensed
  <2>6. TailOf(B, Rest(B), c, "reconcile")
    BY <1>5, <2>4
  <2>7. g.shown \in {hud.shown, Nothing}
    BY <2>1
  <2> QED BY <1>2, <1>7, <1>10, <2>1, <2>2, <2>3, <2>5, <2>6, <2>7, TurnOver
<1> QED BY <1>3, <1>8, <1>9, <1>10

LEMMA AnswerHistoryKeeps ==
  ASSUME HudInvariant, NEW c \in Calls, AnswerHistory(c)
  PROVE  HudInvariant'
<1> DEFINE next == calls[c].next
<1>1. /\ calls[c].at = "history"
      /\ UNCHANGED <<hermes, stream, reloads, known, ended, overtaken>>
      /\ faults' = faults
      /\ \/ Becomes(RefreshEvidence(Browser, c, next))
         \/ Becomes(AfterHistory(Browser, c))
  BY DEF AnswerHistory
<1>2. /\ ~calls[c].current /\ next \in Continuations /\ Types
  <2>1. Carries(calls[c], hud, runs, sessions, known, ended, overtaken)
    BY QuietRest
  <2>2. calls[c] \in Chain
    BY BrowserPair
  <2> QED BY <1>1, <2>1, <2>2 DEF Carries, Chain, HudInvariant, World
<1>3. Licensed(Browser, c, next, runs, sessions, known, overtaken)
  BY <1>2, BrowserPair, FreeLicensed
<1>4. /\ TailOf(Browser, RefreshEvidence(Browser, c, next), c, next)
      /\ TailOf(Browser, AfterHistory(Browser, c), c, next)
  BY <1>2, BrowserPair, RefreshEvidenceTail, AfterHistoryTail
<1>5. faults' \in Nat
  BY <1>1, QuietRest
<1> QED BY <1>1, <1>3, <1>4, <1>5, SameTurnOver

-----------------------------------------------------------------------------
(* A result that comes to be shown.                                        *)

\* Whatever a message lost on its way, what is made of it is true.
LEMMA ProjectionTrue ==
  ASSUME NEW o \in Outcomes, NEW m \in Remains(Result(o)), NEW hydrated
  PROVE  /\ ToolState(m, hydrated) \in Shown
         /\ ToolState(m, hydrated) = "succeeded" => o = "committed"
         /\ ToolState(m, hydrated) \in {"refused", "stale_plan"} =>
               ~Changed(o) /\ ~Unresolved(o)
<1> DEFINE R == Result(o)
<1>1. /\ R.tool = "apply" /\ R.structured = TRUE
      /\ R.success = Flag(o = "committed") /\ R.mutation = Flag(Changed(o))
      /\ R.recovery = Flag(Unresolved(o)) /\ R.complete = (o = "committed")
  BY DEF Result
<1>2. /\ o \in {"stale", "stale_stopped"} => R.error = "stale"
      /\ o \in {"stopped", "broken"} => R.error = "other"
      /\ o = "refused" => R.error = "refusal"
      /\ o = "committed" => R.error = "none"
  BY DEF Result
<1> HIDE DEF R
<1>3. /\ m.tool \in {R.tool, "unknown"}
      /\ m.success \in {R.success, "absent"}
      /\ m.mutation \in {R.mutation, "absent"}
      /\ m.recovery \in {R.recovery, "absent"}
      /\ m.error \in {R.error, "none"}
      /\ m.complete \in {R.complete, FALSE}
  BY DEF Remains, R
<1>4. m.tool # "preview"
  BY <1>1, <1>3
<1>5. ToolState(m, hydrated) \in {"unknown", ApplyState(m)}
  BY <1>4 DEF ToolState
<1>6. ApplyState(m) \in Shown
  BY DEF ApplyState, Shown
<1>7. ApplyState(m) = "succeeded" => o = "committed"
  BY <1>1, <1>3 DEF ApplyState, ClaimsChange, Flag
<1>8. ApplyState(m) \in {"refused", "stale_plan"} => Unharmed(m)
  BY DEF ApplyState
<1>9. Unharmed(m) => ~Changed(o) /\ ~Unresolved(o)
  BY <1>1, <1>3 DEF Unharmed, Flag
<1> QED BY <1>5, <1>6, <1>7, <1>8, <1>9 DEF Shown

\* A result in a log that is shown is a result the panel may show, and none
\* before what was shown already.
LEMMA NewShown ==
  ASSUME HudInvariant, NEW S, Becomes(S), UNCHANGED hermes,
         NEW s \in Sessions, NEW i \in DOMAIN log[s], newest[s] <= i,
         NEW hydrated, NEW shown \in Projections(log[s][i], hydrated),
         S.hud.shown = shown
  PROVE  /\ shown.session = s /\ Durable(shown) /\ Place(shown) = i
         /\ shown \in [session : SomeSession, run : SomeRun, state : Shown]
         /\ newest' = [newest EXCEPT ![s] = i]
         /\ newest' \in [Sessions -> Nat]
         /\ \A t \in Sessions : newest'[t] <= Len(log[t])
         /\ Panel'
<1> DEFINE r == log[s][i]
<1>1. /\ log[s] \in Seq(Runs) /\ newest \in [Sessions -> Nat]
      /\ Recorded
      /\ \A t \in Sessions : newest[t] <= Len(log[t])
  BY DEF HudInvariant, World, Types, Frontier
<1>2. i \in 1 .. Len(log[s]) /\ i \in Nat /\ r \in Runs
  BY <1>1, ElementOfSeq
<1>3. runs[r].session = s /\ runs[r].outcome \in Outcomes
  BY <1>1 DEF Recorded
<1> HIDE DEF r
<1>4. PICK m \in Remains(Result(runs[r].outcome)) :
         shown = [session |-> runs[r].session, run |-> r,
                  state |-> ToolState(m, hydrated)]
  BY DEF Projections, r
<1>5. /\ shown.session = s /\ shown.run = r
      /\ shown.state = ToolState(m, hydrated)
  BY <1>3, <1>4
<1>6. /\ shown.state \in Shown
      /\ shown.state = "succeeded" => runs[r].outcome = "committed"
      /\ shown.state \in {"refused", "stale_plan"} =>
            ~Changed(runs[r].outcome) /\ ~Unresolved(runs[r].outcome)
  BY <1>3, <1>5, ProjectionTrue
<1>7. Durable(shown)
  BY <1>2, <1>5 DEF Durable, Runs, NoRun
<1>8. log[s][i] = shown.run
  BY <1>5 DEF r
<1>9. Place(shown) = i
  BY <1>1, <1>5, <1>7, <1>8, PlaceIs
<1>10. shown \in [session : SomeSession, run : SomeRun, state : Shown]
  BY <1>2, <1>3, <1>4, <1>5, <1>6 DEF SomeSession, SomeRun
<1>11. /\ newest' = [t \in Sessions |->
             IF S.hud.shown.session = t /\ Place(S.hud.shown) > newest[t]
             THEN Place(S.hud.shown) ELSE newest[t]]
       /\ hud' = S.hud /\ log' = log /\ runs' = runs
  BY DEF Becomes, hermes
<1>12. newest' = [newest EXCEPT ![s] = i]
  <2>1. newest' = [t \in Sessions |-> IF shown.session = t /\ i > newest[t]
                                      THEN i ELSE newest[t]]
    BY <1>9, <1>11
  <2>2. newest[s] \in Nat /\ ~(i > newest[s]) => newest[s] = i
    BY <1>2
  <2>3. \A t \in Sessions :
           (IF shown.session = t /\ i > newest[t] THEN i ELSE newest[t])
             = IF t = s THEN i ELSE newest[t]
    BY <1>1, <1>5, <2>2
  <2> QED BY <1>1, <2>1, <2>3
<1>13. /\ newest' \in [Sessions -> Nat] /\ newest'[s] = i
       /\ \A t \in Sessions : newest'[t] <= Len(log[t])
  BY <1>1, <1>2, <1>12
<1>14. Panel'
  <2>1. ClaimsTrue'
    BY <1>5, <1>6, <1>11 DEF ClaimsTrue
  <2>2. \A j \in DOMAIN log[s] : log[s][j] = shown.run => j = i
    BY <1>1, <1>8 DEF Recorded
  <2> QED BY <1>2, <1>5, <1>8, <1>11, <1>13, <2>1, <2>2 DEF Panel
<1> QED BY <1>5, <1>7, <1>9, <1>10, <1>12, <1>13, <1>14

\* What an answer with evidence brings: nothing, or a result that stands in
\* the log no earlier than the answer was asked for.
LEMMA HydratedIs ==
  ASSUME Types, NEW s \in Sessions, NEW since \in Nat,
         NEW shown \in Hydrated(s, since), shown # Nothing
  PROVE  \E i \in DOMAIN log[s] : /\ since <= i
                                  /\ shown \in Projections(log[s][i], TRUE)
<1>1. PICK i \in since .. Len(log[s]) :
         shown \in IF i = 0 THEN {Nothing} ELSE Projections(log[s][i], TRUE)
  BY DEF Hydrated
<1>2. log[s] \in Seq(Runs)
  BY DEF Types
<1>3. i # 0
  BY <1>1
<1>4. i \in DOMAIN log[s] /\ since <= i
  BY <1>1, <1>2, <1>3
<1> QED BY <1>1, <1>3, <1>4

\* A different result is shown; the controls are what they were.
LEMMA ShownControls ==
  ASSUME HudInvariant,
         NEW shown \in [session : SomeSession, run : SomeRun, state : Shown],
         NEW h, h = [hud EXCEPT !.shown = shown]
  PROVE  /\ h \in Huds /\ h.shown = shown
         /\ h.streaming = hud.streaming /\ h.active = hud.active
         /\ h.session = hud.session
         /\ Controls(h, stream, runs, sessions, known, ended, overtaken)
         /\ \A d \in Calls : Carries(calls[d], h, runs, sessions, known,
                                     ended, overtaken)
<1>1. /\ h \in Huds /\ h.shown = shown
      /\ h.session = hud.session /\ h.active = hud.active
      /\ h.interlock = hud.interlock /\ h.streaming = hud.streaming
      /\ h.locator = hud.locator /\ h.card = hud.card
  BY BrowserPair DEF Huds
<1>2. Controls(h, stream, runs, sessions, known, ended, overtaken)
  <2>1. Controls(hud, stream, runs, sessions, known, ended, overtaken)
    BY QuietRest
  <2> QED BY <1>1, <2>1 DEF Controls, Exclusive, Linked, Held
<1>3. \A d \in Calls : Carries(calls[d], h, runs, sessions, known,
                               ended, overtaken)
  BY <1>1, QuietRest, CalmCarries
<1> QED BY <1>1, <1>2, <1>3

\* What a chain with evidence may do next.
LEMMA EvidenceLicensed ==
  ASSUME HudInvariant, NEW c \in Calls, calls[c].at = "items",
         NEW B, B.calls = calls, B.hud.streaming = hud.streaming,
         B.hud.active = hud.active
  PROVE  Licensed(B, c, calls[c].next, runs, sessions, known, overtaken)
<1>1. Carries(calls[c], hud, runs, sessions, known, ended, overtaken)
  BY QuietRest
<1> QED BY <1>1 DEF Carries, Licensed

LEMMA AnswerEvidenceKeeps ==
  ASSUME HudInvariant, NEW c \in Calls, AnswerEvidence(c)
  PROVE  /\ HudInvariant'
         /\ hud'.shown # hud.shown /\ Durable(hud'.shown) =>
               /\ hud'.shown.session = hud'.session
               /\ Place(hud'.shown) >= newest[hud'.shown.session]
<1> DEFINE call == calls[c]
           nx == call.next
           H(shown) == [hud EXCEPT !.shown = shown]
           B(shown) == [Browser EXCEPT !.hud = H(shown)]
<1>1. /\ call.at = "items"
      /\ UNCHANGED <<stream, reloads, known, ended, overtaken>>
      /\ UNCHANGED hermes
  BY DEF AnswerEvidence
<1>2. faults' \in Nat
  BY FaultNat DEF AnswerEvidence
<1>3. \/ Becomes(AfterEvidence(Browser, c))
      \/ Becomes(AfterEvidence(B(Nothing), c))
      \/ /\ EvidenceWanted(call)
         /\ \E shown \in Hydrated(call.session, call.since) :
               Becomes(AfterEvidence(B(shown), c))
  <2>1. \A shown : [Browser EXCEPT !.hud.shown = shown] = B(shown)
    BY DEF Browser
  <2> HIDE DEF B
  <2> QED BY <2>1 DEF AnswerEvidence
<1>4. UNCHANGED <<hermes, stream, reloads, known, ended, overtaken>>
  BY <1>1 DEF hermes
<1>5. /\ Types /\ Browser \in Pairs /\ Browser.calls = calls
      /\ Browser.hud = hud /\ hud \in Huds
      /\ newest \in [Sessions -> Nat]
  BY BrowserPair DEF HudInvariant, World, Types
<1>6. Nothing \in [session : SomeSession, run : SomeRun, state : Shown]
  BY DEF Nothing, SomeSession, SomeRun, Shown
<1>7. CASE Becomes(AfterEvidence(Browser, c))
  <2>1. TailOf(Browser, AfterEvidence(Browser, c), c, nx)
    BY <1>5, AfterEvidenceTail
  <2>2. Licensed(Browser, c, nx, runs, sessions, known, overtaken)
    BY <1>1, <1>5, EvidenceLicensed
  <2>3. hud'.shown \in {hud.shown, Nothing}
    BY <1>5, <1>7, <2>1 DEF Becomes, TailOf, Steady
  <2> QED BY <1>2, <1>4, <1>7, <2>1, <2>2, <2>3, SameTurnOver,
             NothingNotDurable
<1>8. ASSUME NEW shown \in [session : SomeSession, run : SomeRun, state : Shown]
      PROVE  /\ H(shown) \in Huds /\ H(shown).shown = shown
             /\ H(shown).session = hud.session
             /\ B(shown) \in Pairs /\ B(shown).calls = calls
             /\ B(shown).hud = H(shown)
             /\ Controls(H(shown), stream, runs, sessions, known, ended,
                         overtaken)
             /\ \A d \in Calls : Carries(calls[d], H(shown), runs, sessions,
                                         known, ended, overtaken)
             /\ Licensed(B(shown), c, nx, runs, sessions, known, overtaken)
             /\ TailOf(B(shown), AfterEvidence(B(shown), c), c, nx)
  <2>1. /\ H(shown) \in Huds /\ H(shown).shown = shown
        /\ H(shown).streaming = hud.streaming
        /\ H(shown).active = hud.active /\ H(shown).session = hud.session
        /\ Controls(H(shown), stream, runs, sessions, known, ended, overtaken)
        /\ \A d \in Calls : Carries(calls[d], H(shown), runs, sessions,
                                    known, ended, overtaken)
    BY ShownControls
  <2> HIDE DEF H
  <2>2. /\ B(shown) \in Pairs /\ B(shown).calls = calls
        /\ B(shown).hud = H(shown)
    BY <1>5, <2>1, HudPair
  <2> HIDE DEF B
  <2>3. Licensed(B(shown), c, nx, runs, sessions, known, overtaken)
    BY <1>1, <2>1, <2>2, EvidenceLicensed
  <2>4. TailOf(B(shown), AfterEvidence(B(shown), c), c, nx)
    BY <1>5, <2>2, AfterEvidenceTail
  <2> QED BY <2>1, <2>2, <2>3, <2>4
<1>9. CASE Becomes(AfterEvidence(B(Nothing), c))
  <2> DEFINE h == H(Nothing)
             A == B(Nothing)
  <2>1. /\ h \in Huds /\ h.shown \in {hud.shown, Nothing}
        /\ Controls(h, stream, runs, sessions, known, ended, overtaken)
        /\ \A d \in Calls : Carries(calls[d], h, runs, sessions,
                                    known, ended, overtaken)
        /\ Licensed(A, c, nx, runs, sessions, known, overtaken)
        /\ TailOf(A, AfterEvidence(A, c), c, nx)
        /\ A.hud.shown = Nothing
    BY <1>6, <1>8
  <2>2. A = [Browser EXCEPT !.hud = h] /\ Becomes(AfterEvidence(A, c))
    BY <1>9
  <2> HIDE DEF h, A
  <2>3. HudInvariant'
    BY <1>2, <1>4, <2>1, <2>2, TurnOver
  <2>4. hud'.shown = Nothing
    BY <2>1, <2>2 DEF Becomes, TailOf, Steady
  <2> QED BY <2>3, <2>4, NothingNotDurable
<1>10. CASE /\ EvidenceWanted(call)
            /\ \E shown \in Hydrated(call.session, call.since) :
                  shown # Nothing /\ Becomes(AfterEvidence(B(shown), c))
  <2>1. PICK shown \in Hydrated(call.session, call.since) :
           shown # Nothing /\ Becomes(AfterEvidence(B(shown), c))
    BY <1>10
  <2>2. /\ call.latest /\ call.session = hud.session /\ ~hud.streaming
        /\ call.session \in Sessions /\ call.since \in Nat
        /\ newest[call.session] <= call.since
    <3>1. call \in Chain
      BY BrowserPair
    <3>2. Carries(call, hud, runs, sessions, known, ended, overtaken)
      BY QuietRest
    <3>3. Fresh(calls, newest)
      BY DEF HudInvariant, Frontier
    <3> QED BY <1>1, <1>10, <3>1, <3>2, <3>3
            DEF EvidenceWanted, Carries, Fresh, Chain
  <2> DEFINE s == call.session
             S == AfterEvidence(B(shown), c)
             A == B(shown)
  <2>3. PICK i \in DOMAIN log[s] : /\ call.since <= i
                                   /\ shown \in Projections(log[s][i], TRUE)
    BY <1>5, <2>1, <2>2, HydratedIs
  <2>4. newest[s] <= i
    <3>1. DOMAIN log[s] \subseteq Nat /\ newest[s] \in Nat
      <4>1. log[s] \in Seq(Runs) /\ newest[s] \in Nat
        BY <1>5, <2>2 DEF Types
      <4> QED BY <4>1
    <3> QED BY <2>2, <2>3, <3>1
  <2>5. shown \in [session : SomeSession, run : SomeRun, state : Shown]
        /\ Durable(shown) /\ shown.session = s
    <3>1. PICK m \in Remains(Result(runs[log[s][i]].outcome)) :
             shown = [session |-> runs[log[s][i]].session, run |-> log[s][i],
                      state |-> ToolState(m, TRUE)]
      BY <2>3 DEF Projections
    <3>2. /\ log[s][i] \in Runs /\ runs[log[s][i]].session = s
          /\ runs[log[s][i]].outcome \in Outcomes
      <4>1. log[s] \in Seq(Runs)
        BY <1>5, <2>2 DEF Types
      <4> QED BY <2>2, <4>1, ElementOfSeq DEF HudInvariant, World, Recorded
    <3>3. ToolState(m, TRUE) \in Shown
      BY <3>2, ProjectionTrue
    <3>4. /\ shown.session = s /\ shown.run = log[s][i]
          /\ shown.state \in Shown
      BY <3>1, <3>2, <3>3
    <3>5. log[s][i] # NoRun
      BY <3>2 DEF Runs, NoRun
    <3>6. runs[log[s][i]].session \in SomeSession /\ log[s][i] \in SomeRun
      BY <2>2, <3>2 DEF SomeSession, SomeRun
    <3> QED BY <3>1, <3>3, <3>4, <3>5, <3>6 DEF Durable
  <2>6. /\ A \in Pairs /\ A.calls = calls
        /\ A.hud.shown = shown /\ A.hud.session = hud.session
        /\ Controls(A.hud, stream, runs, sessions, known, ended, overtaken)
        /\ \A d \in Calls : Carries(calls[d], A.hud, runs, sessions,
                                    known, ended, overtaken)
        /\ Licensed(A, c, nx, runs, sessions, known, overtaken)
        /\ TailOf(A, S, c, nx)
    BY <1>8, <2>5
  <2>7. Becomes(S)
    BY <2>1
  <2> HIDE DEF A, S
  <2>8. S.hud.shown \in {shown, Nothing} /\ S.hud.session = hud.session
    BY <2>6 DEF TailOf, Steady
  <2>9. hud' = S.hud /\ calls' = S.calls
    BY <2>7 DEF Becomes
  <2>10. ASSUME newest' \in [Sessions -> Nat]
         PROVE  /\ World'
                /\ Controls(hud, stream, runs, sessions, known, ended,
                            overtaken)'
                /\ Chains(calls, hud, runs, sessions, known, ended,
                          overtaken)'
    <3>1. /\ stream' = stream /\ ended' = ended /\ reloads' = reloads
          /\ UNCHANGED <<hermes, known, overtaken>>
      BY <1>4 DEF hermes
    <3>2. /\ stream' \in {stream, NoStream} /\ ended' \subseteq Runs
          /\ \A r \in ended' : runs[r].status \in {"done", "gone"}
          /\ stream'.phase = "posted" => stream'.run \notin ended'
          /\ reloads' \in Nat
      BY <3>1, QuietRest
    <3>3. Controls(A.hud, stream', runs, sessions, known, ended', overtaken)
      BY <2>6, <3>1
    <3>4. \A d \in Calls \ {c} : Carries(calls[d], A.hud, runs, sessions,
                                         known, ended', overtaken)
      BY <2>6, <3>1
    <3> QED BY <1>2, <2>6, <2>7, <2>10, <3>1, <3>2, <3>3, <3>4, TailCore
  <2>11. stream.phase = "none"
    BY <2>2, QuietRest DEF Controls, Exclusive
  <2>12. \A d \in Calls \ {c} :
            ~(A.calls[d].at = "items" /\ A.calls[d].latest)
    BY <1>1, <2>2, <2>6 DEF HudInvariant, Chains, Single
  <2>13. ASSUME \A t \in Sessions : newest'[t] <= Len(log[t])
         PROVE  Frontier'
    <3>1. Fresh(S.calls, newest')
      BY <2>6, <2>12, <2>13, TailFresh
    <3> QED BY <1>4, <2>9, <2>11, <2>13, <3>1 DEF Frontier, Fresh, Ahead, hermes
  <2>14. CASE S.hud.shown = shown
    <3>1. /\ Place(shown) = i
          /\ newest' \in [Sessions -> Nat]
          /\ \A t \in Sessions : newest'[t] <= Len(log[t])
          /\ Panel'
      <4>1. UNCHANGED hermes /\ s \in Sessions
        BY <1>1, <2>2
      <4> DEFINE hydrated == TRUE
      <4>2. i \in DOMAIN log[s] /\ shown \in Projections(log[s][i], hydrated)
        BY <2>3
      <4> HIDE DEF s, hydrated
      <4>3. newest[s] <= i /\ Becomes(S) /\ S.hud.shown = shown
        BY <2>4, <2>7, <2>14
      <4>4. Place(shown) = i
        BY <4>1, <4>2, <4>3, NewShown
      <4>5. newest' \in [Sessions -> Nat]
        BY <4>1, <4>2, <4>3, NewShown
      <4>6. Panel'
        BY <4>1, <4>2, <4>3, NewShown
      <4>7. \A t \in Sessions : newest'[t] <= Len(log[t])
        BY <4>1, <4>2, <4>3, NewShown
      <4> QED BY <4>4, <4>5, <4>6, <4>7
    <3> QED BY <2>2, <2>4, <2>5, <2>8, <2>9, <2>10, <2>13, <2>14, <3>1
            DEF HudInvariant
  <2>15. CASE S.hud.shown = Nothing
    <3>1. newest' = newest
      BY <2>7, <2>15, SameNotes
    <3>2. \A t \in Sessions : newest[t] <= Len(log[t])
      BY DEF HudInvariant, Frontier
    <3>3. Undisturbed
      BY <1>1, UnchangedUndisturbed
    <3>4. Panel'
      BY <2>9, <2>15, <3>1, <3>3, QuietPanel
    <3> QED BY <1>5, <2>9, <2>10, <2>13, <2>15, <3>1, <3>2, <3>4,
               NothingNotDurable DEF HudInvariant
  <2> QED BY <2>8, <2>14, <2>15
<1> QED BY <1>3, <1>7, <1>9, <1>10

-----------------------------------------------------------------------------
(* What the browser learns of a run, and what the owner does.              *)

\* A reconnect that still counts asked for the run the locator names.
LEMMA CurrentStatus ==
  ASSUME HudInvariant, NEW c \in Calls, calls[c].at = "status",
         IsCurrent(Browser, c)
  PROVE  /\ calls[c].current /\ calls[c].run \in Runs /\ ~hud.streaming
         /\ hud.card = NoCard /\ stream.phase = "none"
         /\ hud.session = calls[c].session
         /\ hud.locator = [session |-> hud.session, run |-> calls[c].run]
         /\ calls[c].since >= 1 /\ calls[c].since \in Nat
         /\ calls[c].run \in ended => calls[c].since >= 2
         /\ \A q \in Runs : Guarded(q, runs, sessions, known, overtaken) =>
               q = calls[c].run /\ runs[q].session = calls[c].session
<1>1. /\ Carries(calls[c], hud, runs, sessions, known, ended, overtaken)
      /\ Exclusive(hud, stream, ended)
      /\ Held(hud, stream, runs, sessions, known, overtaken)
  BY QuietRest DEF Controls
<1>2. calls[c] \in Chain
  BY BrowserPair
<1>3. /\ calls[c].current /\ hud.session = calls[c].session
      /\ ~hud.streaming /\ hud.card = NoCard
      /\ hud.locator = [session |-> calls[c].session, run |-> calls[c].run]
  BY BrowserPair DEF IsCurrent
<1>4. \A q \in Runs : Guarded(q, runs, sessions, known, overtaken) =>
         q = calls[c].run /\ runs[q].session = calls[c].session
  <2> TAKE q \in Runs
  <2> HAVE Guarded(q, runs, sessions, known, overtaken)
  <2>1. hud.locator.run = calls[c].run /\ hud.session = calls[c].session
    BY <1>3
  <2>2. /\ hud.session = runs[q].session
        /\ hud.locator = [session |-> hud.session, run |-> q]
    BY <1>1 DEF Held
  <2>3. hud.locator.run = q
    BY <2>2
  <2> QED BY <2>1, <2>2, <2>3
<1>5. stream.phase = "none"
  BY <1>1, <1>3 DEF Exclusive
<1> QED BY <1>1, <1>2, <1>3, <1>4, <1>5 DEF Carries, Chain

LEMMA AnswerStatusKeeps ==
  ASSUME HudInvariant, NEW c \in Calls, AnswerStatus(c)
  PROVE  /\ HudInvariant'
         /\ hud'.shown \in {hud.shown, Nothing}
<1> DEFINE call == calls[c]
           Aim(a, k) == [hud EXCEPT !.interlock = k, !.active = a]
           unknown == [hud EXCEPT !.interlock = IF hud.active = NoRun
                                                THEN call.run ELSE @]
           Pair(h) == [Browser EXCEPT !.hud = h]
<1>1. /\ call.at = "status" /\ UNCHANGED hermes
      /\ UNCHANGED <<stream, reloads, overtaken>>
      /\ UNCHANGED <<hermes, overtaken>>
  BY DEF AnswerStatus, hermes
<1>2. faults' \in Nat /\ reloads' \in Nat
  BY <1>1, FaultNat, QuietRest DEF AnswerStatus
<1>3. /\ Types /\ Browser \in Pairs /\ Browser.calls = calls
      /\ Browser.hud = hud /\ hud \in Huds
  BY BrowserPair DEF HudInvariant, World
<1>4. /\ Exclusive(hud, stream, ended)
      /\ Linked(hud, stream, runs, sessions, overtaken)
      /\ Held(hud, stream, runs, sessions, known, overtaken)
      /\ ended \subseteq Runs /\ known \subseteq Runs
      /\ \A r \in ended : runs[r].status \in {"done", "gone"}
      /\ \A r \in known : runs[r].status # "none"
  BY QuietRest DEF Controls
<1>5. NoRun \in SomeRun
  BY DEF SomeRun
<1>6. CASE ~IsCurrent(Browser, c)
  <2>1. Becomes(Finish(Browser, c)) /\ known' = known /\ ended' = ended
    BY <1>6 DEF AnswerStatus
  <2>2. TailOf(Browser, Finish(Browser, c), c, "failed")
    BY <1>3, FinishTail
  <2>3. Licensed(Browser, c, "failed", runs, sessions, known, overtaken)
    BY <1>1, <1>3, QuietRest DEF Licensed, Carries
  <2>4. hud'.shown \in {hud.shown, Nothing}
    BY <1>3, <2>1, <2>2 DEF Becomes, TailOf, Steady
  <2>5. UNCHANGED <<hermes, stream, reloads, known, ended, overtaken>>
    BY <1>1, <2>1 DEF hermes
  <2> QED BY <1>2, <2>1, <2>2, <2>3, <2>4, <2>5, SameTurnOver
<1>7. ASSUME IsCurrent(Browser, c), NEW h \in Huds, NEW S, NEW nx,
             TailOf(Pair(h), S, c, nx), Becomes(S),
             \/ nx = "failed"
             \/ /\ nx = "settle" /\ h.active = NoRun
                /\ ~Guarded(call.run, runs, sessions, known', overtaken),
             h.streaming = hud.streaming, h.shown \in {hud.shown, Nothing},
             Controls(h, stream, runs, sessions, known', ended', overtaken),
             known' \subseteq Runs, ended' \subseteq Runs,
             \A r \in known' : runs[r].status # "none",
             \A r \in ended' : runs[r].status \in {"done", "gone"}
      PROVE  /\ HudInvariant'
             /\ hud'.shown \in {hud.shown, Nothing}
  <2>1. /\ call.current /\ call.run \in Runs /\ ~hud.streaming
        /\ stream.phase = "none"
    BY <1>1, <1>7, CurrentStatus
  <2> DEFINE B == Pair(h)
  <2>2. B \in Pairs /\ B.hud = h /\ B.calls = calls
    BY <1>3, <1>7, HudPair
  <2> HIDE DEF Pair
  <2>3. Licensed(B, c, nx, runs, sessions, known', overtaken)
    BY <1>7, <2>1, <2>2 DEF Licensed
  <2>4. \A d \in Calls \ {c} : Carries(calls[d], B.hud, runs, sessions,
                                       known', ended', overtaken)
    BY <1>7, <2>1, <2>2, OthersCarry
  <2>5. /\ stream' \in {stream, NoStream}
        /\ stream'.phase = "posted" => stream'.run \notin ended'
        /\ Controls(B.hud, stream', runs, sessions, known', ended', overtaken)
        /\ B.hud.shown \in {hud.shown, Nothing}
        /\ TailOf(B, S, c, nx)
    BY <1>1, <1>7, <2>1, <2>2
  <2> HIDE DEF B
  <2>6. HudInvariant'
    BY <1>1, <1>2, <1>7, <2>2, <2>3, <2>4, <2>5, TailStepOf
  <2>7. hud'.shown \in {hud.shown, Nothing}
    BY <1>7, <2>2, <2>5 DEF Becomes, TailOf, Steady
  <2> QED BY <2>6, <2>7
<1>8. CASE /\ IsCurrent(Browser, c) /\ known' = known /\ ended' = ended
           /\ Becomes(RefreshEvidence(Pair(unknown), c, "failed"))
  <2> DEFINE k == IF hud.active = NoRun THEN call.run ELSE hud.interlock
             h == Aim(hud.active, k)
  <2>1. /\ call.current /\ call.run \in Runs /\ ~hud.streaming
        /\ \A q \in Runs : Guarded(q, runs, sessions, known, overtaken) =>
              q = call.run
    BY <1>1, <1>8, CurrentStatus
  <2>2. k \in SomeRun /\ hud.active \in SomeRun
    BY <1>3, <2>1 DEF Huds, SomeRun
  <2>3. /\ h \in Huds /\ h.active = hud.active /\ h.interlock = k
        /\ h.session = hud.session /\ h.streaming = hud.streaming
        /\ h.locator = hud.locator /\ h.card = hud.card /\ h.shown = hud.shown
    BY <1>3, <2>2 DEF Huds
  <2>4. unknown = h
    BY <1>3 DEF Huds
  <2> HIDE DEF h, unknown
  <2>5. Exclusive(h, stream, ended)
    BY <1>4, <2>1, <2>3 DEF Exclusive
  <2>6. Linked(h, stream, runs, sessions, overtaken)
    BY <1>4, <2>3 DEF Linked
  <2>7. Held(h, stream, runs, sessions, known, overtaken)
    BY <1>4, <2>1, <2>3 DEF Held
  <2>8. Controls(h, stream, runs, sessions, known', ended', overtaken)
    BY <1>8, <2>5, <2>6, <2>7 DEF Controls
  <2>9. Pair(h) \in Pairs /\ Pair(h).hud = h
    BY <1>3, <2>3, HudPair
  <2> HIDE DEF Pair
  <2>10. TailOf(Pair(h), RefreshEvidence(Pair(h), c, "failed"), c, "failed")
    BY <1>3, <2>9, RefreshEvidenceTail DEF Continuations
  <2>11. Becomes(RefreshEvidence(Pair(h), c, "failed"))
    BY <1>8, <2>4
  <2>12. /\ known' \subseteq Runs /\ ended' \subseteq Runs
         /\ \A r \in known' : runs[r].status # "none"
         /\ \A r \in ended' : runs[r].status \in {"done", "gone"}
    BY <1>4, <1>8
  <2> QED BY <1>7, <1>8, <2>3, <2>8, <2>10, <2>11, <2>12
<1>9. CASE /\ IsCurrent(Browser, c) /\ ended' = ended
           /\ known' = known \cup {call.run}
           /\ 1 \in call.since .. Rank(call.run)
           /\ runs[call.run].session = call.session
           /\ Becomes(Finish(Pair(Adopt(hud, call.run)), c))
  <2> DEFINE h == Adopt(hud, call.run)
  <2>1. /\ call.current /\ call.run \in Runs /\ ~hud.streaming
        /\ hud.card = NoCard /\ stream.phase = "none"
        /\ hud.locator = [session |-> hud.session, run |-> call.run]
        /\ hud.session = call.session
        /\ call.run \notin ended
        /\ \A q \in Runs : Guarded(q, runs, sessions, known, overtaken) =>
              q = call.run
    <3>1. call.since \in Nat /\ call.since <= 1
          /\ (call.run \in ended => call.since >= 2)
      <4>1. Rank(call.run) \in Nat
        BY DEF Rank
      <4>2. /\ call.since \in Nat
            /\ call.run \in ended => call.since >= 2
        BY <1>1, <1>9, CurrentStatus
      <4> QED BY <1>9, <4>1, <4>2
    <3> QED BY <1>1, <1>9, <3>1, CurrentStatus
  <2>2. /\ NoCard \in [run : SomeRun, ask : 0 .. MaxAsks]
        /\ Nothing \in [session : SomeSession, run : SomeRun, state : Shown]
        /\ call.run \in SomeRun
    BY HudAssumption, <2>1 DEF NoCard, Nothing, SomeRun, SomeSession, Shown
  <2>3. /\ h \in Huds /\ h.active = call.run /\ h.interlock = NoRun
        /\ h.session = hud.session /\ h.streaming = hud.streaming
        /\ h.locator = hud.locator /\ h.card = NoCard /\ h.shown = Nothing
    BY <1>3, <1>5, <2>2 DEF Adopt, Huds
  <2> HIDE DEF h
  <2>4. Exclusive(h, stream, ended)
    BY <1>4, <2>1, <2>3 DEF Exclusive
  <2>5. Linked(h, stream, runs, sessions, overtaken)
    BY <1>4, <2>1, <2>3 DEF Linked
  <2>6. Held(h, stream, runs, sessions, known', overtaken)
    <3>1. \A q \in Runs : Guarded(q, runs, sessions, known', overtaken) =>
             q = call.run
      BY <1>9, <2>1 DEF Guarded
    <3>2. runs[call.run].session = hud.session
      BY <1>9, <2>1
    <3> QED BY <2>1, <2>3, <3>1, <3>2 DEF Held
  <2>7. Controls(h, stream, runs, sessions, known', ended', overtaken)
    BY <1>9, <2>4, <2>5, <2>6 DEF Controls
  <2>8. Pair(h) \in Pairs
    BY <1>3, <2>3, HudPair
  <2>9. Becomes(Finish(Pair(h), c))
    BY <1>9 DEF h
  <2> HIDE DEF Pair
  <2>10. TailOf(Pair(h), Finish(Pair(h), c), c, "failed")
    BY <2>8, FinishTail
  <2>11. /\ known' \subseteq Runs /\ ended' \subseteq Runs
         /\ \A r \in known' : runs[r].status # "none"
         /\ \A r \in ended' : runs[r].status \in {"done", "gone"}
    <3>1. hud.locator # NoLocator /\ hud.locator.run = call.run
      <4>1. hud.locator.run = call.run
        BY <2>1
      <4>2. NoLocator.run = NoRun /\ call.run # NoRun
        BY <2>1 DEF NoLocator, NoRun, Runs
      <4> QED BY <4>1, <4>2
    <3>2. runs[call.run].status # "none"
      BY <1>4, <3>1 DEF Linked
    <3> QED BY <1>4, <1>9, <2>1, <3>2
  <2> QED BY <1>7, <1>9, <2>3, <2>7, <2>9, <2>10, <2>11
<1>10. CASE /\ IsCurrent(Browser, c)
            /\ Becomes(RefreshEvidence(Pair(Aim(NoRun, NoRun)), c, "settle"))
            /\ \E seen \in call.since .. Rank(call.run) :
                  \/ known' = known \ {call.run} /\ ended' = ended
                  \/ /\ seen # 1 /\ known' = known
                     /\ ended' = ended \cup {call.run}
  <2> DEFINE h == Aim(NoRun, NoRun)
  <2>1. PICK seen \in call.since .. Rank(call.run) :
           \/ known' = known \ {call.run} /\ ended' = ended
           \/ /\ seen # 1 /\ known' = known
              /\ ended' = ended \cup {call.run}
    BY <1>10
  <2>2. /\ call.current /\ call.run \in Runs /\ ~hud.streaming
        /\ hud.card = NoCard /\ stream.phase = "none"
        /\ call.since \in Nat /\ call.since >= 1
        /\ \A q \in Runs : Guarded(q, runs, sessions, known, overtaken) =>
              q = call.run /\ runs[q].session = call.session
    BY <1>1, <1>10, CurrentStatus
  <2>3. Rank(call.run) \in Nat /\ (Rank(call.run) >= 2 =>
           runs[call.run].status \in {"done", "gone"})
    BY DEF Rank
  <2>4. \/ seen = 1
        \/ seen >= 2 /\ runs[call.run].status \in {"done", "gone"}
    <3> DEFINE since == call.since
               rank == Rank(call.run)
    <3>1. seen \in since .. rank /\ since \in Nat /\ since >= 1 /\ rank \in Nat
      BY <2>1, <2>2, <2>3
    <3>2. rank >= 2 => runs[call.run].status \in {"done", "gone"}
      BY <2>3
    <3> HIDE DEF since, rank
    <3>3. seen = 1 \/ (seen >= 2 /\ rank >= 2)
      BY <3>1
    <3> QED BY <3>2, <3>3
  <2>5. ~Guarded(call.run, runs, sessions, known', overtaken)
    BY <2>1, <2>2, <2>4 DEF Guarded
  <2>6. \A q \in Runs : ~Guarded(q, runs, sessions, known', overtaken)
    BY <2>1, <2>2, <2>5 DEF Guarded
  <2>7. /\ known' \subseteq Runs /\ ended' \subseteq Runs
        /\ \A r \in known' : runs[r].status # "none"
        /\ \A r \in ended' : runs[r].status \in {"done", "gone"}
    BY <1>4, <2>1, <2>2, <2>4
  <2>8. /\ h \in Huds /\ h.active = NoRun /\ h.interlock = NoRun
        /\ h.session = hud.session /\ h.streaming = hud.streaming
        /\ h.locator = hud.locator /\ h.card = hud.card /\ h.shown = hud.shown
    BY <1>3, <1>5 DEF Huds
  <2> HIDE DEF h
  <2>9. Exclusive(h, stream, ended')
    <3>1. NoRun \notin ended'
      BY <2>7 DEF Runs, NoRun
    <3> QED BY <1>4, <2>2, <2>8, <3>1 DEF Exclusive
  <2>10. Linked(h, stream, runs, sessions, overtaken)
    BY <1>4, <2>8 DEF Linked
  <2>11. Held(h, stream, runs, sessions, known', overtaken)
    BY <2>6 DEF Held
  <2>12. Controls(h, stream, runs, sessions, known', ended', overtaken)
    BY <2>9, <2>10, <2>11 DEF Controls
  <2>13. Pair(h) \in Pairs
    BY <1>3, <2>8, HudPair
  <2>14. Becomes(RefreshEvidence(Pair(h), c, "settle"))
    BY <1>10 DEF h
  <2> HIDE DEF Pair
  <2>15. TailOf(Pair(h), RefreshEvidence(Pair(h), c, "settle"), c, "settle")
    BY <1>3, <2>13, RefreshEvidenceTail DEF Continuations
  <2> QED BY <1>7, <1>10, <2>5, <2>7, <2>8, <2>12, <2>14, <2>15
<1>11. ASSUME IsCurrent(Browser, c)
       PROVE  \/ /\ known' = known /\ ended' = ended
                 /\ Becomes(RefreshEvidence(Pair(unknown), c, "failed"))
              \/ /\ known' = known \cup {call.run} /\ ended' = ended
                 /\ 1 \in call.since .. Rank(call.run)
                 /\ runs[call.run].session = call.session
                 /\ Becomes(Finish(Pair(Adopt(hud, call.run)), c))
              \/ /\ Becomes(RefreshEvidence(Pair(Aim(NoRun, NoRun)), c, "settle"))
                 /\ \E seen \in call.since .. Rank(call.run) :
                       \/ known' = known \ {call.run} /\ ended' = ended
                       \/ /\ seen # 1 /\ known' = known
                          /\ ended' = ended \cup {call.run}
  <2>1. CASE /\ known' = known /\ ended' = ended
             /\ Becomes(RefreshEvidence(Pair(unknown), c, "failed"))
    BY <2>1
  <2>2. ASSUME NEW seen \in call.since .. Rank(call.run), NEW exact \in BOOLEAN,
               NEW kind, kind = Classify(call, seen, exact),
               Becomes(IF kind = "active"
                       THEN Finish(Pair(Adopt(hud, call.run)), c)
                       ELSE RefreshEvidence(Pair(Aim(NoRun, NoRun)), c, "settle")),
               known' = IF kind = "active" THEN known \cup {call.run}
                        ELSE IF kind = "unavailable"
                             THEN known \ {call.run} ELSE known,
               ended' = IF kind \in {"terminal", "expired"}
                        THEN ended \cup {call.run} ELSE ended
        PROVE  \/ /\ known' = known \cup {call.run} /\ ended' = ended
                  /\ 1 \in call.since .. Rank(call.run)
                  /\ runs[call.run].session = call.session
                  /\ Becomes(Finish(Pair(Adopt(hud, call.run)), c))
               \/ /\ Becomes(RefreshEvidence(Pair(Aim(NoRun, NoRun)), c, "settle"))
                  /\ \E n \in call.since .. Rank(call.run) :
                        \/ known' = known \ {call.run} /\ ended' = ended
                        \/ /\ n # 1 /\ known' = known
                           /\ ended' = ended \cup {call.run}
    <3>1. CASE kind = "active"
      <4>1. seen = 1 /\ runs[call.run].session = call.session
        BY <2>2, <3>1 DEF Classify
      <4> QED BY <2>2, <3>1, <4>1
    <3>2. CASE kind = "unavailable"
      BY <2>2, <3>2
    <3>3. CASE kind \in {"terminal", "expired"}
      <4>1. seen # 1
        BY <2>2, <3>3 DEF Classify
      <4> QED BY <2>2, <3>3, <4>1
    <3> QED BY <2>2, <3>1, <3>2, <3>3 DEF Classify
  <2>3. \/ /\ known' = known /\ ended' = ended
           /\ Becomes(RefreshEvidence(Pair(unknown), c, "failed"))
        \/ \E seen \in call.since .. Rank(call.run), exact \in BOOLEAN :
              LET kind == Classify(call, seen, exact)
              IN /\ Becomes(IF kind = "active"
                            THEN Finish(Pair(Adopt(hud, call.run)), c)
                            ELSE RefreshEvidence(Pair(Aim(NoRun, NoRun)), c,
                                                 "settle"))
                 /\ known' = IF kind = "active" THEN known \cup {call.run}
                             ELSE IF kind = "unavailable"
                                  THEN known \ {call.run} ELSE known
                 /\ ended' = IF kind \in {"terminal", "expired"}
                             THEN ended \cup {call.run} ELSE ended
    BY <1>11 DEF AnswerStatus
  <2> QED BY <2>1, <2>2, <2>3
<1> QED BY <1>6, <1>8, <1>9, <1>10, <1>11

\* Controls that hold on to nothing, when there is nothing to hold on to.
LEMMA EmptyControls ==
  ASSUME HudInvariant, NEW h \in Huds, h.active = NoRun, h.interlock = NoRun,
         h.card = NoCard, ~h.streaming, h.locator = NoLocator,
         NEW st, st.phase = "none", NEW ss, NEW ov,
         h.session # NoSession => ss[h.session] # "new",
         \A q \in Runs : ~Guarded(q, runs, ss, known, ov)
  PROVE  Controls(h, st, runs, ss, known, ended, ov)
<1>1. NoRun \notin ended
  BY QuietRest DEF Runs, NoRun
<1> QED BY <1>1 DEF Controls, Exclusive, Linked, Held

\* Nothing that is not busy guards a run.
LEMMA FreeControls ==
  ASSUME HudInvariant, ~Busy(hud)
  PROVE  /\ hud.active = NoRun /\ hud.interlock = NoRun /\ ~hud.streaming
         /\ hud.card = NoCard /\ stream.phase = "none"
         /\ \A q \in Runs : ~Guarded(q, runs, sessions, known, overtaken)
<1>1. /\ Exclusive(hud, stream, ended)
      /\ Held(hud, stream, runs, sessions, known, overtaken)
  BY QuietRest DEF Controls
<1>2. hud.active = NoRun /\ hud.interlock = NoRun /\ ~hud.streaming
  BY DEF Busy
<1>3. \A q \in Runs : q # NoRun
  BY DEF Runs, NoRun
<1> QED BY <1>1, <1>2, <1>3 DEF Exclusive, Held

\* The controls after another session, or none, is selected.
LEMMA ClearedHud ==
  ASSUME HudInvariant, NEW s \in SomeSession, NEW shown \in {hud.shown, Nothing},
         NEW h, h = [ClearLocator(hud) EXCEPT !.session = s, !.shown = shown]
  PROVE  /\ h \in Huds /\ h.session = s /\ h.shown = shown
         /\ h.locator = NoLocator /\ h.interlock = NoRun
         /\ h.active = hud.active /\ h.streaming = hud.streaming
         /\ h.card = hud.card
<1>1. /\ NoRun \in SomeRun
      /\ NoLocator \in [session : SomeSession, run : SomeRun]
      /\ Nothing \in [session : SomeSession, run : SomeRun, state : Shown]
  BY DEF NoLocator, Nothing, SomeRun, SomeSession, Shown
<1> QED BY <1>1, BrowserPair DEF ClearLocator, Huds

LEMMA SelectKeeps ==
  ASSUME HudInvariant, NEW c \in Calls, NEW s \in Sessions \cup {NoSession},
         Select(c, s)
  PROVE  /\ HudInvariant'
         /\ hud'.shown \in {hud.shown, Nothing}
<1> DEFINE h == [ClearLocator(hud) EXCEPT !.session = s, !.shown = Nothing]
           B == [Browser EXCEPT !.hud = h]
           S == LoadMessages(B, c, "done")
<1>1. /\ ~Busy(hud) /\ calls[c] = Idle
      /\ s # NoSession => sessions[s] = "there"
      /\ Becomes(S)
      /\ UNCHANGED <<hermes, stream, reloads, known, ended, overtaken>>
      /\ faults' = faults
  BY DEF Select
<1>2. /\ hud.active = NoRun /\ hud.interlock = NoRun /\ ~hud.streaming
      /\ hud.card = NoCard /\ stream.phase = "none"
      /\ \A q \in Runs : ~Guarded(q, runs, sessions, known, overtaken)
  BY <1>1, FreeControls
<1>3. /\ h \in Huds /\ h.session = s /\ h.shown = Nothing
      /\ h.locator = NoLocator /\ h.interlock = NoRun
      /\ h.active = hud.active /\ h.streaming = hud.streaming
      /\ h.card = hud.card
  <2>1. s \in SomeSession
    BY DEF SomeSession
  <2> QED BY <2>1, ClearedHud
<1> HIDE DEF h
<1>4. Controls(h, stream, runs, sessions, known, ended, overtaken)
  BY <1>1, <1>2, <1>3, EmptyControls
<1>5. \A d \in Calls \ {c} : Carries(calls[d], h, runs, sessions,
                                     known, ended, overtaken)
  BY <1>3, QuietRest, CalmCarries
<1>6. B \in Pairs /\ B.hud = h /\ B.calls = calls
  BY <1>3, BrowserPair, HudPair
<1>7. Licensed(B, c, "done", runs, sessions, known, overtaken)
  <2>1. ~calls[c].current
    BY <1>1 DEF Idle
  <2> HIDE DEF B
  <2> QED BY <1>6, <2>1, FreeLicensed
<1>8. faults' \in Nat
  BY <1>1, QuietRest
<1>9. TailOf(B, S, c, "done")
  <2>1. Types
    BY DEF HudInvariant, World
  <2> HIDE DEF B
  <2> QED BY <1>6, <2>1, LoadMessagesTail DEF Continuations
<1>10. B = [Browser EXCEPT !.hud = h]
  OBVIOUS
<1> HIDE DEF B, S
<1>11. HudInvariant'
  BY <1>1, <1>3, <1>4, <1>5, <1>7, <1>8, <1>9, <1>10, TurnOver
<1>12. hud'.shown \in {hud.shown, Nothing}
  BY <1>1, <1>3, <1>6, <1>9 DEF Becomes, TailOf, Steady
<1> QED BY <1>11, <1>12

\* A session that is linked makes no run guarded.
LEMMA LinkedGuards ==
  ASSUME HudInvariant, NEW s \in Sessions, sessions[s] = "new",
         NEW ss, ss = [sessions EXCEPT ![s] = "there"], NEW q \in Runs,
         NEW ov, overtaken => ov, Guarded(q, runs, ss, known, ov)
  PROVE  Guarded(q, runs, sessions, known, overtaken)
<1>1. q \in known /\ runs[q].status # "none"
  BY QuietRest DEF Guarded
<1>2. runs[q].session \in Sessions /\ runs[q].session # s
  BY <1>1 DEF HudInvariant, World, Submitted
<1>3. ss[runs[q].session] = sessions[runs[q].session]
  BY <1>2 DEF HudInvariant, World, Types
<1> QED BY <1>1, <1>3 DEF Guarded

LEMMA AnswerCreateKeeps ==
  ASSUME HudInvariant, NEW c \in Calls, AnswerCreate(c)
  PROVE  /\ HudInvariant'
         /\ hud'.shown = hud.shown
<1>1. /\ UNCHANGED <<stream, runs, log, reloads, known, ended>>
      /\ calls[c].at = "create"
  BY DEF AnswerCreate
<1>2. faults' \in Nat
  BY FaultNat DEF AnswerCreate
<1>3. CASE Becomes(Finish(Browser, c)) /\ UNCHANGED <<sessions, overtaken>>
  <2>1. Becomes(Await(Browser, c, Idle))
    BY <1>3, BrowserPair, FinishPair
  <2>2. Plain(Idle) /\ Idle \in Chain
    BY IdleType DEF Plain, Idle
  <2>3. UNCHANGED <<hermes, stream, reloads, known, ended, overtaken>>
    BY <1>1, <1>3 DEF hermes
  <2>4. hud' = hud
    BY <2>1, <2>2, BrowserPair, AwaitPair DEF Becomes
  <2> QED BY <1>2, <2>1, <2>2, <2>3, <2>4, AwaitStep
<1>4. ASSUME NEW s \in Sessions, sessions[s] = "new",
             sessions' = [sessions EXCEPT ![s] = "there"],
             overtaken' = (overtaken \/ Busy(hud)),
             Becomes([RefreshSessions([Browser EXCEPT
                                          !.hud = [ClearLocator(hud) EXCEPT
                                                       !.session = s]],
                                      c, "boot", "done")
                         EXCEPT !.calls[c].since = 1])
      PROVE  /\ HudInvariant'
             /\ hud'.shown = hud.shown
  <2> DEFINE h == [ClearLocator(hud) EXCEPT !.session = s]
             B == [Browser EXCEPT !.hud = h]
  <2>1. /\ h \in Huds /\ h.session = s /\ h.shown = hud.shown
        /\ h.locator = NoLocator /\ h.interlock = NoRun
        /\ h.active = hud.active /\ h.streaming = hud.streaming
        /\ h.card = hud.card
    <3> DEFINE g == [ClearLocator(hud) EXCEPT !.session = s,
                                              !.shown = hud.shown]
    <3>1. s \in SomeSession
      BY DEF SomeSession
    <3>2. /\ g \in Huds /\ g.session = s /\ g.shown = hud.shown
          /\ g.locator = NoLocator /\ g.interlock = NoRun
          /\ g.active = hud.active /\ g.streaming = hud.streaming
          /\ g.card = hud.card
      BY <3>1, ClearedHud
    <3>3. g = h
      BY BrowserPair DEF ClearLocator, Huds
    <3> QED BY <3>2, <3>3
  <2> HIDE DEF h
  <2>2. B \in Pairs /\ B.hud = h /\ B.calls = calls
    BY <2>1, BrowserPair, HudPair
  <2>3. B = [Browser EXCEPT !.hud = h]
    OBVIOUS
  <2> HIDE DEF B
  <2>4. PICK q \in Chain :
           /\ RefreshSessions(B, c, "boot", "done") = Await(B, c, q)
           /\ Plain(q)
    BY <2>2, ListChain DEF Continuations
  <2> DEFINE p == [q EXCEPT !.since = 1]
             S == Await(B, c, p)
  <2>5. p \in Chain /\ Plain(p)
    BY <2>4 DEF Chain, Plain
  <2>6. [Await(B, c, q) EXCEPT !.calls[c].since = 1] = S
    BY <2>2 DEF Await, Pairs
  <2>7. Becomes(S)
    BY <1>4, <2>3, <2>4, <2>6 DEF h
  <2> HIDE DEF p
  <2>8. /\ S \in Pairs /\ S.hud = h /\ S.calls[c] = p
        /\ \A d \in Calls \ {c} : Older(S.calls[d], calls[d])
    BY <2>2, <2>5, AwaitPair
  <2> HIDE DEF S
  <2>9. sessions \in [Sessions -> {"new", "there", "deleted"}]
    BY DEF HudInvariant, World, Types
  <2>10. Undisturbed
    BY <1>1, <1>4, <2>9 DEF Undisturbed, HudInvariant, World, Types
  <2>11. \A r \in Runs : Guarded(r, runs, sessions', known, overtaken')
                           => Guarded(r, runs, sessions, known, overtaken)
    BY <1>4, LinkedGuards
  <2>12. /\ Exclusive(hud, stream, ended)
         /\ Linked(hud, stream, runs, sessions, overtaken)
         /\ Held(hud, stream, runs, sessions, known, overtaken)
         /\ \A d \in Calls : Carries(calls[d], hud, runs, sessions, known,
                                     ended, overtaken)
    BY QuietRest DEF Controls
  <2>13. Controls(h, stream, runs, sessions', known, ended, overtaken')
    <3>1. Exclusive(h, stream, ended)
      BY <2>1, <2>12 DEF Exclusive
    <3>2. hud.active # NoRun \/ hud.streaming => overtaken'
      BY <1>4 DEF Busy
    <3>3. sessions'[s] = "there"
      BY <1>4, <2>9
    <3>4. Linked(h, stream, runs, sessions', overtaken')
      BY <2>1, <3>2, <3>3 DEF Linked
    <3>5. Held(h, stream, runs, sessions', known, overtaken')
      <4> SUFFICES ASSUME NEW r \in Runs,
                          Guarded(r, runs, sessions', known, overtaken')
                   PROVE  FALSE
        BY DEF Held
      <4>1. Guarded(r, runs, sessions, known, overtaken) /\ ~overtaken'
        BY <2>11 DEF Guarded
      <4>2. ~Busy(hud)
        BY <1>4, <4>1
      <4> QED BY <4>1, <4>2, FreeControls
    <3> QED BY <3>1, <3>4, <3>5 DEF Controls
  <2>14. \A d \in Calls : Carries(calls[d], h, runs, sessions', known, ended,
                                  overtaken')
    BY <2>1, <2>11, <2>12 DEF Carries
  <2>15. /\ \A d \in Calls :
              \/ Plain(S.calls[d])
              \/ /\ Older(S.calls[d], calls[d])
                 /\ Carries(calls[d], S.hud, runs', sessions',
                            known', ended', overtaken')
         /\ Controls(S.hud, stream', runs', sessions', known', ended',
                     overtaken')
         /\ S.hud.shown \in {hud.shown, Nothing}
    BY <1>1, <2>1, <2>5, <2>8, <2>13, <2>14
  <2>16. overtaken' \in BOOLEAN
    BY <1>4
  <2>17. HudInvariant'
    BY <1>1, <1>2, <2>7, <2>8, <2>10, <2>15, <2>16, QuietRest, PlainStep
  <2>18. hud'.shown = hud.shown
    BY <2>1, <2>7, <2>8 DEF Becomes
  <2> QED BY <2>17, <2>18
<1> QED BY <1>3, <1>4 DEF AnswerCreate

LEMMA ReloadKeeps ==
  ASSUME HudInvariant, Reload
  PROVE  HudInvariant'
<1> DEFINE g == [session |-> hud.session, active |-> NoRun,
                 interlock |-> NoRun, streaming |-> FALSE,
                 locator |-> hud.locator, card |-> NoCard, shown |-> Nothing]
           h == ArmInterlock(g)
           B == [hud |-> h, calls |-> [c \in Calls |-> Idle]]
<1>1. /\ stream' = NoStream /\ reloads' = reloads + 1
      /\ UNCHANGED <<hermes, faults, known, ended, overtaken>>
      /\ Becomes(RefreshSessions(B, 1, "boot", "reconcile"))
  BY DEF Reload, Boot, Load
<1>2. g \in Huds
  <2>1. /\ NoCard \in [run : SomeRun, ask : 0 .. MaxAsks] /\ NoRun \in SomeRun
        /\ Nothing \in [session : SomeSession, run : SomeRun, state : Shown]
    BY HudAssumption DEF NoCard, Nothing, SomeRun, SomeSession, Shown
  <2>2. /\ hud.session \in SomeSession
        /\ hud.locator \in [session : SomeSession, run : SomeRun]
    BY BrowserPair DEF Huds
  <2> QED BY <2>1, <2>2 DEF Huds
<1>3. /\ h \in Huds /\ Steady(h, g)
      /\ h.locator = g.locator /\ h.shown = g.shown
      /\ \/ h.interlock = g.interlock
            /\ ~(/\ g.session # NoSession /\ g.active = NoRun
                 /\ g.locator.session = g.session)
         \/ /\ h.interlock = g.locator.run
            /\ g.session # NoSession /\ g.active = NoRun
            /\ g.locator.session = g.session
  BY <1>2, ArmPair
<1>4. /\ h.session = hud.session /\ h.active = NoRun /\ ~h.streaming
      /\ h.locator = hud.locator /\ h.card = NoCard /\ h.shown = Nothing
      /\ hud.session # NoSession /\ hud.locator.session = hud.session =>
            h.interlock = hud.locator.run
  BY <1>3 DEF Steady
<1> HIDE DEF g, h
<1>5. B \in Pairs /\ B.hud = h /\ B.calls = [c \in Calls |-> Idle]
  BY <1>3, IdleType DEF Pairs
<1> HIDE DEF B
<1>6. PICK q \in Chain :
         /\ RefreshSessions(B, 1, "boot", "reconcile") = Await(B, 1, q)
         /\ Plain(q)
  BY <1>5, ListChain DEF Continuations
<1> DEFINE S == Await(B, 1, q)
<1>7. /\ S \in Pairs /\ S.hud = h
      /\ \A d \in Calls : Plain(S.calls[d])
  <2>1. S = [B EXCEPT !.calls = [B.calls EXCEPT ![1] = q]]
    BY <1>5 DEF Await, Pairs
  <2>2. \A d \in Calls : [B.calls EXCEPT ![1] = q][d] \in {Idle, q}
    BY <1>5
  <2>3. [B.calls EXCEPT ![1] = q] \in [Calls -> Chain]
    BY <1>5, IdleType
  <2>4. S.hud = h /\ S.calls = [B.calls EXCEPT ![1] = q] /\ S \in Pairs
    BY <1>5, <2>1, <2>3 DEF Pairs
  <2>5. Plain(Idle)
    BY DEF Plain, Idle
  <2> QED BY <1>6, <2>2, <2>4, <2>5
<1>8. Becomes(S)
  BY <1>1, <1>6
<1> HIDE DEF S
<1>9. /\ Exclusive(hud, stream, ended)
      /\ Linked(hud, stream, runs, sessions, overtaken)
      /\ Held(hud, stream, runs, sessions, known, overtaken)
      /\ ended \subseteq Runs
  BY QuietRest DEF Controls
<1>10. NoStream.phase = "none" /\ NoStream.run = NoRun
  BY DEF NoStream
<1>11. Controls(h, NoStream, runs, sessions, known, ended, overtaken)
  <2>1. NoRun \notin ended
    BY <1>9 DEF Runs, NoRun
  <2>2. Exclusive(h, NoStream, ended)
    BY <1>4, <1>10, <2>1 DEF Exclusive
  <2>3. Linked(h, NoStream, runs, sessions, overtaken)
    BY <1>4, <1>9 DEF Linked
  <2>4. Held(h, NoStream, runs, sessions, known, overtaken)
    <3> SUFFICES ASSUME NEW r \in Runs,
                        Guarded(r, runs, sessions, known, overtaken)
                 PROVE  /\ h.session = runs[r].session
                        /\ h.locator = [session |-> h.session, run |-> r]
                        /\ h.interlock = r
      BY <1>10 DEF Held
    <3>1. /\ hud.session = runs[r].session
          /\ hud.locator = [session |-> hud.session, run |-> r]
      BY <1>9 DEF Held
    <3>2. runs[r].session \in Sessions
      BY DEF HudInvariant, World, Submitted, Guarded
    <3>3. hud.session # NoSession
      BY <3>1, <3>2, HudAssumption
    <3>4. hud.locator.session = hud.session /\ hud.locator.run = r
      BY <3>1
    <3> QED BY <1>4, <3>1, <3>3, <3>4
  <2> QED BY <2>2, <2>3, <2>4 DEF Controls
<1>12. /\ Undisturbed /\ runs' = runs /\ sessions' = sessions
       /\ known' = known /\ ended' = ended /\ overtaken' = overtaken
  BY <1>1, UnchangedUndisturbed DEF hermes
<1>13. Controls(S.hud, stream', runs', sessions', known', ended', overtaken')
  BY <1>1, <1>7, <1>11, <1>12
<1>14. /\ stream' \in [run : SomeRun,
                       phase : {"none", "posted", "started", "over"}]
       /\ stream'.phase = "none"
  BY <1>1 DEF NoStream, SomeRun
<1>15. reloads' \in Nat /\ faults' \in Nat
  BY <1>1, QuietRest
<1>16. S.hud.shown \in {hud.shown, Nothing}
  BY <1>4, <1>7
<1> QED BY <1>7, <1>8, <1>12, <1>13, <1>14, <1>15, <1>16, QuietRest, PlainStep

-----------------------------------------------------------------------------
(* The turn begins and ends.                                               *)

LEMMA StreamEndsKeeps ==
  ASSUME HudInvariant, NEW c \in Calls, StreamEnds(c)
  PROVE  /\ HudInvariant'
         /\ hud'.shown \in {hud.shown, Nothing}
<1> DEFINE o == IF hud.active # NoRun \/ hud.card # NoCard
                THEN Off(hud) ELSE hud
           h == [o EXCEPT !.streaming = FALSE]
           g == ArmInterlock(h)
           B == [Browser EXCEPT !.hud = g]
           S == LoadMessages(B, c, "reconcile")
<1>1. /\ hud.streaming /\ calls[c] = Idle /\ stream' = NoStream
      /\ Becomes(S)
      /\ UNCHANGED <<hermes, reloads, known, ended, overtaken>>
  BY DEF StreamEnds
<1>2. faults' \in Nat
  BY FaultNat DEF StreamEnds
<1>3. /\ o \in Huds /\ o.session = hud.session
      /\ o.active = NoRun /\ o.card = NoCard
      /\ o.locator = hud.locator /\ o.interlock = hud.interlock
      /\ o.shown \in {hud.shown, Nothing}
  <2>1. CASE hud.active # NoRun \/ hud.card # NoCard
    BY <2>1, BrowserPair, OffPair
  <2>2. CASE ~(hud.active # NoRun \/ hud.card # NoCard)
    BY <2>2, BrowserPair
  <2> QED BY <2>1, <2>2
<1> HIDE DEF o
<1>4. /\ h \in Huds /\ h.session = o.session /\ h.active = o.active
      /\ h.card = o.card /\ h.locator = o.locator
      /\ h.interlock = o.interlock /\ h.shown = o.shown /\ ~h.streaming
  BY <1>3 DEF Huds
<1> HIDE DEF h
<1>5. /\ g \in Huds /\ Steady(g, h)
      /\ g.locator = h.locator /\ g.shown = h.shown
      /\ \/ g.interlock = h.interlock
            /\ ~(/\ h.session # NoSession /\ h.active = NoRun
                 /\ h.locator.session = h.session)
         \/ /\ g.interlock = h.locator.run
            /\ h.session # NoSession /\ h.active = NoRun
            /\ h.locator.session = h.session
  BY <1>4, ArmPair
<1>6. /\ g.session = hud.session /\ g.active = NoRun /\ ~g.streaming
      /\ g.card = NoCard /\ g.locator = hud.locator
      /\ g.shown \in {hud.shown, Nothing}
      /\ hud.session # NoSession /\ hud.locator.session = hud.session =>
            g.interlock = hud.locator.run
  BY <1>3, <1>4, <1>5 DEF Steady
<1> HIDE DEF g
<1>7. /\ Linked(hud, stream, runs, sessions, overtaken)
      /\ Held(hud, stream, runs, sessions, known, overtaken)
      /\ ended \subseteq Runs
      /\ \A r \in ended : runs[r].status \in {"done", "gone"}
  BY QuietRest DEF Controls
<1>8. NoStream.phase = "none"
  BY DEF NoStream
<1>9. Controls(g, NoStream, runs, sessions, known, ended, overtaken)
  <2>1. NoRun \notin ended
    BY <1>7 DEF Runs, NoRun
  <2>2. Exclusive(g, NoStream, ended)
    BY <1>6, <1>8, <2>1 DEF Exclusive
  <2>3. Linked(g, NoStream, runs, sessions, overtaken)
    BY <1>6, <1>7 DEF Linked
  <2>4. Held(g, NoStream, runs, sessions, known, overtaken)
    <3> SUFFICES ASSUME NEW r \in Runs,
                        Guarded(r, runs, sessions, known, overtaken)
                 PROVE  /\ g.session = runs[r].session
                        /\ g.locator = [session |-> g.session, run |-> r]
                        /\ g.interlock = r
      BY <1>8 DEF Held
    <3>1. /\ hud.session = runs[r].session
          /\ hud.locator = [session |-> hud.session, run |-> r]
      BY <1>7 DEF Held
    <3>2. hud.session # NoSession
      BY <1>1, <1>7, HudAssumption DEF Linked
    <3>3. hud.locator.session = hud.session /\ hud.locator.run = r
      BY <3>1
    <3> QED BY <1>6, <3>1, <3>2, <3>3
  <2> QED BY <2>2, <2>3, <2>4 DEF Controls
<1>10. B \in Pairs /\ B.hud = g /\ B.calls = calls
  BY <1>5, BrowserPair, HudPair
<1> HIDE DEF B
<1>11. TailOf(B, S, c, "reconcile")
  <2>1. Types
    BY DEF HudInvariant, World
  <2> QED BY <1>10, <2>1, LoadMessagesTail DEF Continuations
<1>12. Licensed(B, c, "reconcile", runs, sessions, known, overtaken)
  <2>1. ~calls[c].current
    BY <1>1 DEF Idle
  <2> QED BY <1>10, <2>1, FreeLicensed
<1>13. \A d \in Calls \ {c} : Carries(calls[d], B.hud, runs, sessions,
                                      known, ended', overtaken)
  BY <1>1, StreamingCarries
<1>14. /\ UNCHANGED <<hermes, known, overtaken>>
       /\ ended' = ended /\ reloads' = reloads
  BY <1>1 DEF hermes
<1>15. /\ Controls(B.hud, stream', runs, sessions, known, ended', overtaken)
       /\ stream' \in {stream, NoStream} /\ stream'.phase # "posted"
       /\ ended' \subseteq Runs /\ reloads' \in Nat
       /\ \A r \in ended' : runs[r].status \in {"done", "gone"}
       /\ B.hud.shown \in {hud.shown, Nothing}
  BY <1>1, <1>6, <1>7, <1>8, <1>9, <1>10, <1>14, QuietRest
<1> HIDE DEF S
<1>16. HudInvariant'
  BY <1>1, <1>2, <1>10, <1>11, <1>12, <1>13, <1>14, <1>15, TailStep
<1>17. hud'.shown \in {hud.shown, Nothing}
  BY <1>1, <1>11, <1>15 DEF Becomes, TailOf, Steady
<1> QED BY <1>16, <1>17

LEMMA RunCompletedKeeps ==
  ASSUME HudInvariant, RunCompleted
  PROVE  /\ HudInvariant'
         /\ hud'.shown # hud.shown /\ Durable(hud'.shown) =>
               /\ overtaken \/ hud'.shown.session = hud'.session
               /\ Place(hud'.shown) >= newest[hud'.shown.session]
<1> DEFINE r == stream.run
           h == ClearRunLocator(Off(hud), r)
           G(shown) == [h EXCEPT !.shown = shown]
           s == runs[r].session
<1>1. /\ stream.phase = "started" /\ ~Live(r)
      /\ ended' = ended \cup {r}
      /\ stream' = [stream EXCEPT !.phase = "over"]
      /\ UNCHANGED <<faults, reloads, known, overtaken>> /\ UNCHANGED hermes
  BY DEF RunCompleted
<1>2. PICK shown :
         /\ Becomes([Browser EXCEPT !.hud = G(shown)])
         /\ \/ shown = h.shown
            \/ /\ \E i \in DOMAIN log[s] : log[s][i] = r
               /\ shown \in Projections(r, FALSE)
  BY DEF RunCompleted
<1>3. /\ h \in Huds /\ h.shown \in {hud.shown, Nothing}
      /\ h.session = hud.session
      /\ Controls(G(shown), [stream EXCEPT !.phase = "over"], runs, sessions,
                  known, ended \cup {r}, overtaken)
      /\ hud.streaming /\ r \in Runs /\ runs[r].status \in {"done", "gone"}
      /\ overtaken \/ s = hud.session
  BY <1>1, OverControls
<1> HIDE DEF h
<1> DEFINE g == G(shown)
<1>4. Undisturbed /\ runs' = runs /\ sessions' = sessions /\ log' = log
  BY <1>1, UnchangedUndisturbed DEF hermes
<1>5. Controls(g, stream', runs', sessions', known', ended', overtaken')
  BY <1>1, <1>3, <1>4
<1>6. /\ ended' \subseteq Runs
      /\ \A q \in ended' : runs[q].status \in {"done", "gone"}
      /\ known' \subseteq Runs /\ \A q \in known' : runs[q].status # "none"
      /\ faults' \in Nat
  BY <1>1, <1>3, QuietRest
<1>7. stream'.phase = "over" /\ stream'.run = r
  BY <1>1, QuietRest
<1>8. CASE shown = h.shown
  <2>1. g = h
    BY <1>3, <1>8 DEF Huds
  <2>2. g \in Huds /\ g.shown \in {hud.shown, Nothing}
    BY <1>3, <2>1
  <2>3. /\ Becomes([Browser EXCEPT !.hud = g])
        /\ Controls(g, stream', runs', sessions', known', ended', overtaken)
    BY <1>1, <1>2, <1>5
  <2>4. /\ stream' = [stream EXCEPT !.phase = "over"]
        /\ UNCHANGED <<reloads, overtaken>>
    BY <1>1
  <2> HIDE DEF g
  <2>5. HudInvariant'
    BY <1>3, <1>4, <1>6, <1>7, <2>2, <2>3, <2>4, StreamStep
  <2>6. hud'.shown \in {hud.shown, Nothing}
    <3>1. [Browser EXCEPT !.hud = g].hud = g
      BY <2>2, BrowserPair, HudPair
    <3> QED BY <2>2, <2>3, <3>1 DEF Becomes
  <2> QED BY <2>5, <2>6, NothingNotDurable
<1>9. CASE /\ \E i \in DOMAIN log[s] : log[s][i] = r
           /\ shown \in Projections(r, FALSE)
  <2>1. PICK i \in DOMAIN log[s] : log[s][i] = r
    BY <1>9
  <2>2. s \in Sessions /\ runs[r].outcome \in Outcomes /\ log[s] \in Seq(Runs)
    <3>1. s \in Sessions
      BY <1>3 DEF HudInvariant, World, Submitted
    <3> QED BY <2>1, <3>1 DEF HudInvariant, World, Recorded, Types
  <2>3. PICK m \in Remains(Result(runs[r].outcome)) :
           shown = [session |-> s, run |-> r, state |-> ToolState(m, FALSE)]
    BY <1>9 DEF Projections
  <2>4. /\ shown \in [session : SomeSession, run : SomeRun, state : Shown]
        /\ shown.session = s
    <3>1. ToolState(m, FALSE) \in Shown
      BY <2>2, ProjectionTrue
    <3>2. s \in SomeSession /\ r \in SomeRun
      BY <1>3, <2>2 DEF SomeSession, SomeRun
    <3> QED BY <2>3, <3>1, <3>2
  <2>5. /\ g \in Huds /\ g.shown = shown /\ g.session = hud.session
    BY <1>3, <2>4 DEF Huds
  <2> DEFINE S == [Browser EXCEPT !.hud = g]
  <2>6. S \in Pairs /\ S.hud = g /\ S.calls = calls
    BY <2>5, BrowserPair, HudPair
  <2>7. Becomes(S)
    BY <1>2
  <2> HIDE DEF S, g
  <2>8. newest[s] <= i
    <3>1. i > newest[s]
      BY <1>1, <2>1 DEF HudInvariant, Frontier, Ahead
    <3>2. i \in Nat /\ newest[s] \in Nat
      BY <2>1, <2>2, LenProperties DEF HudInvariant, World, Types
    <3> QED BY <3>1, <3>2
  <2>9. /\ Place(shown) = i
        /\ newest' \in [Sessions -> Nat]
        /\ \A t \in Sessions : newest'[t] <= Len(log[t])
        /\ Panel'
    <3> DEFINE hydrated == FALSE
    <3>1. shown \in Projections(log[s][i], hydrated)
      BY <1>9, <2>1
    <3>2. UNCHANGED hermes /\ S.hud.shown = shown
      BY <1>1, <2>5, <2>6
    <3> HIDE DEF hydrated, s
    <3>3. Place(shown) = i
      <4>1. /\ Recorded
            /\ shown.session = s /\ shown.run = r /\ r # NoRun
        BY <1>3, <2>3, <2>4 DEF HudInvariant, World, Runs, NoRun
      <4> QED BY <2>1, <2>2, <4>1, PlaceIs DEF Durable
    <3>4. newest' \in [Sessions -> Nat]
      BY <2>1, <2>2, <2>7, <2>8, <3>1, <3>2, NewShown
    <3>5. \A t \in Sessions : newest'[t] <= Len(log[t])
      BY <2>1, <2>2, <2>7, <2>8, <3>1, <3>2, NewShown
    <3>6. Panel'
      BY <2>1, <2>2, <2>7, <2>8, <3>1, <3>2, NewShown
    <3> QED BY <3>3, <3>4, <3>5, <3>6
  <2>10. hud' = g /\ calls' = calls
    BY <2>6, <2>7 DEF Becomes
  <2>11. World'
    <3>1. overtaken' \in BOOLEAN /\ reloads' \in Nat
      BY <1>1, QuietRest
    <3>2. /\ stream' \in [run : SomeRun,
                          phase : {"none", "posted", "started", "over"}]
          /\ runs[stream'.run].status # "none"
      BY <1>1, <1>3, <1>7, QuietRest
    <3> QED BY <1>3, <1>4, <1>6, <1>7, <2>6, <2>7, <2>9, <3>1, <3>2, QuietWorld
  <2>12. Chains(calls, g, runs', sessions', known', ended', overtaken')
    <3>1. \A d \in Calls : Carries(calls[d], g, runs', sessions', known',
                                   ended', overtaken')
      BY <1>3, StreamingCarries
    <3> QED BY <3>1 DEF HudInvariant, Chains
  <2>13. Frontier'
    <3>1. \A d \in Calls : ~(calls[d].at = "items" /\ calls[d].latest)
      BY <1>3 DEF HudInvariant, Chains, Carries
    <3>2. Fresh(calls, newest)'
      BY <2>10, <3>1 DEF Fresh
    <3>3. Ahead'
      BY <1>7 DEF Ahead
    <3> QED BY <1>4, <2>9, <3>2, <3>3 DEF Frontier
  <2>14. HudInvariant'
    BY <1>5, <2>9, <2>10, <2>11, <2>12, <2>13 DEF HudInvariant
  <2>15. overtaken \/ hud'.shown.session = hud'.session
    BY <1>3, <2>4, <2>5, <2>10
  <2>16. Place(hud'.shown) >= newest[hud'.shown.session]
    <3>1. i \in Nat /\ newest[s] \in Nat
      BY <2>1, <2>2, LenProperties DEF HudInvariant, World, Types
    <3> QED BY <2>4, <2>5, <2>8, <2>9, <2>10, <3>1
  <2> QED BY <2>14, <2>15, <2>16
<1> QED BY <1>2, <1>8, <1>9


-----------------------------------------------------------------------------
(* Hermes.                                                                 *)

\* What Hermes does by itself: runs only go on from running, and a result is
\* added to the end of the log of its session when its run ends.
LEMMA HermesKeeps ==
  ASSUME HudInvariant,
         UNCHANGED <<hud, calls, stream, faults, reloads, history>>,
         runs' \in [Runs -> HermesRuns],
         sessions' \in [Sessions -> {"new", "there", "deleted"}],
         log' \in [Sessions -> Seq(Runs)],
         \A s \in Sessions :
            /\ sessions[s] # "new" => sessions'[s] # "new"
            /\ sessions'[s] = "there" => sessions[s] = "there"
            /\ Len(log[s]) <= Len(log'[s]),
         \A q \in Runs :
            /\ runs'[q].session = runs[q].session
            /\ runs'[q].status = "none" <=> runs[q].status = "none"
            /\ runs'[q].status = "running" => runs[q].status = "running"
            /\ runs[q].status \in {"done", "gone"} =>
                  /\ runs'[q].status \in {"done", "gone"}
                  /\ runs'[q].outcome = runs[q].outcome,
         \A s \in Sessions : \A i \in DOMAIN log[s] :
            i \in DOMAIN log'[s] /\ log'[s][i] = log[s][i],
         \A s \in Sessions : \A i \in DOMAIN log'[s] : i \notin DOMAIN log[s] =>
            /\ i > Len(log[s])
            /\ runs[log'[s][i]].status = "running"
            /\ runs'[log'[s][i]].status = "done"
            /\ runs'[log'[s][i]].session = s
            /\ runs'[log'[s][i]].outcome \in Outcomes
            /\ \A j \in DOMAIN log'[s] : j \notin DOMAIN log[s] => j = i
  PROVE  HudInvariant'
<1>1. /\ Types /\ Submitted /\ Recorded
      /\ \A s \in Sessions : log[s] \in Seq(Runs) /\ newest[s] \in Nat
  BY DEF HudInvariant, World, Types
<1>2. /\ hud' = hud /\ calls' = calls /\ stream' = stream /\ faults' = faults
      /\ reloads' = reloads /\ known' = known /\ ended' = ended
      /\ newest' = newest /\ overtaken' = overtaken
  BY DEF history
<1>3. \A q \in Runs : Guarded(q, runs', sessions', known, overtaken) =>
                         Guarded(q, runs, sessions, known, overtaken)
  BY <1>1 DEF Guarded, Submitted
<1>4. \A q \in Runs : runs[q].status # "none" => runs[q].session \in Sessions
  BY <1>1 DEF Submitted
<1>5. \A s \in Sessions : \A i \in DOMAIN log[s] : log[s][i] \in Runs
  BY <1>1, ElementOfSeq, LenProperties
<1>6. \A s \in Sessions : \A i \in DOMAIN log'[s] : log'[s][i] \in Runs
  BY ElementOfSeq, LenProperties
<1>7. World'
  <2>1. Types'
    BY <1>1, <1>2 DEF Types, Browser
  <2>2. Submitted'
    <3>1. \A q \in Runs : runs'[q].status # "none" =>
             runs'[q].session \in Sessions /\ sessions'[runs'[q].session] # "new"
      BY <1>1 DEF Submitted
    <3>2. \A q \in known' : runs'[q].status # "none"
      BY <1>1, <1>2 DEF Submitted, Types
    <3>3. \A q \in ended' : runs'[q].status \in {"done", "gone"}
      BY <1>1, <1>2 DEF Submitted, Types
    <3>4. stream'.phase # "none" => /\ stream'.run \in Runs
                                    /\ runs'[stream'.run].status # "none"
      BY <1>1, <1>2 DEF Submitted
    <3>5. stream'.phase = "posted" => stream'.run \notin ended'
      BY <1>1, <1>2 DEF Submitted
    <3> QED BY <3>1, <3>2, <3>3, <3>4, <3>5 DEF Submitted
  <2>3. Recorded'
    <3> SUFFICES ASSUME NEW s \in Sessions, NEW i \in DOMAIN log'[s]
                 PROVE  /\ runs'[log'[s][i]].session = s
                        /\ runs'[log'[s][i]].status \in {"done", "gone"}
                        /\ runs'[log'[s][i]].outcome \in Outcomes
                        /\ \A j \in DOMAIN log'[s] :
                              log'[s][j] = log'[s][i] => j = i
      BY DEF Recorded
    <3>1. \A k \in DOMAIN log[s] : /\ log[s][k] \in Runs
                                   /\ log'[s][k] = log[s][k]
                                   /\ runs[log[s][k]].session = s
                                   /\ runs[log[s][k]].status \in {"done", "gone"}
                                   /\ runs[log[s][k]].outcome \in Outcomes
      BY <1>1, <1>5 DEF Recorded
    <3>2. CASE i \in DOMAIN log[s]
      <4>1. \A j \in DOMAIN log'[s] : log'[s][j] = log'[s][i] => j \in DOMAIN log[s]
        BY <3>1, <3>2
      <4>2. \A j \in DOMAIN log'[s] : log'[s][j] = log'[s][i] => j = i
        BY <1>1, <3>1, <3>2, <4>1 DEF Recorded
      <4> QED BY <3>1, <3>2, <4>2
    <3>3. CASE i \notin DOMAIN log[s]
      BY <3>1, <3>3
    <3> QED BY <3>2, <3>3
  <2> QED BY <2>1, <2>2, <2>3 DEF World
<1>8. Controls(hud, stream, runs', sessions', known, ended, overtaken)
  <2>1. /\ Exclusive(hud, stream, ended)
        /\ Linked(hud, stream, runs, sessions, overtaken)
        /\ Held(hud, stream, runs, sessions, known, overtaken)
    BY QuietRest DEF Controls
  <2>2. Linked(hud, stream, runs', sessions', overtaken)
    <3>1. hud.session # NoSession => hud.session \in Sessions
      BY BrowserPair DEF Huds, SomeSession
    <3>2. hud.streaming => stream.run \in Runs
      BY <2>1, QuietRest DEF Exclusive
    <3> QED BY <2>1, <3>1, <3>2 DEF Linked
  <2>3. Held(hud, stream, runs', sessions', known, overtaken)
    BY <1>3, <2>1 DEF Held
  <2> QED BY <2>1, <2>2, <2>3 DEF Controls
<1>9. Chains(calls, hud, runs', sessions', known, ended, overtaken)
  <2>1. \A d \in Calls : Carries(calls[d], hud, runs', sessions', known,
                                 ended, overtaken)
    BY <1>3, QuietRest DEF Carries
  <2> QED BY <2>1 DEF HudInvariant, Chains
<1>10. Panel'
  <2>1. Panel
    BY DEF HudInvariant
  <2> SUFFICES ASSUME Durable(hud.shown)
               PROVE  /\ hud.shown.session \in Sessions
                      /\ \E i \in DOMAIN log'[hud.shown.session] :
                            log'[hud.shown.session][i] = hud.shown.run
                      /\ \A i \in DOMAIN log'[hud.shown.session] :
                            log'[hud.shown.session][i] = hud.shown.run
                               => i <= newest[hud.shown.session]
                      /\ runs'[hud.shown.run].outcome = runs[hud.shown.run].outcome
    BY <1>2, <2>1 DEF Panel, ClaimsTrue, Durable
  <2> DEFINE s == hud.shown.session
  <2>2. PICK k \in DOMAIN log[s] : log[s][k] = hud.shown.run
    BY <2>1 DEF Panel
  <2>3. s \in Sessions
    BY <2>1 DEF Panel
  <2>4. /\ hud.shown.run \in Runs
        /\ runs[hud.shown.run].status \in {"done", "gone"}
        /\ k \in DOMAIN log'[s] /\ log'[s][k] = hud.shown.run
    BY <1>1, <1>5, <2>2, <2>3 DEF Recorded
  <2>5. \A i \in DOMAIN log'[s] : log'[s][i] = hud.shown.run => i \in DOMAIN log[s]
    BY <2>3, <2>4
  <2>6. \A i \in DOMAIN log'[s] : log'[s][i] = hud.shown.run => i <= newest[s]
    <3> SUFFICES ASSUME NEW i \in DOMAIN log'[s], log'[s][i] = hud.shown.run
                 PROVE  i <= newest[s]
      OBVIOUS
    <3>1. i \in DOMAIN log[s] /\ log[s][i] = hud.shown.run
      BY <2>3, <2>5
    <3> QED BY <2>1, <3>1 DEF Panel
  <2> QED BY <2>3, <2>4, <2>6
<1>11. Frontier'
  <2>1. \A s \in Sessions : newest[s] <= Len(log'[s])
    <3> SUFFICES ASSUME NEW s \in Sessions
                 PROVE  newest[s] <= Len(log'[s])
      OBVIOUS
    <3>1. newest[s] <= Len(log[s]) /\ Len(log[s]) <= Len(log'[s])
      BY DEF HudInvariant, Frontier
    <3>2. newest[s] \in Nat /\ Len(log[s]) \in Nat /\ Len(log'[s]) \in Nat
      BY <1>1, LenProperties
    <3> QED BY <3>1, <3>2
  <2>2. Fresh(calls, newest)'
    BY <1>2 DEF HudInvariant, Frontier, Fresh
  <2>3. Ahead'
    <3> DEFINE s == runs[stream.run].session
    <3>1. ASSUME stream.phase \in {"posted", "started"},
                 NEW i \in DOMAIN log'[s], log'[s][i] = stream.run
          PROVE  i > newest[s]
      <4>1. stream.run \in Runs /\ s \in Sessions
        BY <1>1, <3>1 DEF Submitted
      <4>2. CASE i \in DOMAIN log[s]
        <5>1. log[s][i] = stream.run
          BY <3>1, <4>1, <4>2
        <5> QED BY <3>1, <4>2, <5>1 DEF HudInvariant, Frontier, Ahead
      <4>3. CASE i \notin DOMAIN log[s]
        <5>1. i > Len(log[s]) /\ newest[s] <= Len(log[s])
          BY <3>1, <4>1, <4>3 DEF HudInvariant, Frontier
        <5>2. newest[s] \in Nat /\ Len(log[s]) \in Nat /\ i \in Nat
          BY <1>1, <3>1, <4>1, LenProperties
        <5> QED BY <5>1, <5>2
      <4> QED BY <4>2, <4>3
    <3>2. stream.phase \in {"posted", "started"} =>
             runs'[stream.run].session = s
      BY <1>1 DEF Submitted
    <3>3. ASSUME stream'.phase \in {"posted", "started"},
                 NEW i \in DOMAIN log'[runs'[stream'.run].session],
                 log'[runs'[stream'.run].session][i] = stream'.run
          PROVE  i > newest'[runs'[stream'.run].session]
      <4>1. stream.phase \in {"posted", "started"} /\ stream'.run = stream.run
        BY <1>2, <3>3
      <4>2. runs'[stream'.run].session = s
        BY <3>2, <4>1
      <4>3. i \in DOMAIN log'[s] /\ log'[s][i] = stream.run
        BY <3>3, <4>1, <4>2
      <4>4. i > newest[s]
        BY <3>1, <4>1, <4>3
      <4> QED BY <1>2, <4>2, <4>4
    <3> QED BY <3>3 DEF Ahead
  <2> QED BY <1>2, <2>1, <2>2, <2>3 DEF Frontier
<1>12. /\ Controls(hud, stream, runs, sessions, known, ended, overtaken)'
       /\ Chains(calls, hud, runs, sessions, known, ended, overtaken)'
  BY <1>2, <1>8, <1>9
<1> QED BY <1>7, <1>10, <1>11, <1>12 DEF HudInvariant

LEMMA RunEndsKeeps ==
  ASSUME HudInvariant, NEW r \in Runs, RunEnds(r)
  PROVE  HudInvariant'
<1>1. PICK o \in Results \cup {"none"}, tool \in {"apply", "unknown"} :
         LET s == runs[r].session
             told == o # "none" /\ Evidence(<<[tool |-> tool]>>) # << >>
         IN /\ runs' = [runs EXCEPT ![r].status = "done",
                                    ![r].outcome = IF told THEN o ELSE "none"]
            /\ log' = IF told THEN [log EXCEPT ![s] = Append(@, r)] ELSE log
  BY DEF RunEnds
<1> DEFINE s == runs[r].session
           told == o # "none" /\ Evidence(<<[tool |-> tool]>>) # << >>
           left == IF told THEN o ELSE "none"
<1>2. /\ runs' = [runs EXCEPT ![r].status = "done", ![r].outcome = left]
      /\ log' = IF told THEN [log EXCEPT ![s] = Append(@, r)] ELSE log
      /\ left \in Outcomes \cup {"none"}
      /\ told => left \in Outcomes
  BY <1>1, HudAssumption
<1> HIDE DEF told, left
<1>3. /\ UNCHANGED <<hud, calls, stream, faults, reloads, history>>
      /\ sessions' = sessions /\ runs[r].status = "running"
  BY DEF RunEnds, Live
<1>4. /\ runs \in [Runs -> HermesRuns] /\ log \in [Sessions -> Seq(Runs)]
      /\ sessions \in [Sessions -> {"new", "there", "deleted"}]
      /\ s \in Sessions
  BY <1>3 DEF HudInvariant, World, Types, Submitted
<1>5. /\ runs' \in [Runs -> HermesRuns]
      /\ runs'[r].status = "done" /\ runs'[r].outcome = left
      /\ runs'[r].session = s
      /\ \A q \in Runs \ {r} : runs'[q] = runs[q]
  <2>1. /\ runs[r] \in HermesRuns
        /\ runs'[r] = [runs[r] EXCEPT !.status = "done", !.outcome = left]
        /\ \A q \in Runs \ {r} : runs'[q] = runs[q]
        /\ DOMAIN runs' = Runs
    BY <1>2, <1>4
  <2>2. /\ runs'[r] \in HermesRuns
        /\ runs'[r].status = "done" /\ runs'[r].outcome = left
        /\ runs'[r].session = s
    <3>1. left \in Outcomes \cup {"none"}
      BY <1>2
    <3>2. DOMAIN runs[r] = {"session", "status", "asks", "outcome"}
      BY <2>1 DEF HermesRuns
    <3>3. runs'[r].status = "done" /\ runs'[r].outcome = left
      BY <2>1, <3>2
    <3>4. runs'[r].session = s
      BY <2>1, <3>2
    <3>5. runs'[r] \in HermesRuns
      BY <2>1, <3>1 DEF HermesRuns
    <3> QED BY <3>3, <3>4, <3>5
  <2>3. runs' \in [Runs -> HermesRuns]
    BY <1>2, <1>4, <2>2
  <2> QED BY <2>1, <2>2, <2>3
<1>6. \A q \in Runs :
         /\ runs'[q].session = runs[q].session
         /\ runs'[q].status = "none" <=> runs[q].status = "none"
         /\ runs'[q].status = "running" => runs[q].status = "running"
         /\ runs[q].status \in {"done", "gone"} =>
               /\ runs'[q].status \in {"done", "gone"}
               /\ runs'[q].outcome = runs[q].outcome
  BY <1>3, <1>5
<1>7. CASE ~told
  <2>1. log' = log
    BY <1>2, <1>7
  <2>2. \A t \in Sessions : Len(log[t]) <= Len(log[t])
    BY <1>4, LenProperties
  <2> QED BY <1>3, <1>4, <1>5, <1>6, <2>1, <2>2, HermesKeeps
<1>8. CASE told
  <2>1. log' = [log EXCEPT ![s] = Append(log[s], r)]
    BY <1>2, <1>8
  <2>2. /\ log[s] \in Seq(Runs) /\ Append(log[s], r) \in Seq(Runs)
        /\ Len(Append(log[s], r)) = Len(log[s]) + 1
        /\ Append(log[s], r)[Len(log[s]) + 1] = r
        /\ \A i \in 1 .. Len(log[s]) : Append(log[s], r)[i] = log[s][i]
    BY <1>4, AppendProperties
  <2>3. log' \in [Sessions -> Seq(Runs)]
    BY <1>4, <2>1, <2>2
  <2>4. log'[s] = Append(log[s], r)
    BY <1>4, <2>1
  <2>5. \A t \in Sessions \ {s} : log'[t] = log[t]
    BY <1>4, <2>1
  <2>6. /\ DOMAIN log[s] = 1 .. Len(log[s]) /\ Len(log[s]) \in Nat
        /\ DOMAIN log'[s] = 1 .. Len(log[s]) + 1
    BY <2>2, <2>4, LenProperties
  <2>7. \A t \in Sessions : Len(log[t]) <= Len(log'[t])
    <3>1. \A t \in Sessions : Len(log[t]) \in Nat
      BY <1>4, LenProperties
    <3> QED BY <2>2, <2>4, <2>5, <2>6, <3>1
  <2>8. \A t \in Sessions : \A i \in DOMAIN log[t] :
           i \in DOMAIN log'[t] /\ log'[t][i] = log[t][i]
    BY <2>2, <2>4, <2>5, <2>6
  <2>9. \A t \in Sessions : \A i \in DOMAIN log'[t] : i \notin DOMAIN log[t] =>
           t = s /\ i = Len(log[s]) + 1 /\ log'[t][i] = r
    BY <2>2, <2>4, <2>5, <2>6
  <2>10. \A t \in Sessions : \A i \in DOMAIN log'[t] : i \notin DOMAIN log[t] =>
            /\ i > Len(log[t])
            /\ runs[log'[t][i]].status = "running"
            /\ runs'[log'[t][i]].status = "done"
            /\ runs'[log'[t][i]].session = t
            /\ runs'[log'[t][i]].outcome \in Outcomes
            /\ \A j \in DOMAIN log'[t] : j \notin DOMAIN log[t] => j = i
    <3> SUFFICES ASSUME NEW t \in Sessions, NEW i \in DOMAIN log'[t],
                        i \notin DOMAIN log[t]
                 PROVE  /\ i > Len(log[t])
                        /\ runs[log'[t][i]].status = "running"
                        /\ runs'[log'[t][i]].status = "done"
                        /\ runs'[log'[t][i]].session = t
                        /\ runs'[log'[t][i]].outcome \in Outcomes
                        /\ \A j \in DOMAIN log'[t] : j \notin DOMAIN log[t]
                                                        => j = i
      OBVIOUS
    <3>1. t = s /\ i = Len(log[s]) + 1 /\ log'[t][i] = r
      BY <2>9
    <3>2. \A j \in DOMAIN log'[t] : j \notin DOMAIN log[t] => j = i
      BY <2>9, <3>1
    <3>3. i > Len(log[t])
      BY <2>6, <3>1
    <3>4. left \in Outcomes
      BY <1>2, <1>8
    <3>5. log'[t][i] = r /\ t = s
      BY <3>1
    <3> HIDE DEF s
    <3> QED BY <1>3, <1>5, <3>2, <3>3, <3>4, <3>5
  <2> QED BY <1>3, <1>4, <1>5, <1>6, <2>3, <2>7, <2>8, <2>10, HermesKeeps
<1> QED BY <1>7, <1>8

LEMMA RunForgottenKeeps ==
  ASSUME HudInvariant, NEW r \in Runs, RunForgotten(r)
  PROVE  HudInvariant'
<1>1. /\ runs[r].status = "done" /\ runs' = [runs EXCEPT ![r].status = "gone"]
      /\ sessions' = sessions /\ log' = log
      /\ UNCHANGED <<hud, calls, stream, faults, reloads, history>>
  BY DEF RunForgotten
<1>2. /\ runs \in [Runs -> HermesRuns] /\ log \in [Sessions -> Seq(Runs)]
      /\ sessions \in [Sessions -> {"new", "there", "deleted"}]
  BY DEF HudInvariant, World, Types
<1>3. /\ runs' \in [Runs -> HermesRuns]
      /\ runs'[r].status = "gone" /\ runs'[r].outcome = runs[r].outcome
      /\ runs'[r].session = runs[r].session
      /\ \A q \in Runs \ {r} : runs'[q] = runs[q]
  BY <1>1, <1>2 DEF HermesRuns
<1>4. \A q \in Runs :
         /\ runs'[q].session = runs[q].session
         /\ runs'[q].status = "none" <=> runs[q].status = "none"
         /\ runs'[q].status = "running" => runs[q].status = "running"
         /\ runs[q].status \in {"done", "gone"} =>
               /\ runs'[q].status \in {"done", "gone"}
               /\ runs'[q].outcome = runs[q].outcome
  BY <1>1, <1>3
<1>5. \A t \in Sessions : Len(log[t]) <= Len(log[t])
  BY <1>2, LenProperties
<1> QED BY <1>1, <1>2, <1>3, <1>4, <1>5, HermesKeeps

LEMMA DeleteSessionKeeps ==
  ASSUME HudInvariant, NEW s \in Sessions, DeleteSession(s)
  PROVE  HudInvariant'
<1>1. /\ sessions' = [sessions EXCEPT ![s] = "deleted"]
      /\ runs' = runs /\ log' = log
      /\ UNCHANGED <<hud, calls, stream, faults, reloads, history>>
  BY DEF DeleteSession
<1>2. /\ runs \in [Runs -> HermesRuns] /\ log \in [Sessions -> Seq(Runs)]
      /\ sessions \in [Sessions -> {"new", "there", "deleted"}]
  BY DEF HudInvariant, World, Types
<1>3. \A t \in Sessions : Len(log[t]) <= Len(log[t])
  BY <1>2, LenProperties
<1>4. /\ sessions' \in [Sessions -> {"new", "there", "deleted"}]
      /\ \A t \in Sessions : /\ sessions[t] # "new" => sessions'[t] # "new"
                             /\ sessions'[t] = "there" => sessions[t] = "there"
  BY <1>1, <1>2
<1> QED BY <1>1, <1>2, <1>3, <1>4, HermesKeeps

-----------------------------------------------------------------------------
(* A turn is submitted.                                                    *)

\* All answers but those of the lists and decisions come too late now.
LEMMA SupersedeAll ==
  ASSUME NEW B \in Pairs, NEW S,
         S = Supersede(Supersede(Supersede(B, "history"), "items"), "reconcile")
  PROVE  /\ S \in Pairs /\ S.hud = B.hud
         /\ \A d \in Calls : Older(S.calls[d], B.calls[d]) /\ ~S.calls[d].current
         /\ \A d \in Calls : S.calls[d].at = "items" => ~S.calls[d].latest
<1> DEFINE B1 == Supersede(B, "history")
           B2 == Supersede(B1, "items")
<1>1. /\ B1 \in Pairs /\ B1.hud = B.hud
      /\ \A d \in Calls : Older(B1.calls[d], B.calls[d])
  BY SupersedeOlder
<1>2. S = Supersede(B2, "reconcile")
  OBVIOUS
<1> HIDE DEF B1
<1> DEFINE items == "items"
<1>3. /\ B2 \in Pairs /\ B2.hud = B1.hud
      /\ \A d \in Calls : Older(B2.calls[d], B1.calls[d])
      /\ \A d \in Calls : B2.calls[d].at = "items" => ~B2.calls[d].latest
  BY <1>1, SupersedeOlder
<1> HIDE DEF B2
<1>4. /\ S \in Pairs /\ S.hud = B2.hud
      /\ \A d \in Calls : Older(S.calls[d], B2.calls[d])
      /\ \A d \in Calls : ~S.calls[d].current
  BY <1>2, <1>3, SupersedeOlder
<1>5. \A d \in Calls : S.calls[d].at = "items" => ~S.calls[d].latest
  BY <1>3, <1>4 DEF Older
<1>6. \A d \in Calls : Older(S.calls[d], B.calls[d])
  BY <1>1, <1>3, <1>4, OlderOlder
<1> QED BY <1>1, <1>3, <1>4, <1>5, <1>6

LEMMA SendKeeps ==
  ASSUME HudInvariant, Send
  PROVE  /\ HudInvariant'
         /\ hud'.shown = hud.shown
<1> DEFINE h == [hud EXCEPT !.streaming = TRUE, !.active = NoRun, !.card = NoCard]
           B == [Browser EXCEPT !.hud = h]
           S == Supersede(Supersede(Supersede(B, "history"), "items"), "reconcile")
<1>1. /\ ~Busy(hud) /\ hud.session # NoSession
      /\ Becomes(S)
      /\ UNCHANGED <<sessions, log, faults, reloads, known, ended, overtaken>>
  BY DEF Send
<1>2. PICK r \in Runs, status \in {"running", "gone"} :
         /\ runs[r].status = "none"
         /\ runs' = [runs EXCEPT ![r] =
                        [NewRun(hud.session) EXCEPT !.status = status]]
         /\ stream' = [run |-> r,
                       phase |-> IF status = "running" THEN "posted" ELSE "over"]
  BY DEF Send
<1>3. /\ hud.active = NoRun /\ hud.interlock = NoRun /\ ~hud.streaming
      /\ hud.card = NoCard /\ stream.phase = "none"
      /\ \A q \in Runs : ~Guarded(q, runs, sessions, known, overtaken)
  BY <1>1, FreeControls
<1>4. /\ h \in Huds /\ h.session = hud.session /\ h.streaming
      /\ h.active = NoRun /\ h.card = NoCard /\ h.interlock = NoRun
      /\ h.locator = hud.locator /\ h.shown = hud.shown
  <2>1. NoRun \in SomeRun /\ NoCard \in [run : SomeRun, ask : 0 .. MaxAsks]
    BY <1>3, BrowserPair DEF Huds
  <2> QED BY <1>3, <2>1, BrowserPair DEF Huds
<1> HIDE DEF h
<1>5. B \in Pairs /\ B.hud = h /\ B.calls = calls
  BY <1>4, BrowserPair, HudPair
<1> HIDE DEF B
<1>6. /\ S \in Pairs /\ S.hud = h
      /\ \A d \in Calls : Older(S.calls[d], calls[d]) /\ ~S.calls[d].current
      /\ \A d \in Calls : S.calls[d].at = "items" => ~S.calls[d].latest
  BY <1>5, SupersedeAll
<1> HIDE DEF S
<1>7. hud' = h /\ calls' = S.calls /\ newest' = newest
  BY <1>1, <1>4, <1>6, SameNotes DEF Becomes
<1>8. /\ Types /\ Submitted /\ Recorded
      /\ Linked(hud, stream, runs, sessions, overtaken)
      /\ ended \subseteq Runs /\ known \subseteq Runs
  BY QuietRest DEF HudInvariant, World, Controls
<1>9. /\ hud.session \in Sessions /\ sessions[hud.session] # "new"
  BY <1>1, <1>8, BrowserPair DEF Linked, Huds, SomeSession
<1>10. /\ runs' \in [Runs -> HermesRuns]
       /\ runs'[r].session = hud.session /\ runs'[r].status = status
       /\ \A q \in Runs \ {r} : runs'[q] = runs[q]
  <2> DEFINE new == [NewRun(hud.session) EXCEPT !.status = status]
  <2>1. new = [session |-> hud.session, status |-> status, asks |-> 0,
               outcome |-> "none"]
    BY DEF NewRun
  <2>2. MaxAsks \in Nat
    BY HudAssumption
  <2>3. new \in HermesRuns
    BY <1>9, <2>1, <2>2 DEF HermesRuns, SomeSession
  <2>4. new.session = hud.session /\ new.status = status
    BY <2>1
  <2> HIDE DEF new
  <2>5. runs \in [Runs -> HermesRuns] /\ runs' = [runs EXCEPT ![r] = new]
    BY <1>2, <1>8 DEF Types, new
  <2> QED BY <2>3, <2>4, <2>5
<1>11. /\ r \notin known /\ r \notin ended
       /\ \A s \in Sessions : \A i \in DOMAIN log[s] : log[s][i] # r
  BY <1>2, <1>8 DEF Submitted, Recorded
<1>12. /\ stream'.run = r /\ stream'.phase \in {"posted", "over"}
       /\ stream' \in [run : SomeRun,
                       phase : {"none", "posted", "started", "over"}]
  BY <1>2 DEF SomeRun
<1>13. World'
  <2>1. Types'
    <3>1. [hud |-> h, calls |-> S.calls] = S
      BY <1>6 DEF Pairs
    <3>2. Browser' \in Pairs
      BY <1>6, <1>7, <3>1 DEF Browser
    <3> QED BY <1>1, <1>7, <1>8, <1>10, <1>12, <3>2 DEF Types
  <2>2. Submitted'
    <3>1. \A q \in Runs : runs'[q].status # "none" =>
             runs'[q].session \in Sessions /\ sessions[runs'[q].session] # "new"
      BY <1>8, <1>9, <1>10 DEF Submitted
    <3>2. \A q \in known : runs'[q].status # "none"
      BY <1>8, <1>10, <1>11 DEF Submitted
    <3>3. \A q \in ended : runs'[q].status \in {"done", "gone"}
      BY <1>8, <1>10, <1>11 DEF Submitted
    <3>4. r \in Runs /\ runs'[r].status # "none" /\ r \notin ended
      BY <1>10, <1>11
    <3> QED BY <1>1, <1>12, <3>1, <3>2, <3>3, <3>4 DEF Submitted
  <2>3. Recorded'
    <3>1. \A s \in Sessions : \A i \in DOMAIN log[s] : log[s][i] \in Runs
      BY <1>8, ElementOfSeq, LenProperties DEF Types
    <3>2. \A s \in Sessions : \A i \in DOMAIN log[s] :
             runs'[log[s][i]] = runs[log[s][i]]
      BY <1>10, <1>11, <3>1
    <3> QED BY <1>1, <1>8, <3>2 DEF Recorded
  <2> QED BY <2>1, <2>2, <2>3 DEF World
<1>14. Controls(h, stream', runs', sessions, known, ended, overtaken)
  <2>1. NoRun \notin ended
    BY <1>8 DEF Runs, NoRun
  <2>2. Exclusive(h, stream', ended)
    BY <1>4, <1>12, <2>1 DEF Exclusive
  <2>3. h.locator # NoLocator => /\ h.locator.run \in Runs
                                 /\ h.locator.session \in Sessions
                                 /\ runs'[h.locator.run].status # "none"
    BY <1>4, <1>8, <1>10 DEF Linked
  <2>4. Linked(h, stream', runs', sessions, overtaken)
    BY <1>4, <1>9, <1>10, <1>12, <2>3 DEF Linked
  <2>5. Held(h, stream', runs', sessions, known, overtaken)
    BY <1>3, <1>10, <1>11 DEF Held, Guarded
  <2> QED BY <2>2, <2>4, <2>5 DEF Controls
<1>15. Chains(S.calls, h, runs', sessions, known, ended, overtaken)
  <2>1. \A d \in Calls : S.calls[d].at = "items" => S.calls[d].session \in Sessions
    BY <1>6, QuietRest DEF Carries, Older
  <2>2. \A d \in Calls : Carries(S.calls[d], h, runs', sessions, known,
                                 ended, overtaken)
    BY <1>6, <2>1 DEF Carries
  <2> QED BY <1>6, <2>2 DEF Chains, Single
<1>16. Panel'
  <2>1. Durable(hud.shown) => runs'[hud.shown.run] = runs[hud.shown.run]
    BY <1>8, <1>10, <1>11, BrowserPair DEF HudInvariant, Panel, Huds, SomeRun,
       Durable
  <2>2. hud'.shown = hud.shown
    BY <1>4, <1>7
  <2> QED BY <1>1, <1>7, <2>1, <2>2 DEF HudInvariant, Panel, ClaimsTrue
<1>17. Frontier'
  <2>1. Fresh(S.calls, newest)
    BY <1>6 DEF Fresh
  <2>2. Ahead'
    BY <1>1, <1>9, <1>10, <1>11, <1>12 DEF Ahead
  <2> QED BY <1>1, <1>7, <2>1, <2>2 DEF HudInvariant, Frontier, Fresh
<1>18. /\ Controls(hud, stream, runs, sessions, known, ended, overtaken)'
       /\ Chains(calls, hud, runs, sessions, known, ended, overtaken)'
  BY <1>1, <1>7, <1>14, <1>15
<1> QED BY <1>4, <1>7, <1>13, <1>16, <1>17, <1>18 DEF HudInvariant

-----------------------------------------------------------------------------
(* The invariance.                                                         *)

\* The page as it comes up.
LEMMA FirstPage ==
  ASSUME NEW h, h = Load(Main, NoLocator)
  PROVE  /\ h \in Huds /\ h.session = Main /\ h.active = NoRun
         /\ h.interlock = NoRun /\ ~h.streaming /\ h.card = NoCard
         /\ h.locator = NoLocator /\ h.shown = Nothing
<1> DEFINE g == [session |-> Main, active |-> NoRun, interlock |-> NoRun,
                 streaming |-> FALSE, locator |-> NoLocator, card |-> NoCard,
                 shown |-> Nothing]
<1>1. /\ NoLocator.session # Main
      /\ MaxAsks \in Nat /\ Main \in Sessions
  BY HudAssumption DEF NoLocator
<1>2. h = g
  BY <1>1 DEF Load, ArmInterlock
<1>3. /\ NoRun \in SomeRun /\ Main \in SomeSession /\ NoSession \in SomeSession
      /\ NoLocator \in [session : SomeSession, run : SomeRun]
      /\ NoCard \in [run : SomeRun, ask : 0 .. MaxAsks]
      /\ Nothing \in [session : SomeSession, run : SomeRun, state : Shown]
  BY <1>1 DEF NoLocator, NoCard, Nothing, SomeRun, SomeSession, Shown
<1> QED BY <1>2, <1>3 DEF Huds

LEMMA HudInit == Init => HudInvariant
<1> SUFFICES ASSUME Init
             PROVE  HudInvariant
  OBVIOUS
<1>1. /\ hud = Load(Main, NoLocator)
      /\ calls = Boot(Load(Main, NoLocator)).calls
      /\ runs = [r \in Runs |-> [NewRun(NoSession) EXCEPT !.status = "none"]]
      /\ sessions = [s \in Sessions |-> IF s = Main THEN "there" ELSE "new"]
      /\ log = [s \in Sessions |-> << >>] /\ newest = [s \in Sessions |-> 0]
      /\ stream = NoStream /\ faults = 0 /\ reloads = 0
      /\ known = {} /\ ended = {} /\ overtaken = FALSE
  BY DEF Init
<1>2. /\ hud \in Huds /\ hud.session = Main /\ hud.active = NoRun
      /\ hud.interlock = NoRun /\ ~hud.streaming /\ hud.card = NoCard
      /\ hud.locator = NoLocator /\ hud.shown = Nothing
  BY <1>1, FirstPage
<1>3. /\ calls \in [Calls -> Chain] /\ \A d \in Calls : Plain(calls[d])
  <2> DEFINE B == [hud |-> hud, calls |-> [c \in Calls |-> Idle]]
  <2>1. calls = RefreshSessions(B, 1, "boot", "reconcile").calls
    BY <1>1 DEF Boot
  <2>2. B \in Pairs /\ B.calls = [c \in Calls |-> Idle]
    BY <1>2, IdleType DEF Pairs
  <2> HIDE DEF B
  <2>3. PICK q \in Chain :
           /\ RefreshSessions(B, 1, "boot", "reconcile") = Await(B, 1, q)
           /\ Plain(q)
    BY <2>2, ListChain DEF Continuations
  <2>4. Await(B, 1, q) = [B EXCEPT !.calls = [B.calls EXCEPT ![1] = q]]
    BY <2>2 DEF Await, Pairs
  <2>5. calls = [B.calls EXCEPT ![1] = q]
    BY <2>1, <2>2, <2>3, <2>4 DEF Pairs
  <2>6. Plain(Idle)
    BY DEF Plain, Idle
  <2>7. calls \in [Calls -> Chain]
    BY <2>2, <2>5, IdleType
  <2>8. \A d \in Calls : calls[d] \in {Idle, q}
    BY <2>2, <2>5
  <2> QED BY <2>3, <2>6, <2>7, <2>8
<1>4. /\ NoRun \in SomeRun /\ NoSession \in SomeSession /\ Main \in Sessions
      /\ MaxAsks \in Nat
  BY HudAssumption DEF SomeRun, SomeSession
<1>5. runs \in [Runs -> HermesRuns] /\ \A r \in Runs : runs[r].status = "none"
  BY <1>1, <1>4 DEF NewRun, HermesRuns
<1>6. \A s \in Sessions : log[s] = << >> /\ DOMAIN log[s] = {}
  BY <1>1
<1>7. World
  <2>1. Browser \in Pairs
    BY <1>2, <1>3 DEF Browser, Pairs
  <2>2. stream \in [run : SomeRun, phase : {"none", "posted", "started", "over"}]
    BY <1>1, <1>4 DEF NoStream
  <2>3. log \in [Sessions -> Seq(Runs)]
    BY <1>1, EmptySeq
  <2>4. Types
    BY <1>1, <1>5, <2>1, <2>2, <2>3 DEF Types
  <2>5. Submitted
    BY <1>1, <1>5 DEF Submitted, NoStream
  <2> QED BY <1>6, <2>4, <2>5 DEF World, Recorded
<1>8. Controls(hud, stream, runs, sessions, known, ended, overtaken)
  <2>1. Exclusive(hud, stream, ended)
    BY <1>1, <1>2 DEF Exclusive, NoStream
  <2>2. Linked(hud, stream, runs, sessions, overtaken)
    BY <1>1, <1>2, <1>4 DEF Linked
  <2> QED BY <1>1, <2>1, <2>2 DEF Controls, Held, Guarded
<1>9. Chains(calls, hud, runs, sessions, known, ended, overtaken)
  BY <1>3 DEF Chains, Single, Carries, Plain
<1>10. Panel /\ Frontier
  <2>1. Panel
    BY <1>2, NothingNotDurable DEF Panel, ClaimsTrue
  <2>2. Fresh(calls, newest) /\ Ahead
    BY <1>1, <1>3 DEF Fresh, Plain, Ahead, NoStream
  <2> QED BY <1>1, <1>6, <2>1, <2>2 DEF Frontier
<1> QED BY <1>7, <1>8, <1>9, <1>10 DEF HudInvariant

-----------------------------------------------------------------------------
(* What the other steps show: what was shown, or nothing.                  *)

LEMMA TailShows ==
  ASSUME NEW B, NEW S, NEW c, NEW nx, TailOf(B, S, c, nx), Becomes(S),
         B.hud.shown \in {hud.shown, Nothing}
  PROVE  hud'.shown \in {hud.shown, Nothing}
BY DEF TailOf, Steady, Becomes

LEMMA AnswersShow ==
  ASSUME HudInvariant, NEW c \in Calls, AnswerList(c) \/ AnswerHistory(c)
  PROVE  hud'.shown \in {hud.shown, Nothing}
<1> DEFINE next == calls[c].next
           Rest(B) == IF next = "reconcile" THEN Reconcile(B, c)
                      ELSE Finish(B, c)
           B == [Browser EXCEPT !.hud = Vanish(hud)]
<1>1. /\ Types /\ Browser \in Pairs /\ Browser.hud = hud
      /\ next \in Continuations
  BY BrowserPair DEF HudInvariant, World, Chain
<1>2. ASSUME NEW A \in Pairs
      PROVE  TailOf(A, Rest(A), c, "reconcile")
  BY <1>1, <1>2, ReconcileTail, FinishTail
<1>3. \/ Becomes(Rest(Browser))
      \/ Becomes(LoadMessages(Browser, c, next))
      \/ Becomes(RefreshEvidence(Browser, c, next))
      \/ Becomes(AfterHistory(Browser, c))
      \/ /\ ~hud.streaming /\ hud.session # NoSession
         /\ sessions[hud.session] = "deleted"
         /\ Becomes(Rest(B))
  BY DEF AnswerList, AnswerHistory
<1> HIDE DEF Rest
<1>4. hud.shown \in {hud.shown, Nothing}
  OBVIOUS
<1>5. CASE Becomes(Rest(Browser))
  BY <1>1, <1>2, <1>4, <1>5, TailShows
<1>6. CASE Becomes(LoadMessages(Browser, c, next))
  BY <1>1, <1>4, <1>6, LoadMessagesTail, TailShows
<1>7. CASE Becomes(RefreshEvidence(Browser, c, next))
  BY <1>1, <1>4, <1>7, RefreshEvidenceTail, TailShows
<1>8. CASE Becomes(AfterHistory(Browser, c))
  BY <1>1, <1>4, <1>8, AfterHistoryTail, TailShows
<1>9. CASE /\ ~hud.streaming /\ hud.session # NoSession
           /\ sessions[hud.session] = "deleted"
           /\ Becomes(Rest(B))
  <2>1. Vanish(hud) \in Huds /\ Vanish(hud).shown = Nothing
    BY <1>9, VanishControls
  <2>2. B \in Pairs /\ B.hud.shown \in {hud.shown, Nothing}
    BY <1>1, <2>1, HudPair
  <2> QED BY <1>2, <1>9, <2>2, TailShows
<1> QED BY <1>3, <1>5, <1>6, <1>7, <1>8, <1>9

LEMMA OwnerShows ==
  ASSUME HudInvariant, NEW c \in Calls,
         Poll(c) \/ NewSession(c) \/ Decide(c) \/ AnswerDecision(c)
  PROVE  hud'.shown \in {hud.shown, Nothing}
<1>1. CASE Poll(c)
  <2>1. PICK q \in Chain :
           RefreshSessions(Browser, c, "list", "reconcile") = Await(Browser, c, q)
    BY BrowserPair, ListChain DEF Continuations
  <2>2. Becomes(Await(Browser, c, q)) /\ Await(Browser, c, q).hud = hud
    BY <1>1, <2>1, BrowserPair, AwaitPair DEF Poll
  <2> QED BY <2>2 DEF Becomes
<1>2. CASE NewSession(c)
  <2> DEFINE q == [Idle EXCEPT !.at = "create"]
  <2>1. q \in Chain
    BY IdleType DEF Chain
  <2>2. Becomes(Await(Browser, c, q))
    BY <1>2 DEF NewSession
  <2> HIDE DEF q
  <2>3. Await(Browser, c, q).hud = hud
    BY <2>1, BrowserPair, AwaitPair
  <2> QED BY <2>2, <2>3 DEF Becomes
<1>3. CASE Decide(c)
  <2>1. hud' \in {hud, [hud EXCEPT !.card = NoCard]}
    BY <1>3 DEF Decide, Becomes, Await, Browser
  <2> QED BY <2>1, BrowserPair DEF Huds
<1>4. CASE AnswerDecision(c)
  <2>1. hud' \in {hud, [hud EXCEPT !.card = NoCard, !.shown = Nothing]}
    BY <1>4 DEF AnswerDecision, Becomes, Finish, Browser
  <2> QED BY <2>1, HideCard
<1> QED BY <1>1, <1>2, <1>3, <1>4

LEMMA TurnShows ==
  ASSUME HudInvariant,
         RunStarted \/ ApprovalRequest \/ RunAborted \/ StreamError \/ Reload
  PROVE  hud'.shown \in {hud.shown, Nothing}
<1>1. hud \in Huds
  BY BrowserPair
<1>2. CASE RunStarted
  BY <1>1, <1>2 DEF RunStarted, Becomes, Browser, Huds
<1>3. CASE ApprovalRequest
  BY <1>1, <1>3 DEF ApprovalRequest, Becomes, Browser, Huds
<1>4. CASE RunAborted
  <2> DEFINE h == ClearRunLocator(Off(hud), stream.run)
  <2>1. h.shown \in {hud.shown, Nothing}
    BY <1>4, OverControls DEF RunAborted
  <2>2. hud' = h
    BY <1>4 DEF RunAborted, Becomes, Browser
  <2> QED BY <2>1, <2>2
<1>5. CASE StreamError
  <2>1. hud' = Off(hud)
    BY <1>5 DEF StreamError, Becomes, Browser
  <2> QED BY <1>1, <2>1, OffPair
<1>6. CASE Reload
  <2> DEFINE g == Load(hud.session, hud.locator)
  <2>1. Becomes(Boot(g))
    BY <1>6 DEF Reload
  <2>2. g.shown = Nothing
    BY DEF Load, ArmInterlock
  <2> HIDE DEF g
  <2>3. Boot(g).hud = g
    BY DEF Boot, RefreshSessions, Await
  <2> QED BY <2>1, <2>2, <2>3 DEF Becomes
<1> QED BY <1>2, <1>3, <1>4, <1>5, <1>6

LEMMA HermesShows ==
  ASSUME NEW r \in Runs, NEW s \in Sessions,
         RunEnds(r) \/ RunForgotten(r) \/ DeleteSession(s)
  PROVE  hud' = hud
BY DEF RunEnds, RunForgotten, DeleteSession

-----------------------------------------------------------------------------
\* Every step keeps the invariant; a result that comes to be shown is of the
\* session that is selected, and none older than the newest shown of it.
LEMMA HudStepKeeps ==
  ASSUME HudInvariant, Next
  PROVE  /\ HudInvariant'
         /\ hud'.shown # hud.shown /\ Durable(hud'.shown) =>
               /\ overtaken \/ hud'.shown.session = hud'.session
               /\ Place(hud'.shown) >= newest[hud'.shown.session]
<1> DEFINE Quiet == HudInvariant' /\ hud'.shown \in {hud.shown, Nothing}
           Lands == /\ HudInvariant'
                    /\ hud'.shown # hud.shown /\ Durable(hud'.shown) =>
                          /\ overtaken \/ hud'.shown.session = hud'.session
                          /\ Place(hud'.shown) >= newest[hud'.shown.session]
<1>1. Quiet => Lands
  BY NothingNotDurable
<1>2. ASSUME NEW c \in Calls, Poll(c)
      PROVE  Quiet
  BY <1>2, PollKeeps, OwnerShows
<1>3. ASSUME NEW c \in Calls, AnswerList(c) \/ AnswerHistory(c)
      PROVE  Quiet
  BY <1>3, AnswerListKeeps, AnswerHistoryKeeps, AnswersShow
<1>4. ASSUME NEW c \in Calls, AnswerEvidence(c)
      PROVE  Lands
  BY <1>4, AnswerEvidenceKeeps
<1>5. ASSUME NEW c \in Calls, AnswerStatus(c)
      PROVE  Quiet
  BY <1>5, AnswerStatusKeeps
<1>6. ASSUME NEW c \in Calls, AnswerCreate(c)
      PROVE  Quiet
  BY <1>6, AnswerCreateKeeps
<1>7. ASSUME NEW c \in Calls, AnswerDecision(c)
      PROVE  Quiet
  BY <1>7, AnswerDecisionKeeps, OwnerShows
<1>8. CASE RunStarted
  BY <1>1, <1>8, RunStartedKeeps, TurnShows
<1>9. CASE RunCompleted
  BY <1>9, RunCompletedKeeps
<1>10. CASE RunAborted
  BY <1>1, <1>10, RunAbortedKeeps, TurnShows
<1>11. ASSUME NEW c \in Calls, StreamEnds(c)
       PROVE  Quiet
  BY <1>11, StreamEndsKeeps
<1>12. CASE ApprovalRequest
  BY <1>1, <1>12, ApprovalRequestKeeps, TurnShows
<1>13. CASE StreamError
  BY <1>1, <1>13, StreamErrorKeeps, TurnShows
<1>14. ASSUME NEW c \in Calls, NEW s \in Sessions \cup {NoSession}, Select(c, s)
       PROVE  Quiet
  BY <1>14, SelectKeeps
<1>15. ASSUME NEW c \in Calls, NewSession(c) \/ Decide(c)
       PROVE  Quiet
  BY <1>15, NewSessionKeeps, DecideKeeps, OwnerShows
<1>16. CASE Send
  BY <1>1, <1>16, SendKeeps
<1>17. CASE Reload
  BY <1>1, <1>17, ReloadKeeps, TurnShows
<1>18. ASSUME NEW r \in Runs, RunEnds(r) \/ RunForgotten(r)
       PROVE  Quiet
  BY <1>18, RunEndsKeeps, RunForgottenKeeps DEF RunEnds, RunForgotten
<1>19. ASSUME NEW s \in Sessions, DeleteSession(s)
       PROVE  Quiet
  BY <1>19, DeleteSessionKeeps DEF DeleteSession
<1> HIDE DEF Quiet, Lands
<1>20. CASE \E c \in Calls : Poll(c) \/ Answer(c)
  BY <1>1, <1>2, <1>3, <1>4, <1>5, <1>6, <1>7, <1>20 DEF Answer, Lands
<1>21. CASE Turn \/ ApprovalRequest \/ StreamError
  BY <1>1, <1>8, <1>9, <1>10, <1>11, <1>12, <1>13, <1>21 DEF Turn, Lands
<1>22. CASE Owner
  BY <1>1, <1>14, <1>15, <1>16, <1>17, <1>22 DEF Owner, Lands
<1>23. CASE Hermes
  BY <1>1, <1>18, <1>19, <1>23 DEF Hermes, Lands
<1> QED BY <1>20, <1>21, <1>22, <1>23 DEF Next

\* The inductive invariant holds: what the controls exclude, that a known live
\* run is held on to until a status answer nobody can classify lets it go, and
\* what late answers may still do.
THEOREM HudInvariance == Spec => []HudInvariant
<1>1. ASSUME HudInvariant, UNCHANGED vars
      PROVE  HudInvariant'
  <2>1. /\ runs \in [Runs -> HermesRuns] /\ log \in [Sessions -> Seq(Runs)]
        /\ sessions \in [Sessions -> {"new", "there", "deleted"}]
    BY <1>1 DEF HudInvariant, World, Types
  <2>2. \A t \in Sessions : Len(log[t]) <= Len(log[t])
    BY <2>1, LenProperties
  <2> QED BY <1>1, <2>1, <2>2, HermesKeeps DEF vars, hermes
<1>2. HudInvariant /\ [Next]_vars => HudInvariant'
  BY <1>1, HudStepKeeps
<1> QED BY <1>2, HudInit, PTL DEF Spec

-----------------------------------------------------------------------------
(* The properties.                                                         *)

\* Every variable has its type, what is shown is a result its session holds,
\* and STOP, interlock and an open stream exclude what they exclude.
THEOREM HudTypeHolds == Spec => []HudTypeOK
<1>1. HudInvariant => HudTypeOK
  <2> SUFFICES ASSUME HudInvariant
               PROVE  HudTypeOK
    OBVIOUS
  <2>1. hud \in Huds
    BY BrowserPair
  <2>2. /\ Exclusive(hud, stream, ended)
        /\ Linked(hud, stream, runs, sessions, overtaken) /\ Panel
    BY DEF HudInvariant, Controls
  <2> QED BY <2>1, <2>2 DEF HudTypeOK, Huds, SomeRun, SomeSession, Exclusive,
       Linked, Panel
<1> QED BY <1>1, HudInvariance, PTL

\* An approval card is shown only while the event stream of its run is open
\* and STOP is aimed at that run.
THEOREM CardOnItsTransportHolds == Spec => []CardOnItsTransport
<1>1. HudInvariant => CardOnItsTransport
  BY DEF HudInvariant, Controls, Exclusive, CardOnItsTransport
<1> QED BY <1>1, HudInvariance, PTL

\* STOP is aimed at the run the locator names, in the selected session.
THEOREM LocatorBacksStopHolds == Spec => []LocatorBacksStop
<1>1. HudInvariant => LocatorBacksStop
  BY DEF HudInvariant, Controls, Linked, LocatorBacksStop
<1> QED BY <1>1, HudInvariance, PTL

\* No answer, however late, makes a run active again that the browser saw end.
THEOREM EndedStaysEndedHolds == Spec => []EndedStaysEnded
<1>1. HudInvariant => EndedStaysEnded
  BY DEF HudInvariant, Controls, Exclusive, EndedStaysEnded
<1> QED BY <1>1, HudInvariance, PTL

\* What the panel says of a protected action is true of it.
THEOREM ClaimsTrueHolds == Spec => []ClaimsTrue
<1>1. HudInvariant => ClaimsTrue
  BY DEF HudInvariant, Panel
<1> QED BY <1>1, HudInvariance, PTL

\* Only Send makes a run live.
LEMMA OnlySend ==
  ASSUME HudInvariant, Next, NEW r \in Runs, runs[r].status = "none",
         runs'[r].status = "running"
  PROVE  Send
<1>1. runs \in [Runs -> HermesRuns]
  BY DEF HudInvariant, World, Types
<1>2. runs' # runs
  BY <1>1
<1>3. ~ApprovalRequest
  BY <1>1 DEF ApprovalRequest, HermesRuns
<1>4. ASSUME NEW q \in Runs, RunEnds(q) \/ RunForgotten(q)
      PROVE  FALSE
  <2>1. CASE RunEnds(q)
    <3>1. q # r /\ runs'[r] = runs[r]
      BY <1>1, <2>1 DEF RunEnds, Live
    <3> QED BY <3>1
  <2>2. CASE RunForgotten(q)
    <3>1. q # r /\ runs'[r] = runs[r]
      BY <1>1, <2>2 DEF RunForgotten
    <3> QED BY <3>1
  <2> QED BY <1>4, <2>1, <2>2
<1>5. ASSUME NEW c \in Calls
      PROVE  ~Poll(c) /\ ~Answer(c) /\ ~StreamEnds(c)
                /\ ~NewSession(c) /\ ~Decide(c)
  BY <1>2 DEF Poll, Answer, StreamEnds, NewSession, Decide, AnswerList,
     AnswerHistory, AnswerEvidence, AnswerStatus, AnswerCreate, AnswerDecision,
     hermes
<1>6. \A c \in Calls, s \in Sessions \cup {NoSession} : ~Select(c, s)
  BY <1>2 DEF Select, hermes
<1>7. ~RunStarted /\ ~RunCompleted /\ ~RunAborted /\ ~StreamError /\ ~Reload
  BY <1>2 DEF RunStarted, RunCompleted, RunAborted, StreamError, Reload, hermes
<1>8. \A s \in Sessions : ~DeleteSession(s)
  BY <1>2 DEF DeleteSession
<1> QED BY <1>3, <1>4, <1>5, <1>6, <1>7, <1>8 DEF Next, Turn, Owner, Hermes

\* No turn is submitted to a session while a run of it that the browser knows
\* of is live: not after a broken stream, a failed answer or a reload, not
\* between two answers of a reconnect.  Only a status answer that cannot be
\* classified lets a run go that may be live, by taking it out of known.
THEOREM NoCompetingTurnHolds == Spec => NoCompetingTurn
<1> DEFINE Body == \A r \in Runs :
          runs[r].status = "none" /\ runs'[r].status = "running" /\ ~overtaken =>
              \A q \in known : runs[q].session = runs'[r].session => ~Live(q)
<1>1. ASSUME HudInvariant, Next, NEW r \in Runs, runs[r].status = "none",
             runs'[r].status = "running", ~overtaken, NEW q \in known,
             runs[q].session = runs'[r].session
      PROVE  ~Live(q)
  <2>1. Send
    BY <1>1, OnlySend
  <2>2. /\ q \in Runs /\ runs \in [Runs -> HermesRuns]
        /\ ~Guarded(q, runs, sessions, known, overtaken)
    BY <1>1, <2>1, FreeControls DEF Send, HudInvariant, World, Types
  <2>3. PICK t \in Runs : runs' = [runs EXCEPT ![t] =
                       [NewRun(hud.session) EXCEPT
                           !.status = IF sessions[hud.session] = "there"
                                      THEN "running" ELSE "gone"]]
    BY <2>1 DEF Send
  <2>4. t = r
    BY <1>1, <2>2, <2>3
  <2>5. runs'[r].session = hud.session /\ sessions[hud.session] = "there"
    BY <1>1, <2>2, <2>3, <2>4 DEF NewRun
  <2> QED BY <1>1, <2>2, <2>5 DEF Guarded, Live
<1>2. HudInvariant /\ [Next]_vars => Body
  BY <1>1 DEF vars, hermes
<1>3. NoCompetingTurn <=> [][Body]_vars
  BY DEF NoCompetingTurn
<1> HIDE DEF Body
<1> QED BY <1>2, <1>3, HudInvariance, PTL DEF Spec

\* A result comes to be shown only under the session that holds it.
THEOREM EvidenceLandsHolds == Spec => EvidenceLands
<1> DEFINE Body == hud'.shown # hud.shown /\ Durable(hud'.shown) /\ ~overtaken =>
                      hud'.shown.session = hud'.session
<1>1. HudInvariant /\ [Next]_vars => Body
  BY HudStepKeeps DEF vars
<1>2. EvidenceLands <=> [][Body]_vars
  BY DEF EvidenceLands
<1> HIDE DEF Body
<1> QED BY <1>1, <1>2, HudInvariance, PTL DEF Spec

\* What is shown of a session never goes back to an earlier result.
THEOREM NeverOlderHolds == Spec => NeverOlder
<1> DEFINE Body == hud'.shown # hud.shown /\ Durable(hud'.shown) =>
                      Place(hud'.shown) >= newest[hud'.shown.session]
<1>1. HudInvariant /\ [Next]_vars => Body
  BY HudStepKeeps DEF vars
<1>2. NeverOlder <=> [][Body]_vars
  BY DEF NeverOlder
<1> HIDE DEF Body
<1> QED BY <1>1, <1>2, HudInvariance, PTL DEF Spec
=============================================================================
