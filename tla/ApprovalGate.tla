---------------------------- MODULE ApprovalGate -----------------------------
(***************************************************************************)
(* The fresh-once approval of the orion-vault-actions plugin: how one call *)
(* of the apply handler turns one human decision, which Hermes reports     *)
(* twice (as the result of a blocking request and as an observer event),   *)
(* into evidence for exactly that call.                                    *)
(*                                                                         *)
(* The handler registers an attempt under a fresh private key, blocks in   *)
(* Hermes, reads whether the observer hook marked the attempt, removes it  *)
(* on every outcome, and revalidates the plan.  Hermes is external: it may *)
(* approve by itself, share one decision among identical prompts, show     *)
(* another text than it was given, raise, and deliver its event early,     *)
(* late, twice or never.                                                   *)
(*                                                                         *)
(* Time is counted in units; ages stop at TTL + 1, which is expired.       *)
(***************************************************************************)
EXTENDS Naturals, FiniteSets

CONSTANTS
    Threads,    \* handler threads
    Plans,      \* previewed plans; a plan's approval message is its identity
    Keys,       \* private attempt keys
    Limit,      \* APPROVAL_ATTEMPT_LIMIT
    TTL,        \* PREVIEW_TTL_SECONDS
    Altered,    \* a text that differs from every approval message
    None        \* no plan, no key, no entry, no decision

ASSUME LimitAssumption == Limit \in Nat \ {0}
ASSUME TTLAssumption == TTL \in Nat
ASSUME NoneAssumption == None \notin Plans \cup Keys /\ Altered \notin Plans

VARIABLES
    planAge,    \* plan -> age of its cached preview, None when not cached
    attempts,   \* _APPROVAL_ATTEMPTS: key -> entry or None
    used,       \* keys drawn so far; secrets.token_hex never repeats one
    hooks,      \* events Hermes has for post_approval_response
    pc,         \* thread -> where its call stands
    call,       \* thread -> plan and key of its call
    approved,   \* thread -> what the blocking request returned
    decision,   \* thread -> what the human decided on this very request
    spent       \* _CANDIDATE_CONSUMED_APPROVAL_ATTEMPTS

vars == <<planAge, attempts, used, hooks, pc, call, approved, decision, spent>>

Choices == {"once", "session", "deny"}
\* "cli" and "gateway" are accepted alike; another surface is not.
Surfaces == {"gateway", "other"}
Texts == Plans \cup {Altered}

Entry == [description : Plans, age : 0..(TTL + 1), once : BOOLEAN]

Event == [key : Keys, description : Texts, choice : Choices,
          surface : Surfaces, coalesced : BOOLEAN]

\* Of a decision: what was chosen, over which text, and whether the human
\* answered this request or an identical one of another call; and how old the
\* preview was then.
Decision == [choice : Choices, shown : Texts, shared : BOOLEAN,
             planAge : (0..(TTL + 1)) \cup {None}]

\* None is none of the things it stands for the absence of.
ASSUME AbsenceAssumption ==
    None \notin Entry /\ None \notin Decision /\ None \notin 0..(TTL + 1)

NoCall == [plan |-> None, key |-> None]

Init ==
    /\ planAge = [p \in Plans |-> None]
    /\ attempts = [k \in Keys |-> None]
    /\ used = {}
    /\ hooks = {}
    /\ pc = [w \in Threads |-> "idle"]
    /\ call = [w \in Threads |-> NoCall]
    /\ approved = [w \in Threads |-> FALSE]
    /\ decision = [w \in Threads |-> None]
    /\ spent = {}

-----------------------------------------------------------------------------
(* The preview cache and the clock.                                        *)

\* A preview is new: its token holds a nonce.
Remember(p) ==
    /\ planAge[p] = None
    /\ \A w \in Threads : call[w].plan # p
    /\ planAge' = [planAge EXCEPT ![p] = 0]
    /\ UNCHANGED <<attempts, used, hooks, pc, call, approved, decision, spent>>

\* Eviction of the oldest of 32 previews.
Evict(p) ==
    /\ planAge[p] # None
    /\ planAge' = [planAge EXCEPT ![p] = None]
    /\ UNCHANGED <<attempts, used, hooks, pc, call, approved, decision, spent>>

Older(a) == IF a > TTL THEN a ELSE a + 1

Tick ==
    /\ planAge' = [p \in Plans |-> IF planAge[p] = None THEN None
                                   ELSE Older(planAge[p])]
    /\ attempts' = [k \in Keys |-> IF attempts[k] = None THEN None
                      ELSE [attempts[k] EXCEPT !.age = Older(attempts[k].age)]]
    /\ UNCHANGED <<used, hooks, pc, call, approved, decision, spent>>

\* Mutant: the cache is trusted without its time.
FreshIfCached(p) == planAge[p] # None

\* _lookup_preview finds the plan.
Fresh(p) == planAge[p] # None /\ planAge[p] <= TTL

\* _lookup_preview drops a plan it finds expired.
Lookup(p) == planAge' = IF Fresh(p) THEN planAge
                        ELSE [planAge EXCEPT ![p] = None]

-----------------------------------------------------------------------------
(* The handler.                                                            *)

Held == {k \in Keys : attempts[k] # None}

Return(w) ==
    /\ pc' = [pc EXCEPT ![w] = "idle"]
    /\ call' = [call EXCEPT ![w] = NoCall]
    /\ approved' = [approved EXCEPT ![w] = FALSE]
    /\ decision' = [decision EXCEPT ![w] = None]

Goto(w, l) == pc' = [pc EXCEPT ![w] = l]

\* The executor is called with a plan and looks it up; a refusal returns at
\* once and leaves no trace but a dropped expired plan.
Call(w, p) ==
    /\ pc[w] = "idle"
    /\ Lookup(p)
    /\ IF Fresh(p)
       THEN /\ Goto(w, "register")
            /\ call' = [call EXCEPT ![w] = [plan |-> p, key |-> None]]
       ELSE UNCHANGED <<pc, call>>
    /\ UNCHANGED <<attempts, used, hooks, approved, decision, spent>>

\* Mutant: a retry of the same plan may meet the key of an earlier attempt.
KeyReused(k) == attempts[k] = None

\* secrets.token_hex(16): no two attempts share a key.
KeyIsNew(k) == k \notin used

\* The plan is looked up again, the table has room, a fresh attempt goes in;
\* the redaction check refuses a message Hermes would alter knowingly.
Register(w) ==
    /\ pc[w] = "register"
    /\ Lookup(call[w].plan)
    /\ \/ /\ Fresh(call[w].plan) /\ Cardinality(Held) < Limit
          /\ \E k \in Keys :
                /\ KeyIsNew(k)
                /\ attempts' = [attempts EXCEPT ![k] =
                       [description |-> call[w].plan, age |-> 0, once |-> FALSE]]
                /\ used' = used \cup {k}
                /\ call' = [call EXCEPT ![w].key = k]
          /\ Goto(w, "asking")
          /\ UNCHANGED <<approved, decision>>
       \/ /\ Return(w)
          /\ UNCHANGED <<attempts, used>>
    /\ UNCHANGED <<hooks, spent>>

\* The result and the marker of the same attempt agree.
Authorizes(w) == approved[w] /\ attempts[call[w].key].once

\* Under the lock the attempt is copied and judged; the finally clause then
\* removes it in a second locked section.
Observe(w) ==
    /\ pc[w] = "observe"
    /\ Goto(w, IF Authorizes(w) THEN "pop_approved" ELSE "pop_refused")
    /\ UNCHANGED <<planAge, attempts, used, hooks, call, approved, decision, spent>>

\* Mutant: the attempt is removed only when it served.
PopIfApproved(w) ==
    attempts' = IF pc[w] = "pop_approved"
                THEN [attempts EXCEPT ![call[w].key] = None] ELSE attempts

Pop(w) == attempts' = [attempts EXCEPT ![call[w].key] = None]

Finish(w) ==
    /\ Pop(w)
    /\ \/ /\ pc[w] = "pop_approved"
          /\ Goto(w, "consume")
          /\ UNCHANGED <<call, approved, decision>>
       \/ /\ pc[w] = "pop_refused"
          /\ Return(w)
    /\ UNCHANGED <<planAge, used, hooks, spent>>

\* The evidence is marked consumed before anything else is done with it.
ConsumeEvidence(w) ==
    /\ pc[w] = "consume"
    /\ IF call[w].key \in spent
       THEN Return(w)
       ELSE /\ Goto(w, "revalidate")
            /\ UNCHANGED <<call, approved, decision>>
    /\ spent' = spent \cup {call[w].key}
    /\ UNCHANGED <<planAge, attempts, used, hooks>>

\* After the human decision: the plan must still be live; the comparison of
\* the documents may also refuse.
Revalidate(w) ==
    /\ pc[w] = "revalidate"
    /\ Lookup(call[w].plan)
    /\ \/ /\ Fresh(call[w].plan)
          /\ Goto(w, "execute")
          /\ UNCHANGED <<call, approved, decision>>
       \/ Return(w)
    /\ UNCHANGED <<attempts, used, hooks, spent>>

\* The protected transaction runs; VaultTransaction has its steps.
Execute(w) ==
    /\ pc[w] = "execute"
    /\ Return(w)
    /\ UNCHANGED <<planAge, attempts, used, hooks, spent>>

-----------------------------------------------------------------------------
(* The observer hook.                                                      *)

\* Mutant: a shared decision counts for every prompt it answered.
MatchesCoalesced(e) ==
    /\ e.choice = "once" /\ e.surface = "gateway"
    /\ attempts[e.key] # None
    /\ attempts[e.key].description = e.description
    /\ attempts[e.key].age <= TTL

\* The event is a fresh human "once" for an attempt that is pending.
Matches(e) ==
    /\ e.choice = "once" /\ e.surface = "gateway" /\ ~e.coalesced
    /\ attempts[e.key] # None
    /\ attempts[e.key].description = e.description
    /\ attempts[e.key].age <= TTL

\* post_approval_response; the event may come again.
PostApprovalResponse(e) ==
    /\ e \in hooks
    /\ hooks' \in {hooks, hooks \ {e}}
    /\ attempts' = IF Matches(e) THEN [attempts EXCEPT ![e.key].once = TRUE]
                   ELSE attempts
    /\ UNCHANGED <<planAge, used, pc, call, approved, decision, spent>>

-----------------------------------------------------------------------------
(* Hermes and the human (external).                                        *)

Results(w, yes) ==
    /\ Goto(w, "observe")
    /\ approved' = [approved EXCEPT ![w] = yes]
    /\ UNCHANGED <<planAge, attempts, used, call, spent>>

\* A human answers the prompt Hermes shows for this request, or an identical
\* prompt whose decision Hermes shares with this request.
HumanDecides(w) ==
    /\ pc[w] = "asking" /\ decision[w] = None
    /\ \E c \in Choices, x \in {call[w].plan, Altered}, f \in Surfaces,
          shared \in BOOLEAN :
        /\ decision' = [decision EXCEPT ![w] =
               [choice |-> c, shown |-> x, shared |-> shared,
                planAge |-> planAge[call[w].plan]]]
        /\ hooks' = hooks \cup {[key |-> call[w].key, description |-> x,
               choice |-> c, surface |-> f, coalesced |-> shared]}
    /\ UNCHANGED <<planAge, attempts, used, pc, call, approved, spent>>

\* The request returns after a decision, early or late with respect to the
\* delivery of its event.
GateReturns(w) ==
    /\ pc[w] = "asking" /\ decision[w] # None
    /\ Results(w, decision[w].choice # "deny")
    /\ UNCHANGED <<hooks, decision>>

\* Yolo, a cached grant, cron, or a timeout: a result without a human, and
\* without an event.
GateReturnsAlone(w) ==
    /\ pc[w] = "asking" /\ decision[w] = None
    /\ \E yes \in BOOLEAN : Results(w, yes)
    /\ UNCHANGED <<hooks, decision>>

\* request_tool_approval raises.
GateRaises(w) ==
    /\ pc[w] = "asking"
    /\ Goto(w, "pop_refused")
    /\ UNCHANGED <<planAge, attempts, used, hooks, call, approved, decision, spent>>

Step(w) == \/ Register(w) \/ Observe(w) \/ Finish(w) \/ ConsumeEvidence(w)
           \/ Revalidate(w) \/ Execute(w)

Hermes(w) == \/ HumanDecides(w) \/ GateReturns(w) \/ GateReturnsAlone(w)
             \/ GateRaises(w)

Next ==
    \/ \E w \in Threads : Step(w) \/ Hermes(w) \/ \E p \in Plans : Call(w, p)
    \/ \E e \in hooks : PostApprovalResponse(e)
    \/ \E p \in Plans : Remember(p) \/ Evict(p)
    \/ Tick

Spec == Init /\ [][Next]_vars

-----------------------------------------------------------------------------
(* Properties.                                                             *)

Waiting == {"asking", "observe", "pop_approved", "pop_refused"}

\* Every variable of the gate keeps its type.
TypeOK ==
    /\ planAge \in [Plans -> (0..(TTL + 1)) \cup {None}]
    /\ attempts \in [Keys -> Entry \cup {None}]
    /\ used \subseteq Keys
    /\ hooks \subseteq Event
    /\ pc \in [Threads -> Waiting \cup {"idle", "register", "consume",
                                        "revalidate", "execute"}]
    /\ call \in [Threads -> [plan : Plans \cup {None}, key : Keys \cup {None}]]
    /\ approved \in [Threads -> BOOLEAN]
    /\ decision \in [Threads -> Decision \cup {None}]
    /\ spent \subseteq Keys

\* The call got past the gate.
Passed(w) == pc[w] \in {"pop_approved", "consume", "revalidate", "execute"}

\* A call that gets past the gate has a human "once" of its own, given to this
\* very request: automatic approvals, session grants, events of other attempts
\* and late, repeated or lost events never stand in for it.
OwnDecision == \A w \in Threads : Passed(w) =>
    decision[w] # None /\ decision[w].choice = "once"

\* That decision was made over the exact text of the plan, and about no other
\* call's prompt: two calls never run on one human answer.
ExactAndAlone == \A w \in Threads : Passed(w) =>
    decision[w].shown = call[w].plan /\ ~decision[w].shared

\* The attempt table holds exactly the attempts of calls that are waiting, so
\* no outcome leaks a slot of the bounded table.
NoLeak == Held = {call[w].key : w \in {v \in Threads : pc[v] \in Waiting}}

\* A transaction starts only on a decision made while the preview it was made
\* about was live.
DecidedInTime == [][\A w \in Threads :
    pc[w] # "execute" /\ pc'[w] = "execute" =>
        decision[w].planAge \in 0..TTL]_vars
=============================================================================
