------------------------ MODULE ApprovalGate_proofs -------------------------
(***************************************************************************)
(* Proofs about ApprovalGate, for any number of threads, plans and keys,   *)
(* any attempt limit and any time to live.                                 *)
(***************************************************************************)
EXTENDS ApprovalGate, TLAPS

-----------------------------------------------------------------------------
(* The inductive invariant.                                                *)

\* A decision that may stand behind a marker: this request's own, exact,
\* unshared "once".
Good(w) == /\ decision[w] \in Decision
           /\ decision[w].choice = "once"
           /\ decision[w].shown = call[w].plan
           /\ ~decision[w].shared

\* A waiting call owns its entry of the attempt table; no one else does.
Owner == /\ \A w \in Threads : pc[w] # "idle" => call[w].plan \in Plans
         /\ \A w \in Threads : pc[w] \in Waiting =>
                /\ call[w].key \in used
                /\ attempts[call[w].key] # None
                /\ attempts[call[w].key].description = call[w].plan
         /\ \A v, w \in Threads :
                v # w /\ pc[v] \in Waiting /\ pc[w] \in Waiting =>
                    call[v].key # call[w].key
         /\ \A k \in Keys : attempts[k] # None =>
                \E w \in Threads : pc[w] \in Waiting /\ call[w].key = k

\* An event about a waiting call's attempt reports that call's decision.
Truthful == /\ \A e \in hooks : e.key \in used
            /\ \A e \in hooks, w \in Threads :
                   pc[w] \in Waiting /\ call[w].key = e.key =>
                       /\ decision[w] \in Decision
                       /\ decision[w].choice = e.choice
                       /\ decision[w].shown = e.description
                       /\ decision[w].shared = e.coalesced

\* A marker, and a call past the gate, has a good decision behind it.
Behind == \A w \in Threads :
    /\ pc[w] \in Waiting /\ attempts[call[w].key].once => Good(w)
    /\ Passed(w) => Good(w) /\ call[w].key \in Keys
    /\ pc[w] \in {"idle", "register"} => decision[w] = None

\* A live preview was at most as old when the human decided about it.
InTime == \A w \in Threads :
    /\ pc[w] = "idle" => call[w].plan = None
    /\ decision[w] # None /\ planAge[call[w].plan] # None =>
           decision[w].planAge # None /\ decision[w].planAge <= planAge[call[w].plan]

Inv == TypeOK /\ Owner /\ Truthful /\ Behind /\ InTime

-----------------------------------------------------------------------------
(* Pieces the steps share.                                                 *)

LEMMA LookupType ==
    ASSUME TypeOK, NEW p \in Plans, Lookup(p)
    PROVE  /\ planAge' \in [Plans -> (0..(TTL + 1)) \cup {None}]
           /\ \A q \in Plans : planAge'[q] \in {planAge[q], None}
  BY DEF TypeOK, Lookup

\* A call that returns without touching the table was not waiting.
LEMMA ReturnInv ==
    ASSUME Inv, NEW w \in Threads, Return(w), pc[w] \notin Waiting,
           planAge' \in [Plans -> (0..(TTL + 1)) \cup {None}],
           \A q \in Plans : planAge'[q] \in {planAge[q], None},
           UNCHANGED <<attempts, used, hooks>>, spent' \subseteq Keys
    PROVE  Inv'
<1> USE DEF Inv
<1>1. TypeOK'
  BY DEF TypeOK, Return, NoCall
<1>2. \A v \in Threads : v # w => pc'[v] = pc[v] /\ call'[v] = call[v]
                                  /\ decision'[v] = decision[v]
  BY DEF TypeOK, Return
<1>3. pc'[w] = "idle" /\ call'[w] = NoCall /\ decision'[w] = None
  BY DEF TypeOK, Return
<1>4. "idle" \notin Waiting
  BY DEF Waiting
<1>5. Owner'
  BY <1>2, <1>3, <1>4 DEF Owner
<1>6. Truthful'
  BY <1>2, <1>3, <1>4 DEF Truthful
<1>7. Behind'
  BY <1>2, <1>3, <1>4 DEF Behind, Passed, Good
<1>8. InTime'
  <2> SUFFICES ASSUME NEW v \in Threads, v # w, decision[v] # None,
                      planAge'[call[v].plan] # None
               PROVE  decision[v].planAge # None
                      /\ decision[v].planAge <= planAge'[call[v].plan]
    BY <1>2, <1>3 DEF InTime, NoCall
  <2>1. call[v].plan \in Plans
    BY DEF Behind, Owner
  <2> QED BY <2>1 DEF InTime
<1> QED BY <1>1, <1>5, <1>6, <1>7, <1>8

\* A call that moves on outside the waiting room, or within it, without
\* touching anything but the age of its plan.
LEMMA MoveInv ==
    ASSUME Inv, NEW w \in Threads, NEW l, Goto(w, l),
           planAge' \in [Plans -> (0..(TTL + 1)) \cup {None}],
           \A q \in Plans : planAge'[q] \in {planAge[q], None},
           \/ pc[w] \in Waiting /\ l \in Waiting
           \/ pc[w] \notin Waiting /\ pc[w] \notin {"idle", "register"}
              /\ l \in {"consume", "revalidate", "execute"},
           l \in {"pop_approved", "consume", "revalidate", "execute"} => Good(w),
           UNCHANGED <<attempts, used, hooks, call, decision>>,
           approved' \in [Threads -> BOOLEAN], spent' \subseteq Keys
    PROVE  Inv'
<1> USE DEF Inv
<1>1. TypeOK'
  BY DEF TypeOK, Goto, Waiting
<1>2. /\ \A v \in Threads : v # w => pc'[v] = pc[v]
      /\ pc'[w] = l
  BY DEF TypeOK, Goto
<1>3. /\ pc[w] # "idle" /\ l # "idle"
      /\ l \in Waiting <=> pc[w] \in Waiting
  BY DEF Waiting
<1>4. Owner'
  BY <1>2, <1>3 DEF Owner
<1>5. Truthful'
  BY <1>2, <1>3 DEF Truthful
<1>6. Behind'
  <2>1. l \in {"pop_approved", "consume", "revalidate", "execute"} =>
            call[w].key \in Keys
    BY DEF Behind, Passed, Owner, TypeOK, Waiting
  <2> QED BY <1>2, <1>3, <2>1 DEF Behind, Passed, Good, Waiting
<1>7. InTime'
  <2> SUFFICES ASSUME NEW v \in Threads, decision[v] # None,
                      planAge'[call[v].plan] # None
               PROVE  decision[v].planAge # None
                      /\ decision[v].planAge <= planAge'[call[v].plan]
    BY <1>2, <1>3 DEF InTime
  <2>1. call[v].plan \in Plans
    BY DEF Behind, Owner
  <2> QED BY <2>1 DEF InTime
<1> QED BY <1>1, <1>4, <1>5, <1>6, <1>7

LEMMA Unchanged ==
    ASSUME TypeOK
    PROVE  /\ planAge \in [Plans -> (0..(TTL + 1)) \cup {None}]
           /\ \A q \in Plans : planAge[q] \in {planAge[q], None}
           /\ approved \in [Threads -> BOOLEAN] /\ spent \subseteq Keys
  BY DEF TypeOK

-----------------------------------------------------------------------------
(* Each action keeps the invariant.                                        *)

LEMMA CallInv ==
    ASSUME Inv, NEW w \in Threads, NEW p \in Plans, Call(w, p)
    PROVE  Inv'
<1> USE DEF Inv
<1>1. /\ planAge' \in [Plans -> (0..(TTL + 1)) \cup {None}]
      /\ \A q \in Plans : planAge'[q] \in {planAge[q], None}
  BY LookupType DEF Call
<1>2. /\ pc[w] = "idle" /\ UNCHANGED <<attempts, used, hooks, approved, decision, spent>>
      /\ \/ UNCHANGED <<pc, call>>
         \/ /\ pc' = [pc EXCEPT ![w] = "register"]
            /\ call' = [call EXCEPT ![w] = [plan |-> p, key |-> None]]
  BY DEF Call, Goto
<1>3. TypeOK'
  BY <1>1, <1>2 DEF TypeOK
<1>4. \A v \in Threads : v # w => pc'[v] = pc[v] /\ call'[v] = call[v]
  BY <1>2 DEF TypeOK
<1>5. /\ pc'[w] \notin Waiting /\ pc[w] \notin Waiting /\ ~Passed(w)'
      /\ pc'[w] # "idle" => call'[w].plan \in Plans
      /\ pc'[w] = "idle" => call'[w].plan = None
      /\ pc'[w] \in {"idle", "register"} /\ decision[w] = None
  BY <1>2 DEF TypeOK, Waiting, Passed, Behind, InTime
<1>6. Owner'
  BY <1>2, <1>4, <1>5 DEF Owner
<1>7. Truthful'
  BY <1>2, <1>4, <1>5 DEF Truthful
<1>8. Behind'
  BY <1>2, <1>4, <1>5 DEF Behind, Passed, Good
<1>9. InTime'
  <2> SUFFICES ASSUME NEW v \in Threads, v # w, decision[v] # None,
                      planAge'[call[v].plan] # None
               PROVE  decision[v].planAge # None
                      /\ decision[v].planAge <= planAge'[call[v].plan]
    BY <1>2, <1>4, <1>5 DEF InTime
  <2>1. call[v].plan \in Plans
    BY DEF Behind, Owner
  <2> QED BY <1>1, <2>1 DEF InTime
<1> QED BY <1>3, <1>6, <1>7, <1>8, <1>9

LEMMA RegisterInv ==
    ASSUME Inv, NEW w \in Threads, Register(w)
    PROVE  Inv'
<1> USE DEF Inv
<1>0. pc[w] = "register" /\ pc[w] \notin Waiting /\ call[w].plan \in Plans
  BY DEF Register, Waiting, Owner
<1>1. /\ planAge' \in [Plans -> (0..(TTL + 1)) \cup {None}]
      /\ \A q \in Plans : planAge'[q] \in {planAge[q], None}
  BY <1>0, LookupType DEF Register
<1>2. CASE Return(w) /\ UNCHANGED <<attempts, used>>
  BY <1>0, <1>1, <1>2, ReturnInv, Unchanged DEF Register
<1>3. CASE ~(Return(w) /\ UNCHANGED <<attempts, used>>)
  <2>1. PICK k \in Keys :
          /\ KeyIsNew(k)
          /\ attempts' = [attempts EXCEPT ![k] =
                 [description |-> call[w].plan, age |-> 0, once |-> FALSE]]
          /\ used' = used \cup {k}
          /\ call' = [call EXCEPT ![w].key = k]
          /\ pc' = [pc EXCEPT ![w] = "asking"]
          /\ UNCHANGED <<hooks, approved, decision, spent>>
    BY <1>3 DEF Register, Goto
  <2>2. [description |-> call[w].plan, age |-> 0, once |-> FALSE] \in Entry
    BY <1>0, TTLAssumption DEF Entry
  <2>3. TypeOK'
    BY <1>1, <2>1, <2>2 DEF TypeOK, Waiting
  <2> DEFINE fresh == [description |-> call[w].plan, age |-> 0, once |-> FALSE]
  <2>31. attempts'[k] = fresh /\ \A j \in Keys : j # k => attempts'[j] = attempts[j]
    BY <2>1 DEF TypeOK
  <2>32. fresh # None /\ fresh.description = call[w].plan /\ fresh.once = FALSE
    BY <2>2, AbsenceAssumption
  <2>33. /\ \A v \in Threads : v # w => pc'[v] = pc[v] /\ call'[v] = call[v]
         /\ pc'[w] = "asking" /\ call'[w].key = k /\ call'[w].plan = call[w].plan
    BY <2>1 DEF TypeOK
  <2> HIDE DEF fresh
  <2>4. /\ \A v \in Threads : v # w => pc'[v] = pc[v] /\ call'[v] = call[v]
        /\ pc'[w] = "asking" /\ call'[w].key = k /\ call'[w].plan = call[w].plan
        /\ \A j \in Keys : j # k => attempts'[j] = attempts[j]
        /\ attempts'[k] # None /\ attempts'[k].description = call[w].plan
        /\ attempts'[k].once = FALSE
    BY <2>31, <2>32, <2>33
  <2>5. k \notin used /\ attempts[k] = None
    BY <2>1 DEF KeyIsNew, Owner, TypeOK
  <2>6. Owner'
    <3>1. \A v \in Threads : pc'[v] \in Waiting /\ v # w =>
              call[v].key # k /\ call[v].key \in Keys /\ pc[v] \in Waiting
      BY <2>4, <2>5 DEF Owner, TypeOK
    <3> QED BY <1>0, <2>1, <2>4, <3>1 DEF Owner, Waiting
  <2>7. Truthful'
    BY <2>1, <2>4, <2>5 DEF Truthful, Waiting
  <2>8. decision[w] = None
    BY <1>0 DEF Behind
  <2>9. Behind'
    <3>1. \A v \in Threads : pc[v] \in Waiting /\ v # w =>
              call[v].key # k /\ call[v].key \in Keys
      BY <2>5 DEF Owner, TypeOK
    <3> QED BY <2>1, <2>4, <2>8, <3>1 DEF Behind, Passed, Good, Waiting
  <2>10. InTime'
    <3> SUFFICES ASSUME NEW v \in Threads, decision[v] # None, v # w,
                        planAge'[call[v].plan] # None
                 PROVE  decision[v].planAge # None
                        /\ decision[v].planAge <= planAge'[call[v].plan]
      BY <2>1, <2>4, <2>8 DEF InTime
    <3>1. call[v].plan \in Plans
      BY DEF Behind, Owner
    <3> QED BY <1>1, <3>1 DEF InTime
  <2> QED BY <2>3, <2>6, <2>7, <2>9, <2>10
<1> QED BY <1>2, <1>3

LEMMA ObserveInv ==
    ASSUME Inv, NEW w \in Threads, Observe(w)
    PROVE  Inv'
<1>1. pc[w] \in Waiting
  BY DEF Observe, Waiting
<1>2. Authorizes(w) => Good(w)
  BY <1>1 DEF Inv, Behind, Authorizes
<1> DEFINE l == IF Authorizes(w) THEN "pop_approved" ELSE "pop_refused"
<1>3. l \in Waiting /\ (l \in {"pop_approved", "consume", "revalidate", "execute"} => Good(w))
  BY <1>2 DEF Waiting
<1>4. Goto(w, l) /\ UNCHANGED <<planAge, attempts, used, hooks, call, approved, decision, spent>>
  BY DEF Observe
<1> HIDE DEF l
<1> QED BY <1>1, <1>3, <1>4, MoveInv, Unchanged DEF Inv

LEMMA FinishInv ==
    ASSUME Inv, NEW w \in Threads, Finish(w)
    PROVE  Inv'
<1> USE DEF Inv
<1>1. /\ pc[w] \in {"pop_approved", "pop_refused"} /\ pc[w] \in Waiting
      /\ attempts' = [attempts EXCEPT ![call[w].key] = None]
      /\ UNCHANGED <<planAge, used, hooks, spent>>
      /\ \/ /\ pc[w] = "pop_approved" /\ pc' = [pc EXCEPT ![w] = "consume"]
            /\ UNCHANGED <<call, approved, decision>>
         \/ Return(w)
  BY DEF Finish, Pop, Goto, Waiting
<1>2. TypeOK'
  <2>1. CASE Return(w)
    BY <1>1, <2>1 DEF TypeOK, Return, NoCall
  <2>2. CASE ~Return(w)
    BY <1>1, <2>2 DEF TypeOK
  <2> QED BY <2>1, <2>2
<1>3. /\ \A v \in Threads : v # w => pc'[v] = pc[v] /\ call'[v] = call[v]
                                     /\ decision'[v] = decision[v]
      /\ pc'[w] \notin Waiting
      /\ \/ pc'[w] = "idle" /\ call'[w].plan = None /\ decision'[w] = None
         \/ /\ pc'[w] = "consume" /\ call'[w] = call[w] /\ decision'[w] = decision[w]
            /\ pc[w] = "pop_approved"
  <2>1. CASE Return(w)
    BY <1>1, <2>1 DEF TypeOK, Return, NoCall, Waiting
  <2>2. CASE ~Return(w)
    BY <1>1, <2>2 DEF TypeOK, Waiting
  <2> QED BY <2>1, <2>2
<1>4. \A v \in Threads : pc[v] \in Waiting /\ v # w =>
          /\ call[v].key # call[w].key
          /\ attempts'[call[v].key] = attempts[call[v].key]
  BY <1>1 DEF Owner, TypeOK
<1>5. \A k \in Keys : attempts'[k] # None => attempts[k] # None /\ k # call[w].key
  BY <1>1 DEF TypeOK
<1>6. Owner'
  BY <1>1, <1>3, <1>4, <1>5 DEF Owner
<1>7. Truthful'
  BY <1>1, <1>3 DEF Truthful
<1>8. Behind'
  BY <1>1, <1>3, <1>4 DEF Behind, Passed, Good
<1>9. InTime'
  BY <1>1, <1>3 DEF InTime
<1> QED BY <1>2, <1>6, <1>7, <1>8, <1>9

LEMMA ConsumeEvidenceInv ==
    ASSUME Inv, NEW w \in Threads, ConsumeEvidence(w)
    PROVE  Inv'
<1> USE DEF Inv
<1>1. /\ pc[w] = "consume" /\ pc[w] \notin Waiting /\ Good(w)
      /\ call[w].key \in Keys
  BY DEF ConsumeEvidence, Behind, Passed, Waiting
<1>0. spent' \subseteq Keys
  BY <1>1 DEF ConsumeEvidence, TypeOK
<1>2. UNCHANGED <<planAge, attempts, used, hooks>>
  BY DEF ConsumeEvidence
<1>3. CASE Return(w)
  BY <1>0, <1>1, <1>2, <1>3, ReturnInv, Unchanged
<1>4. CASE ~Return(w)
  BY <1>0, <1>1, <1>2, <1>4, MoveInv, Unchanged DEF ConsumeEvidence
<1> QED BY <1>3, <1>4

LEMMA RevalidateInv ==
    ASSUME Inv, NEW w \in Threads, Revalidate(w)
    PROVE  Inv'
<1> USE DEF Inv
<1>1. /\ pc[w] = "revalidate" /\ pc[w] \notin Waiting /\ Good(w)
      /\ call[w].plan \in Plans
  BY DEF Revalidate, Behind, Passed, Waiting, Owner
<1>2. /\ planAge' \in [Plans -> (0..(TTL + 1)) \cup {None}]
      /\ \A q \in Plans : planAge'[q] \in {planAge[q], None}
  BY <1>1, LookupType DEF Revalidate
<1>3. UNCHANGED <<attempts, used, hooks, spent>>
  BY DEF Revalidate
<1>4. CASE Return(w)
  BY <1>1, <1>2, <1>3, <1>4, ReturnInv, Unchanged
<1>5. CASE ~Return(w)
  BY <1>1, <1>2, <1>3, <1>5, MoveInv, Unchanged DEF Revalidate
<1> QED BY <1>4, <1>5

LEMMA ExecuteInv ==
    ASSUME Inv, NEW w \in Threads, Execute(w)
    PROVE  Inv'
  BY ReturnInv, Unchanged DEF Inv, Execute, Waiting

LEMMA GateInv ==
    ASSUME Inv, NEW w \in Threads,
           GateReturns(w) \/ GateReturnsAlone(w) \/ GateRaises(w)
    PROVE  Inv'
<1>1. PICK l \in {"observe", "pop_refused"} : Goto(w, l)
  BY DEF GateReturns, GateReturnsAlone, GateRaises, Results
<1>2. /\ pc[w] \in Waiting /\ l \in Waiting
      /\ UNCHANGED <<planAge, attempts, used, hooks, call, decision, spent>>
  BY <1>1 DEF GateReturns, GateReturnsAlone, GateRaises, Results, Waiting
<1>3. approved' \in [Threads -> BOOLEAN]
  <2>1. CASE GateReturns(w)
    <3>1. (decision[w].choice # "deny") \in BOOLEAN
      OBVIOUS
    <3> QED BY <2>1, <3>1 DEF GateReturns, Results, Inv, TypeOK
  <2>2. CASE GateReturnsAlone(w)
    BY <2>2 DEF GateReturnsAlone, Results, Inv, TypeOK
  <2>3. CASE GateRaises(w)
    BY <2>3 DEF GateRaises, Inv, TypeOK
  <2> QED BY <2>1, <2>2, <2>3
<1> QED BY <1>1, <1>2, <1>3, MoveInv, Unchanged DEF Inv

LEMMA HumanDecidesInv ==
    ASSUME Inv, NEW w \in Threads, HumanDecides(w)
    PROVE  Inv'
<1> USE DEF Inv
<1>1. PICK c \in Choices, x \in {call[w].plan, Altered}, f \in Surfaces,
           shared \in BOOLEAN :
        /\ decision' = [decision EXCEPT ![w] =
               [choice |-> c, shown |-> x, shared |-> shared,
                planAge |-> planAge[call[w].plan]]]
        /\ hooks' = hooks \cup {[key |-> call[w].key, description |-> x,
               choice |-> c, surface |-> f, coalesced |-> shared]}
  BY DEF HumanDecides
<1>2. /\ pc[w] = "asking" /\ pc[w] \in Waiting /\ decision[w] = None
      /\ UNCHANGED <<planAge, attempts, used, pc, call, approved, spent>>
      /\ call[w].plan \in Plans /\ call[w].key \in used /\ call[w].key \in Keys
      /\ x \in Texts /\ ~Passed(w)
  BY DEF HumanDecides, Waiting, Owner, TypeOK, Texts, Passed
<1> DEFINE d == [choice |-> c, shown |-> x, shared |-> shared,
                 planAge |-> planAge[call[w].plan]]
           e == [key |-> call[w].key, description |-> x, choice |-> c,
                 surface |-> f, coalesced |-> shared]
<1>3. d \in Decision
  BY <1>2 DEF Decision, TypeOK
<1>4. e \in Event
  BY <1>2 DEF Event
<1>5. TypeOK'
  BY <1>1, <1>2, <1>3, <1>4 DEF TypeOK
<1>6. Owner'
  BY <1>2 DEF Owner
<1>7. /\ \A v \in Threads : v # w => decision'[v] = decision[v]
      /\ decision'[w] = d
  BY <1>1 DEF TypeOK
<1>8. \A v \in Threads : v # w /\ pc[v] \in Waiting => call[v].key # call[w].key
  BY <1>2 DEF Owner
<1>9. \A g \in hooks : g.key # call[w].key
  BY <1>2, AbsenceAssumption DEF Truthful
<1>10. Truthful'
  <2>1. \A g \in hooks' : g \in hooks \/ g = e
    BY <1>1
  <2>2. \A g \in hooks' : g.key \in used
    BY <2>1, <1>2 DEF Truthful
  <2>3. ASSUME NEW g \in hooks', NEW v \in Threads, pc[v] \in Waiting,
               call[v].key = g.key
        PROVE  /\ decision'[v] \in Decision /\ decision'[v].choice = g.choice
               /\ decision'[v].shown = g.description
               /\ decision'[v].shared = g.coalesced
    <3>1. CASE g = e
      BY <1>3, <1>7, <1>8, <2>3, <3>1
    <3>2. CASE g \in hooks
      BY <1>7, <1>9, <2>3, <3>2 DEF Truthful
    <3> QED BY <2>1, <3>1, <3>2
  <2> QED BY <1>2, <2>2, <2>3 DEF Truthful
<1>11. Behind'
  <2>1. ~attempts[call[w].key].once
    BY <1>2, AbsenceAssumption DEF Behind, Good
  <2> QED BY <1>2, <1>7, <2>1 DEF Behind, Passed, Good, Waiting
<1>12. InTime'
  <2>1. planAge[call[w].plan] # None => planAge[call[w].plan] \in Nat
    BY <1>2, TTLAssumption DEF TypeOK
  <2> QED BY <1>2, <1>7, <2>1 DEF InTime
<1> QED BY <1>5, <1>6, <1>10, <1>11, <1>12

LEMMA PostInv ==
    ASSUME Inv, NEW e \in hooks, PostApprovalResponse(e)
    PROVE  Inv'
<1> USE DEF Inv
<1>1. e.key \in Keys /\ hooks' \subseteq hooks
      /\ UNCHANGED <<planAge, used, pc, call, approved, decision, spent>>
  BY DEF PostApprovalResponse, TypeOK, Event
<1>2. \/ attempts' = attempts
      \/ Matches(e) /\ attempts' = [attempts EXCEPT ![e.key].once = TRUE]
  BY DEF PostApprovalResponse
<1>3. \A k \in Keys : /\ attempts[k] = None <=> attempts'[k] = None
                      /\ attempts[k] # None =>
                             attempts'[k].description = attempts[k].description
                      /\ k # e.key => attempts'[k] = attempts[k]
                      /\ attempts'[k] \in Entry \cup {None}
  <2>1. CASE attempts' = attempts
    BY <2>1 DEF TypeOK
  <2>2. CASE Matches(e) /\ attempts' = [attempts EXCEPT ![e.key].once = TRUE]
    <3>1. attempts[e.key] \in Entry
      BY <1>1, <2>2 DEF Matches, TypeOK
    <3>2. attempts'[e.key] \in Entry /\ attempts'[e.key].description = attempts[e.key].description
      BY <1>1, <2>2, <3>1 DEF TypeOK, Entry
    <3>3. \A k \in Keys : k # e.key => attempts'[k] = attempts[k]
      BY <2>2 DEF TypeOK
    <3> QED BY <1>1, <2>2, <3>1, <3>2, <3>3, AbsenceAssumption DEF Matches, TypeOK
  <2> QED BY <1>2, <2>1, <2>2
<1>4. TypeOK'
  BY <1>1, <1>3, <1>2 DEF TypeOK
<1>5. \A w \in Threads : pc[w] \in Waiting => call[w].key \in Keys
  BY DEF Owner, TypeOK
<1>6. Owner'
  BY <1>1, <1>3, <1>5 DEF Owner
<1>7. Truthful'
  BY <1>1 DEF Truthful
<1>8. Behind'
  <2>1. ASSUME NEW w \in Threads, pc[w] \in Waiting, attempts'[call[w].key].once
        PROVE  Good(w)
    <3>1. CASE attempts[call[w].key].once
      BY <2>1, <3>1 DEF Behind
    <3>2. CASE ~attempts[call[w].key].once
      <4>1. Matches(e) /\ call[w].key = e.key
        BY <1>1, <1>2, <1>5, <2>1, <3>2 DEF TypeOK
      <4>2. /\ decision[w] \in Decision /\ decision[w].choice = "once"
            /\ decision[w].shown = e.description /\ ~decision[w].shared
        BY <2>1, <4>1 DEF Truthful, Matches
      <4>3. e.description = call[w].plan
        BY <2>1, <4>1 DEF Owner, Matches
      <4> QED BY <4>2, <4>3 DEF Good
    <3> QED BY <3>1, <3>2
  <2> QED BY <1>1, <2>1 DEF Behind, Good, Passed
<1>9. InTime'
  BY <1>1 DEF InTime
<1> QED BY <1>4, <1>6, <1>7, <1>8, <1>9

LEMMA CacheInv ==
    ASSUME Inv, NEW p \in Plans, Remember(p) \/ Evict(p)
    PROVE  Inv'
<1> USE DEF Inv
<1>1. /\ UNCHANGED <<attempts, used, hooks, pc, call, approved, decision, spent>>
      /\ planAge' \in [Plans -> (0..(TTL + 1)) \cup {None}]
      /\ \A w \in Threads : decision[w] # None =>
             planAge'[call[w].plan] \in {planAge[call[w].plan], None}
  <2>1. \A w \in Threads : decision[w] # None => call[w].plan \in Plans
    BY DEF Behind, Owner
  <2> QED BY <2>1, TTLAssumption DEF TypeOK, Remember, Evict
<1>2. TypeOK' /\ Owner' /\ Truthful' /\ Behind'
  BY <1>1 DEF TypeOK, Owner, Truthful, Behind, Good, Passed
<1>3. InTime'
  BY <1>1 DEF InTime
<1> QED BY <1>2, <1>3

LEMMA TickInv == ASSUME Inv, Tick PROVE Inv'
<1> USE DEF Inv
<1>1. \A n \in 0..(TTL + 1) : Older(n) \in 0..(TTL + 1) /\ n <= Older(n)
  BY TTLAssumption DEF Older
<1>2. UNCHANGED <<used, hooks, pc, call, approved, decision, spent>>
  BY DEF Tick
<1>3. \A k \in Keys :
          \/ attempts[k] = None /\ attempts'[k] = None
          \/ /\ attempts[k] \in Entry /\ attempts'[k] \in Entry
             /\ attempts'[k].description = attempts[k].description
             /\ attempts'[k].once = attempts[k].once
  BY <1>1 DEF Tick, TypeOK, Entry
<1>4. planAge' \in [Plans -> (0..(TTL + 1)) \cup {None}]
  BY <1>1 DEF Tick, TypeOK
<1>5. attempts' \in [Keys -> Entry \cup {None}]
  BY <1>3 DEF Tick
<1>6. TypeOK'
  BY <1>2, <1>4, <1>5 DEF TypeOK
<1>7. \A w \in Threads : pc[w] \in Waiting => call[w].key \in Keys
  BY DEF Owner, TypeOK
<1>8. Owner'
  BY <1>2, <1>3, <1>7, AbsenceAssumption DEF Owner
<1>9. Truthful'
  BY <1>2 DEF Truthful
<1>10. Behind'
  BY <1>2, <1>3, <1>7, AbsenceAssumption DEF Behind, Owner, Good, Passed
<1>11. InTime'
  <2> SUFFICES ASSUME NEW w \in Threads, decision[w] # None,
                      planAge'[call[w].plan] # None
               PROVE  decision[w].planAge # None
                      /\ decision[w].planAge <= planAge'[call[w].plan]
    BY <1>2 DEF InTime
  <2>1. call[w].plan \in Plans
    BY DEF Behind, Owner
  <2>2. /\ planAge[call[w].plan] # None
        /\ planAge'[call[w].plan] = Older(planAge[call[w].plan])
        /\ planAge[call[w].plan] \in 0..(TTL + 1)
    BY <2>1 DEF Tick, TypeOK
  <2>3. decision[w].planAge \in 0..(TTL + 1)
        /\ decision[w].planAge <= planAge[call[w].plan]
    BY <2>2 DEF InTime, TypeOK, Decision
  <2>4. Older(planAge[call[w].plan]) \in 0..(TTL + 1)
        /\ planAge[call[w].plan] <= Older(planAge[call[w].plan])
    BY <1>1, <2>2
  <2>5. decision[w].planAge <= Older(planAge[call[w].plan])
    BY <2>2, <2>3, <2>4, TTLAssumption
  <2> QED BY <2>2, <2>3, <2>5, AbsenceAssumption
<1> QED BY <1>6, <1>8, <1>9, <1>10, <1>11

-----------------------------------------------------------------------------
(* The theorems.                                                           *)

LEMMA InitInv == Init => Inv
  BY NoneAssumption DEF Init, Inv, TypeOK, Owner, Truthful, Behind, InTime,
                        NoCall, Waiting, Passed

LEMMA NextInv == Inv /\ [Next]_vars => Inv'
<1> SUFFICES ASSUME Inv, [Next]_vars PROVE Inv'
  OBVIOUS
<1>1. CASE \E w \in Threads : Step(w)
  BY <1>1, RegisterInv, ObserveInv, FinishInv, ConsumeEvidenceInv,
     RevalidateInv, ExecuteInv DEF Step
<1>2. CASE \E w \in Threads : Hermes(w)
  BY <1>2, HumanDecidesInv, GateInv DEF Hermes
<1>3. CASE \E w \in Threads, p \in Plans : Call(w, p)
  BY <1>3, CallInv
<1>4. CASE \E e \in hooks : PostApprovalResponse(e)
  BY <1>4, PostInv
<1>5. CASE \E p \in Plans : Remember(p) \/ Evict(p)
  BY <1>5, CacheInv
<1>6. CASE Tick
  BY <1>6, TickInv
<1>7. CASE UNCHANGED vars
  BY <1>7 DEF vars, Inv, TypeOK, Owner, Truthful, Behind, InTime, Good, Passed
<1> QED BY <1>1, <1>2, <1>3, <1>4, <1>5, <1>6, <1>7 DEF Next

THEOREM Invariance == Spec => []Inv
  BY InitInv, NextInv, PTL DEF Spec

\* No call passes the gate without a human "once" given to that very request.
THEOREM OwnDecisionHolds == Spec => []OwnDecision
<1>1. Inv => OwnDecision
  BY AbsenceAssumption DEF Inv, Behind, Good, OwnDecision
<1> QED BY <1>1, Invariance, PTL

\* The decision was about the exact text of the plan and about no other call.
THEOREM ExactAndAloneHolds == Spec => []ExactAndAlone
<1>1. Inv => ExactAndAlone
  BY DEF Inv, Behind, Good, ExactAndAlone
<1> QED BY <1>1, Invariance, PTL

\* The attempt table holds the attempts of waiting calls and nothing else.
THEOREM NoLeakHolds == Spec => []NoLeak
<1>1. Inv => NoLeak
  <2> SUFFICES ASSUME Inv PROVE NoLeak
    OBVIOUS
  <2>1. \A k \in Held : \E w \in Threads : pc[w] \in Waiting /\ call[w].key = k
    BY DEF Inv, Owner, Held
  <2>2. \A w \in Threads : pc[w] \in Waiting => call[w].key \in Held
    BY DEF Inv, Owner, Held, TypeOK
  <2> QED BY <2>1, <2>2 DEF NoLeak
<1> QED BY <1>1, Invariance, PTL

\* A transaction starts only on a decision made while its preview was live.
THEOREM DecidedInTimeHolds == Spec => DecidedInTime
<1> DEFINE Timely == \A w \in Threads :
        pc[w] # "execute" /\ pc'[w] = "execute" => decision[w].planAge \in 0..TTL
<1>1. Inv /\ [Next]_vars => [Timely]_vars
  <2> SUFFICES ASSUME Inv, Next, NEW w \in Threads,
                      pc[w] # "execute", pc'[w] = "execute"
               PROVE  decision[w].planAge \in 0..TTL
    BY DEF vars
  <2>0. pc \in [Threads -> Waiting \cup {"idle", "register", "consume",
                                        "revalidate", "execute"}]
    BY DEF Inv, TypeOK
  <2>1. Revalidate(w) /\ Fresh(call[w].plan)
    <3>1. CASE \E v \in Threads : Revalidate(v)
      <4>1. PICK v \in Threads : Revalidate(v)
        BY <3>1
      <4>2. /\ \A u \in Threads : u # v => pc'[u] = pc[u]
            /\ (pc'[v] = "execute" => Fresh(call[v].plan))
        BY <2>0, <4>1 DEF Revalidate, Goto, Return
      <4>3. v = w
        BY <4>2
      <4>4. Fresh(call[v].plan)
        BY <4>2, <4>3
      <4> QED BY <4>1, <4>3, <4>4
    <3>2. CASE \E v \in Threads : \/ Register(v) \/ Observe(v) \/ Finish(v)
                                  \/ ConsumeEvidence(v) \/ Execute(v) \/ Hermes(v)
                                  \/ \E p \in Plans : Call(v, p)
      <4>1. PICK v \in Threads : \/ Register(v) \/ Observe(v) \/ Finish(v)
                                 \/ ConsumeEvidence(v) \/ Execute(v) \/ Hermes(v)
                                 \/ \E p \in Plans : Call(v, p)
        BY <3>2
      <4>2. \/ pc' = pc
            \/ \E l \in {"register", "asking", "observe", "pop_approved",
                         "pop_refused", "consume", "revalidate", "idle"} :
                   pc' = [pc EXCEPT ![v] = l]
        BY <4>1 DEF Call, Register, Observe, Finish, ConsumeEvidence, Execute,
           Hermes, HumanDecides, GateReturns, GateReturnsAlone, GateRaises,
           Results, Goto, Return
      <4> QED BY <2>0, <4>2
    <3>3. CASE \/ \E e \in hooks : PostApprovalResponse(e)
               \/ \E p \in Plans : Remember(p) \/ Evict(p)
               \/ Tick
      BY <3>3 DEF PostApprovalResponse, Remember, Evict, Tick
    <3> QED BY <3>1, <3>2, <3>3 DEF Next, Step
  <2>2. Good(w) /\ planAge[call[w].plan] # None
    BY <2>1 DEF Inv, Behind, Passed, Revalidate, Fresh
  <2>3. /\ decision[w].planAge \in (0..(TTL + 1)) \cup {None}
        /\ decision[w] # None
    BY <2>2, AbsenceAssumption DEF Good, Decision
  <2>4. /\ decision[w].planAge # None
        /\ decision[w].planAge <= planAge[call[w].plan]
    BY <2>2, <2>3 DEF Inv, InTime
  <2>5. call[w].plan \in Plans
    BY <2>1 DEF Inv, Owner, Revalidate
  <2>6. planAge[call[w].plan] \in 0..TTL
    BY <2>1, <2>2, <2>5, TTLAssumption DEF Inv, TypeOK, Fresh
  <2> QED BY <2>3, <2>4, <2>6, TTLAssumption
<1> QED BY <1>1, Invariance, PTL DEF Spec, DecidedInTime
=============================================================================
