---------------------- MODULE VaultTransaction_proofs -----------------------
(***************************************************************************)
(* Proofs about VaultTransaction, for any number of calls, plans, paths    *)
(* and file contents.                                                      *)
(***************************************************************************)
EXTENDS VaultTransaction, TLAPS

-----------------------------------------------------------------------------
(* The inductive invariant.                                                *)

\* A call in one of these has made its recovery directory.
Working == Protected \ {"open", "mkdir"}

\* In these the record is whole and prepared, and nothing in it is final.
Ready == Working \ {"backup", "fill_backup", "manifest", "receipt",
                    "fill_receipt", "commit_receipt"}

\* Only previewed plans are cached, recorded or executed.
Planned ==
    /\ \A t \in Tokens : t \in cached \/ rec[t].dir => plan[t] \in Plan
    /\ \A w \in Workers : pc[w] # "idle" => tok[w] \in Tokens /\ plan[tok[w]] \in Plan

\* A recovery directory has one call: the exclusive mkdir gave it away once.
Owned ==
    /\ \A w \in Workers : pc[w] \in Working => rec[tok[w]].dir
    /\ \A v, w \in Workers :
           v # w /\ pc[v] \in Working /\ pc[w] \in Working => tok[v] # tok[w]
    /\ \A w \in Workers : marked[w] => pc[w] = "close"

\* How complete the record of a call is, by where the call stands.
Stands(w) ==
    /\ pc[w] \in {"backup", "fill_backup", "manifest"} =>
           Rec(w).manifest = "none"
    /\ pc[w] \in {"backup", "fill_backup", "manifest", "receipt"} =>
           Rec(w).receipt = "none"
    /\ pc[w] = "manifest" => Rec(w).backup = Evidence(PlanOf(w))
    /\ pc[w] = "fill_receipt" => Rec(w).receipt = "torn"
    /\ pc[w] \in Ready \cup {"receipt", "fill_receipt"} =>
           Rec(w).manifest = "prepared"
    /\ pc[w] \in Ready \cup {"commit_receipt"} => Rec(w).receipt = "prepared"
    /\ pc[w] = "commit_receipt" => Rec(w).manifest = "committed"
    /\ pc[w] \in {"verify", "commit_manifest", "commit_receipt"} =>
           tok[w] \in touched

\* What a record on disk says by itself, whether its call is over or not.
Recorded(t) ==
    /\ ~rec[t].dir => rec[t].manifest = "none"
    /\ rec[t].manifest # "none" => rec[t].backup = Evidence(plan[t])
    /\ rec[t].receipt # "none" => rec[t].manifest # "none"
    /\ rec[t].receipt = "committed" => rec[t].manifest = "committed"
    /\ t \in touched => rec[t].receipt \in {"prepared", "committed"}

Inv ==
    /\ TypeOK
    /\ Planned
    /\ Owned
    /\ \A w \in Workers : Stands(w)
    /\ \A t \in Tokens : Recorded(t)

-----------------------------------------------------------------------------
(* Type correctness.                                                       *)

LEMMA AdvanceType ==
    ASSUME CallTypeOK, NEW w \in Workers, NEW l \in Places, Advance(w, l)
    PROVE  CallTypeOK'
  BY DEF CallTypeOK, Advance, Goto

LEMMA LeaveType ==
    ASSUME CallTypeOK, NEW w \in Workers, NEW m \in BOOLEAN, NEW r \in BOOLEAN,
           Leave(w, m, r)
    PROVE  CallTypeOK'
  BY DEF CallTypeOK, Leave, Goto, Outcome, Places

LEMMA RefuseType ==
    ASSUME CallTypeOK, NEW w \in Workers, Refuse(w)
    PROVE  CallTypeOK'
  BY LeaveType DEF Refuse

\* A call starts the change: the pattern of four of its steps.
LEMMA StartType ==
    ASSUME CallTypeOK, NEW w \in Workers, NEW l \in Places, NEW b \in BOOLEAN,
           Goto(w, l), started' = [started EXCEPT ![w] = b],
           UNCHANGED <<tok, made, guard, marked, result, did>>
    PROVE  CallTypeOK'
  BY DEF CallTypeOK, Goto

\* Every place an action names is a place.
LEMMA PlaceNames ==
    /\ Protected \subseteq Places
    /\ {"idle", "approve", "revalidate", "inventory"} \subseteq Places
  BY DEF Places

LEMMA StepCallType ==
    ASSUME Inv, NEW w \in Workers, Step(w)
    PROVE  CallTypeOK'
<1> USE DEF Inv, TypeOK
<1>0. PlanOf(w) \in Plan \/ pc[w] = "idle"
  BY DEF Planned, PlanOf
<1>1. CASE Approve(w)
  BY <1>1, AdvanceType, RefuseType DEF Approve, Places
<1>2. CASE Revalidate(w)
  BY <1>2, AdvanceType, RefuseType DEF Revalidate, Places
<1>3. CASE Inventory(w)
  BY <1>3, AdvanceType, RefuseType DEF Inventory, Places, Protected
<1>4. CASE Open(w)
  <2>1. CASE Refuse(w)
    BY <2>1, RefuseType
  <2>2. CASE ~Refuse(w)
    <3>1. Source(PlanOf(w)) \in Paths \cup {NoPath}
      BY <1>0, <1>4 DEF Open, Source, Plan, Paths
    <3> QED BY <1>4, <2>2, <3>1 DEF CallTypeOK, Open, Goto, Places, Protected
  <2> QED BY <2>1, <2>2
<1>5. CASE MakeDir(w)
  <2>1. CASE Refuse(w)
    BY <2>1, RefuseType
  <2>2. CASE ~Refuse(w)
    BY <1>5, <2>2 DEF CallTypeOK, MakeDir, Goto, Places, Protected
  <2> QED BY <2>1, <2>2
<1>6. CASE WriteBackup(w)
  BY <1>6, AdvanceType DEF WriteBackup, Write, Places, Protected
<1>7. CASE PrepareManifest(w)
  BY <1>7, AdvanceType DEF PrepareManifest, Write, Places, Protected
<1>8. CASE PrepareReceipt(w)
  BY <1>8, AdvanceType DEF PrepareReceipt, Write, Places, Protected
<1>9. CASE Consume(w)
  <2>1. CASE Refuse(w)
    BY <2>1, RefuseType
  <2>2. CASE ~Refuse(w)
    <3>1. (PlanOf(w).act = "restore_move_source") \in BOOLEAN
      OBVIOUS
    <3>2. Branch(PlanOf(w)) \in Places
      BY DEF Branch, Places, Protected
    <3> QED BY <1>9, <2>2, <3>1, <3>2, StartType DEF Consume
  <2> QED BY <2>1, <2>2
<1>10. CASE WriteTemp(w)
  BY <1>10, AdvanceType DEF WriteTemp, Places, Protected
<1>11. CASE Check(w)
  BY <1>11, StartType, LeaveType DEF Check, Places, Protected
<1>12. CASE Replace(w)
  BY <1>12 DEF Replace, CallTypeOK, Goto, Put, Places, Protected
<1>13. CASE CheckAbsent(w)
  BY <1>13, StartType, LeaveType DEF CheckAbsent, Places, Protected
<1>14. CASE Create(w)
  <2>1. CASE Leave(w, FALSE, TRUE)
    BY <2>1, LeaveType
  <2>2. CASE ~Leave(w, FALSE, TRUE)
    BY <1>14, <2>2 DEF Create, CallTypeOK, Goto, Put, Places, Protected
  <2> QED BY <2>1, <2>2
<1>15. CASE Fill(w)
  BY <1>15 DEF Fill, CallTypeOK, Goto, Put, Places, Protected
<1>16. CASE CheckLanded(w)
  BY <1>16, AdvanceType, LeaveType DEF CheckLanded, Places, Protected
<1>17. CASE Recheck(w)
  <2>1. started[w] \in BOOLEAN
    BY DEF CallTypeOK
  <2> QED BY <1>17, <2>1, StartType, LeaveType DEF Recheck, Places, Protected
<1>18. CASE MarkDelete(w)
  BY <1>18 DEF MarkDelete, CallTypeOK, Goto, Places, Protected
<1>19. CASE CloseHandle(w)
  BY <1>19 DEF CloseHandle, CallTypeOK, Goto, Put, Places, Protected
<1>20. CASE Verify(w)
  BY <1>20, AdvanceType, LeaveType DEF Verify, Places, Protected
<1>21. CASE CommitManifest(w)
  BY <1>21, AdvanceType DEF CommitManifest, Write, Places, Protected
<1>22. CASE CommitReceipt(w)
  BY <1>22 DEF CommitReceipt, CallTypeOK, Goto, Places, Outcome
<1>23. CASE Fail(w)
  BY <1>23 DEF Fail, CallTypeOK, Goto, Put, Places, Outcome, RecoveryRequired
<1> QED
  BY <1>1, <1>2, <1>3, <1>4, <1>5, <1>6, <1>7, <1>8, <1>9, <1>10, <1>11,
     <1>12, <1>13, <1>14, <1>15, <1>16, <1>17, <1>18, <1>19, <1>20, <1>21,
     <1>22, <1>23 DEF Step

\* The values the recovery record takes.
LEMMA RecordUpdates ==
    ASSUME NEW r \in Record, NEW c \in Content
    PROVE  /\ [r EXCEPT !.dir = TRUE] \in Record
           /\ [r EXCEPT !.backup = c] \in Record
           /\ [r EXCEPT !.manifest = "prepared"] \in Record
           /\ [r EXCEPT !.manifest = "committed"] \in Record
           /\ [r EXCEPT !.receipt = "torn"] \in Record
           /\ [r EXCEPT !.receipt = "prepared"] \in Record
           /\ [r EXCEPT !.receipt = "committed"] \in Record
  BY DEF Record

LEMMA PlanContents ==
    ASSUME NEW p \in Plan
    PROVE  /\ p.before \in Content /\ p.after \in Content
           /\ Evidence(p) \in Data \cup {Absent}
           /\ Torn \in Content /\ Absent \in Content
  BY DEF Plan, Content, Evidence

LEMMA WriteType ==
    ASSUME DiskTypeOK, NEW w \in Workers, tok[w] \in Tokens, NEW r \in Record,
           NEW l, Write(w, r, l)
    PROVE  DiskTypeOK'
  BY DEF DiskTypeOK, Write

\* A document is given complete or torn contents.
LEMMA PutType ==
    ASSUME DiskTypeOK, NEW w \in Workers, tok[w] \in Tokens, NEW x,
           NEW c \in Content, Put(w, x, c)
    PROVE  fs' \in [Paths -> Content] /\ touched' \subseteq Tokens
  BY DEF DiskTypeOK, Put

LEMMA StepDiskType ==
    ASSUME Inv, NEW w \in Workers, Step(w)
    PROVE  DiskTypeOK'
<1> USE DEF Inv, TypeOK
<1>0. pc[w] # "idle"
  BY DEF Step, Approve, Revalidate, Inventory, Open, MakeDir, WriteBackup,
         PrepareManifest, PrepareReceipt, Consume, WriteTemp, Check, Replace,
         CheckAbsent, Create, Fill, CheckLanded, Recheck, MarkDelete,
         CloseHandle, Verify, CommitManifest, CommitReceipt, Fail, Protected
<1>a. tok[w] \in Tokens /\ PlanOf(w) \in Plan
  BY <1>0 DEF Planned, PlanOf
<1>b. /\ PlanOf(w).after \in Content /\ Evidence(PlanOf(w)) \in Content
      /\ Torn \in Content /\ Absent \in Content
  BY <1>a, PlanContents DEF Content
<1>c. Rec(w) \in Record /\ temp[tok[w]] \in Content
  BY <1>a DEF Rec, DiskTypeOK
<1>1. CASE UNCHANGED <<fs, temp, rec, plan, cached, touched>> /\
           (consumed' = consumed \/ consumed' = consumed \cup {tok[w]})
  BY <1>1, <1>a DEF DiskTypeOK
<1>2. CASE Approve(w) \/ Revalidate(w) \/ Inventory(w) \/ Open(w) \/ Consume(w)
           \/ CheckAbsent(w) \/ CheckLanded(w) \/ Recheck(w) \/ MarkDelete(w)
           \/ Verify(w)
  BY <1>1, <1>2 DEF Approve, Revalidate, Inventory, Open, Consume, CheckAbsent,
                    CheckLanded, Recheck, MarkDelete, Verify, OnlyCall
<1>3. CASE MakeDir(w)
  <2>1. [rec[tok[w]] EXCEPT !.dir = TRUE] \in Record
    BY <1>b, <1>c, RecordUpdates DEF Rec
  <2>2. rec' = [rec EXCEPT ![tok[w]] = [rec[tok[w]] EXCEPT !.dir = TRUE]]
        \/ rec' = rec
    BY <1>3 DEF MakeDir
  <2>3. UNCHANGED <<fs, temp, plan, cached, consumed, touched>>
    BY <1>3 DEF MakeDir
  <2> QED BY <2>1, <2>2, <2>3, <1>a DEF DiskTypeOK
<1>4. CASE WriteBackup(w)
  <2>1. [Rec(w) EXCEPT !.backup = Torn] \in Record
    BY <1>b, <1>c, RecordUpdates
  <2>2. [Rec(w) EXCEPT !.backup = Evidence(PlanOf(w))] \in Record
    BY <1>b, <1>c, RecordUpdates
  <2> QED BY <1>4, <1>a, <2>1, <2>2, WriteType DEF WriteBackup
<1>5. CASE PrepareManifest(w)
  <2>1. [Rec(w) EXCEPT !.manifest = "prepared"] \in Record
    BY <1>b, <1>c, RecordUpdates
  <2> QED BY <1>5, <1>a, <2>1, WriteType DEF PrepareManifest
<1>6. CASE PrepareReceipt(w)
  <2>1. [Rec(w) EXCEPT !.receipt = "torn"] \in Record
    BY <1>b, <1>c, RecordUpdates
  <2>2. [Rec(w) EXCEPT !.receipt = "prepared"] \in Record
    BY <1>b, <1>c, RecordUpdates
  <2> QED BY <1>6, <1>a, <2>1, <2>2, WriteType DEF PrepareReceipt
<1>7. CASE WriteTemp(w)
  BY <1>7, <1>a, <1>b DEF WriteTemp, DiskTypeOK
<1>8. CASE Check(w)
  BY <1>8, <1>a, <1>b DEF Check, DropTemp, DiskTypeOK
<1>9. CASE Replace(w)
  <2>1. fs' \in [Paths -> Content] /\ touched' \subseteq Tokens
    BY <1>9, <1>a, <1>b, <1>c, PutType DEF Replace
  <2> QED BY <1>9, <1>a, <1>b, <2>1 DEF Replace, DropTemp, DiskTypeOK
<1>10. CASE Create(w)
  <2>1. fs' \in [Paths -> Content] /\ touched' \subseteq Tokens
    BY <1>10, <1>a, <1>b, PutType DEF Create, DiskTypeOK
  <2> QED BY <1>10, <2>1 DEF Create, DiskTypeOK
<1>11. CASE Fill(w)
  <2>1. fs' \in [Paths -> Content] /\ touched' \subseteq Tokens
    BY <1>11, <1>a, <1>b, PutType DEF Fill
  <2> QED BY <1>11, <2>1 DEF Fill, DiskTypeOK
<1>12. CASE CloseHandle(w)
  <2>1. fs' \in [Paths -> Content] /\ touched' \subseteq Tokens
    BY <1>12, <1>a, <1>b, PutType DEF CloseHandle
  <2> QED BY <1>12, <2>1 DEF CloseHandle, DiskTypeOK
<1>13. CASE CommitManifest(w)
  <2>1. [Rec(w) EXCEPT !.manifest = "committed"] \in Record
    BY <1>b, <1>c, RecordUpdates
  <2> QED BY <1>13, <1>a, <2>1, WriteType DEF CommitManifest
<1>14. CASE CommitReceipt(w)
  <2>1. [rec[tok[w]] EXCEPT !.receipt = "committed"] \in Record
    BY <1>b, <1>c, RecordUpdates DEF Rec
  <2>2. rec' = [rec EXCEPT ![tok[w]] = [rec[tok[w]] EXCEPT !.receipt = "committed"]]
    BY <1>14 DEF CommitReceipt
  <2>3. UNCHANGED <<fs, temp, plan, cached, consumed, touched>>
    BY <1>14 DEF CommitReceipt
  <2> QED BY <2>1, <2>2, <2>3, <1>a DEF DiskTypeOK
<1>15. CASE Fail(w)
  <2>1. fs' \in [Paths -> Content] /\ touched' \subseteq Tokens
    BY <1>15, <1>a, <1>b, PutType DEF Fail, DiskTypeOK
  <2>2. temp' \in [Tokens -> Content]
    BY <1>15, <1>a, <1>b, <1>c DEF Fail, DropTemp, DiskTypeOK
  <2> QED BY <1>15, <2>1, <2>2 DEF Fail, DiskTypeOK
<1> QED
  BY <1>2, <1>3, <1>4, <1>5, <1>6, <1>7, <1>8, <1>9, <1>10, <1>11, <1>12,
     <1>13, <1>14, <1>15 DEF Step

-----------------------------------------------------------------------------
(* The other actions keep the types.                                       *)

\* What a preview remembers is a plan.
LEMMA PreviewPlan ==
    ASSUME Inv, NEW t \in Tokens, Preview(t)
    PROVE  \E p \in Plan : Remember(t, p)
<1> USE DEF Inv, TypeOK
<1>1. CASE PreviewEdit(t)
  BY <1>1, Zenon DEF PreviewEdit, Plan, Acts
<1>2. CASE PreviewDelete(t)
  BY <1>2 DEF PreviewDelete, Plan, Acts
<1>3. CASE PreviewMove(t)
  BY <1>3 DEF PreviewMove, Plan, Acts
<1>4. CASE PreviewRestore(t)
  <2>1. PICK o \in Tokens :
          /\ rec[o].manifest = "committed" /\ Inspectable(o)
          /\ \/ /\ plan[o].act \in Replaces
                /\ fs[plan[o].note] \in Data
                /\ Remember(t, [act |-> "restore_edit", note |-> plan[o].note,
                                draft |-> NoPath, before |-> fs[plan[o].note],
                                after |-> rec[o].backup, origin |-> o])
             \/ /\ plan[o].act = "move_draft"
                /\ fs[plan[o].draft] = Absent
                /\ Remember(t, [act |-> "restore_move_source", note |-> NoPath,
                                draft |-> plan[o].draft, before |-> Absent,
                                after |-> rec[o].backup, origin |-> o])
    BY <1>4 DEF PreviewRestore
  <2>2. plan[o] \in Plan
    BY <2>1 DEF Planned, Recorded
  <2>3. rec[o].backup \in Data \cup {Absent}
    BY <2>1, <2>2, PlanContents DEF Inspectable
  <2>4. plan[o].note \in Notes \cup {NoPath} /\ plan[o].draft \in Drafts \cup {NoPath}
    BY <2>2 DEF Plan
  <2>5. CASE fs[plan[o].note] \in Data /\
             Remember(t, [act |-> "restore_edit", note |-> plan[o].note,
                          draft |-> NoPath, before |-> fs[plan[o].note],
                          after |-> rec[o].backup, origin |-> o])
    BY <2>3, <2>4, <2>5 DEF Plan, Acts
  <2>6. CASE Remember(t, [act |-> "restore_move_source", note |-> NoPath,
                          draft |-> plan[o].draft, before |-> Absent,
                          after |-> rec[o].backup, origin |-> o])
    BY <2>3, <2>4, <2>6 DEF Plan, Acts
  <2> QED BY <2>1, <2>5, <2>6
<1> QED BY <1>1, <1>2, <1>3, <1>4 DEF Preview

LEMMA RememberInv ==
    ASSUME Inv, NEW t \in Tokens, NEW p \in Plan, Remember(t, p)
    PROVE  Inv'
<1> USE DEF Inv, TypeOK
<1>1. DiskTypeOK'
  BY DEF Remember, DiskTypeOK
<1>2. CallTypeOK'
  BY DEF Remember, callVars, CallTypeOK
<1>3. /\ plan' \in [Tokens -> Plan \cup {NoPlan}]
      /\ \A u \in Tokens : plan[u] \in Plan => plan'[u] = plan[u]
      /\ plan'[t] = p
  BY NoPlanAssumption DEF Remember, DiskTypeOK
<1>4. Planned'
  BY <1>3 DEF Planned, Remember, callVars
<1>5. Owned'
  BY DEF Owned, Remember, callVars
<1>6. \A w \in Workers : Stands(w)'
  <2> SUFFICES ASSUME NEW w \in Workers PROVE Stands(w)'
    OBVIOUS
  <2>1. pc[w] = "manifest" => PlanOf(w)' = PlanOf(w)
    BY <1>3 DEF Planned, Remember, callVars, PlanOf
  <2> QED BY <2>1 DEF Stands, Remember, callVars, Rec
<1>7. \A u \in Tokens : Recorded(u)'
  BY <1>3 DEF Planned, Recorded, Remember
<1> QED BY <1>1, <1>2, <1>4, <1>5, <1>6, <1>7

LEMMA CallInv ==
    ASSUME Inv, NEW w \in Workers, NEW t \in Tokens, Call(w, t)
    PROVE  Inv'
<1> USE DEF Inv, TypeOK
<1>1. DiskTypeOK'
  BY DEF Call, OnlyCall, DiskTypeOK
<1>2. CallTypeOK'
  <2>1. CASE Admits(t)
    BY <2>1 DEF Call, CallTypeOK, Goto, Places
  <2>2. CASE ~Admits(t)
    <3>1. [success |-> FALSE, mutated |-> FALSE, recovery |-> FALSE] \in Outcome
      BY DEF Outcome
    <3> QED BY <2>2, <3>1 DEF Call, CallTypeOK
  <2> QED BY <2>1, <2>2
<1>3. \/ pc' = pc
      \/ pc' = [pc EXCEPT ![w] = "approve"] /\ plan[t] \in Plan
  BY DEF Call, Goto, Admits, Planned
<1>4. /\ tok' = [tok EXCEPT ![w] = t] /\ pc[w] = "idle"
      /\ UNCHANGED <<rec, plan, cached, marked, touched>>
  BY DEF Call, OnlyCall
<1>5. Planned'
  BY <1>3, <1>4 DEF Planned, CallTypeOK
<1>6. Owned'
  BY <1>3, <1>4 DEF Owned, CallTypeOK, Working, Protected
<1>7. \A v \in Workers : Stands(v)'
  BY <1>3, <1>4 DEF Stands, CallTypeOK, Rec, PlanOf, Ready, Working, Protected
<1>8. \A u \in Tokens : Recorded(u)'
  BY <1>4 DEF Recorded
<1> QED BY <1>1, <1>2, <1>5, <1>6, <1>7, <1>8

\* A marked handle belongs to a call whose record is whole.
LEMMA MarkedReady ==
    ASSUME Inv, NEW w \in Workers, marked[w]
    PROVE  tok[w] \in Tokens /\ rec[tok[w]].receipt = "prepared"
                             /\ rec[tok[w]].manifest = "prepared"
  BY DEF Inv, Owned, Planned, Stands, Rec, Ready, Working, Protected

LEMMA CrashInv == ASSUME Inv, Crash PROVE Inv'
<1> USE DEF Inv, TypeOK
<1>1. touched' \subseteq Tokens /\
      \A t \in touched' : t \in touched \/ rec[t].receipt = "prepared"
  BY MarkedReady DEF Crash, DiskTypeOK
<1>2. fs' \in [Paths -> Content]
  BY DEF Crash, DiskTypeOK, Content
<1>3. DiskTypeOK'
  BY <1>1, <1>2 DEF Crash, DiskTypeOK
<1>4. CallTypeOK'
  BY DEF Crash, CallTypeOK, Places
<1>5. Planned' /\ Owned' /\ \A w \in Workers : Stands(w)'
  BY DEF Crash, Planned, Owned, Stands, Ready, Working, Protected
<1>6. \A t \in Tokens : Recorded(t)'
  BY <1>1 DEF Crash, Recorded
<1> QED BY <1>3, <1>4, <1>5, <1>6

\* Other programs change documents and nothing else; so does forgetting a plan.
LEMMA OthersInv ==
    ASSUME Inv, fs' \in [Paths -> Content], cached' \subseteq cached,
           UNCHANGED <<temp, rec, plan, consumed, callVars, touched>>
    PROVE  Inv'
<1> USE DEF Inv, TypeOK
<1>1. DiskTypeOK' /\ CallTypeOK'
  BY DEF DiskTypeOK, CallTypeOK, callVars
<1>2. Planned' /\ Owned'
  BY DEF Planned, Owned, callVars
<1>3. (\A w \in Workers : Stands(w)') /\ \A t \in Tokens : Recorded(t)'
  BY DEF Stands, Recorded, Rec, PlanOf, callVars
<1> QED BY <1>1, <1>2, <1>3

-----------------------------------------------------------------------------
(* One step of a call.                                                     *)

\* A step of a call writes no plan, moves no other call and touches no
\* record but its own.
LEMMA StepFrame ==
    ASSUME Inv, NEW w \in Workers, Step(w)
    PROVE  /\ pc[w] # "idle" /\ tok[w] \in Tokens
           /\ UNCHANGED <<plan, cached, tok>>
           /\ \E l : pc' = [pc EXCEPT ![w] = l]
           /\ \E r : rec' = [rec EXCEPT ![tok[w]] = r]
           /\ touched' \in {touched, touched \cup {tok[w]}}
           /\ \A v \in Workers \ {w} : marked'[v] = marked[v]
<1>0. /\ pc[w] # "idle" => tok[w] \in Tokens
      /\ pc \in [Workers -> Places] /\ marked \in [Workers -> BOOLEAN]
      /\ rec \in [Tokens -> Record]
  BY DEF Inv, TypeOK, Planned, CallTypeOK, DiskTypeOK
<1>1. CASE Approve(w)
    BY <1>1, <1>0 DEF Approve, Advance, Refuse, Leave, Goto, OnlyCall
<1>2. CASE Revalidate(w)
    BY <1>2, <1>0 DEF Revalidate, Advance, Refuse, Leave, Goto, OnlyCall
<1>3. CASE Inventory(w)
    BY <1>3, <1>0 DEF Inventory, Advance, Refuse, Leave, Goto, OnlyCall
<1>4. CASE Open(w)
    BY <1>4, <1>0 DEF Open, Refuse, Leave, Goto, OnlyCall
<1>5. CASE MakeDir(w)
    BY <1>5, <1>0 DEF MakeDir, Refuse, Leave, Goto
<1>6. CASE WriteBackup(w)
    BY <1>6, <1>0 DEF WriteBackup, Advance, Goto, Write
<1>7. CASE PrepareManifest(w)
    BY <1>7, <1>0 DEF PrepareManifest, Advance, Goto, Write
<1>8. CASE PrepareReceipt(w)
    BY <1>8, <1>0 DEF PrepareReceipt, Advance, Goto, Write
<1>9. CASE Consume(w)
    BY <1>9, <1>0 DEF Consume, Refuse, Leave, Goto
<1>10. CASE WriteTemp(w)
    BY <1>10, <1>0 DEF WriteTemp, Advance, Goto
<1>11. CASE Check(w)
    BY <1>11, <1>0 DEF Check, Leave, Goto, DropTemp
<1>12. CASE Replace(w)
    BY <1>12, <1>0 DEF Replace, Goto, Put, DropTemp
<1>13. CASE CheckAbsent(w)
    BY <1>13, <1>0 DEF CheckAbsent, Leave, Goto, OnlyCall
<1>14. CASE Create(w)
    BY <1>14, <1>0 DEF Create, Leave, Goto, Put
<1>15. CASE Fill(w)
    BY <1>15, <1>0 DEF Fill, Goto, Put
<1>16. CASE CheckLanded(w)
    BY <1>16, <1>0 DEF CheckLanded, Advance, Leave, Goto, OnlyCall
<1>17. CASE Recheck(w)
    BY <1>17, <1>0 DEF Recheck, Leave, Goto, OnlyCall
<1>18. CASE MarkDelete(w)
    BY <1>18, <1>0 DEF MarkDelete, Goto, OnlyCall
<1>19. CASE CloseHandle(w)
    BY <1>19, <1>0 DEF CloseHandle, Goto, Put
<1>20. CASE Verify(w)
    BY <1>20, <1>0 DEF Verify, Advance, Leave, Goto, OnlyCall
<1>21. CASE CommitManifest(w)
    BY <1>21, <1>0 DEF CommitManifest, Advance, Goto, Write
<1>22. CASE CommitReceipt(w)
    BY <1>22, <1>0 DEF CommitReceipt, Goto
<1>23. CASE Fail(w)
  <2>1. touched' \in {touched, touched \cup {tok[w]}}
    BY <1>23 DEF Fail, Put
  <2>2. \A v \in Workers \ {w} : marked'[v] = marked[v]
    BY <1>23, <1>0 DEF Fail
  <2>3. /\ pc[w] # "idle" /\ UNCHANGED <<rec, plan, cached, tok>>
        /\ pc' = [pc EXCEPT ![w] = "idle"]
    BY <1>23 DEF Fail, Goto, Protected
  <2>4. rec' = [rec EXCEPT ![tok[w]] = rec[tok[w]]]
    BY <1>0, <2>3
  <2> QED BY <1>0, <2>1, <2>2, <2>3, <2>4
<1> QED
    BY <1>1, <1>2, <1>3, <1>4, <1>5, <1>6, <1>7, <1>8, <1>9, <1>10, <1>11,
     <1>12, <1>13, <1>14, <1>15, <1>16, <1>17, <1>18, <1>19, <1>20, <1>21,
     <1>22, <1>23 DEF Step

\* Where a step leaves its own call and its own record.
LEMMA StepOwn ==
    ASSUME Inv, NEW w \in Workers, Step(w)
    PROVE  /\ pc'[w] \in Working =>
                  \/ pc[w] \in Working
                  \/ ~rec[tok[w]].dir /\ rec'[tok[w]].dir
           /\ rec[tok[w]].dir => rec'[tok[w]].dir
           /\ pc[w] \in Working \/ rec'[tok[w]] = rec[tok[w]] \/ ~rec[tok[w]].dir
           /\ marked'[w] => pc'[w] = "close"
           /\ Stands(w)'
           /\ Recorded(tok[w])'
<1>0. /\ pc[w] # "idle" => tok[w] \in Tokens
      /\ pc \in [Workers -> Places] /\ marked \in [Workers -> BOOLEAN]
      /\ rec \in [Tokens -> Record]
      /\ marked[w] => pc[w] = "close"
      /\ pc[w] \in Working => rec[tok[w]].dir
      /\ Stands(w)
      /\ tok[w] \in Tokens => Recorded(tok[w])
  BY DEF Inv, TypeOK, Planned, Owned, CallTypeOK, DiskTypeOK
<1> USE DEF Stands, Recorded, Rec, PlanOf, Record, Ready, Working, Protected
<1>1. CASE Approve(w)
    BY <1>1, <1>0 DEF Approve, Advance, Refuse, Leave, Goto, OnlyCall
<1>2. CASE Revalidate(w)
    BY <1>2, <1>0 DEF Revalidate, Advance, Refuse, Leave, Goto, OnlyCall
<1>3. CASE Inventory(w)
    BY <1>3, <1>0 DEF Inventory, Advance, Refuse, Leave, Goto, OnlyCall
<1>4. CASE Open(w)
    BY <1>4, <1>0 DEF Open, Refuse, Leave, Goto, OnlyCall
<1>5. CASE MakeDir(w)
    BY <1>5, <1>0 DEF MakeDir, Refuse, Leave, Goto
<1>6. CASE WriteBackup(w)
    BY <1>6, <1>0 DEF WriteBackup, Advance, Goto, Write
<1>7. CASE PrepareManifest(w)
    BY <1>7, <1>0 DEF PrepareManifest, Advance, Goto, Write
<1>8. CASE PrepareReceipt(w)
    BY <1>8, <1>0 DEF PrepareReceipt, Advance, Goto, Write
<1>9. CASE Consume(w)
    BY <1>9, <1>0 DEF Consume, Refuse, Leave, Goto, Branch
<1>10. CASE WriteTemp(w)
    BY <1>10, <1>0 DEF WriteTemp, Advance, Goto
<1>11. CASE Check(w)
    BY <1>11, <1>0 DEF Check, Leave, Goto, DropTemp
<1>12. CASE Replace(w)
    BY <1>12, <1>0 DEF Replace, Goto, Put, DropTemp
<1>13. CASE CheckAbsent(w)
    BY <1>13, <1>0 DEF CheckAbsent, Leave, Goto, OnlyCall
<1>14. CASE Create(w)
    BY <1>14, <1>0 DEF Create, Leave, Goto, Put
<1>15. CASE Fill(w)
    BY <1>15, <1>0 DEF Fill, Goto, Put
<1>16. CASE CheckLanded(w)
    BY <1>16, <1>0 DEF CheckLanded, Advance, Leave, Goto, OnlyCall
<1>17. CASE Recheck(w)
    BY <1>17, <1>0 DEF Recheck, Leave, Goto, OnlyCall
<1>18. CASE MarkDelete(w)
    BY <1>18, <1>0 DEF MarkDelete, Goto, OnlyCall
<1>19. CASE CloseHandle(w)
    BY <1>19, <1>0 DEF CloseHandle, Goto, Put
<1>20. CASE Verify(w)
    BY <1>20, <1>0 DEF Verify, Advance, Leave, Goto, OnlyCall
<1>21. CASE CommitManifest(w)
    BY <1>21, <1>0 DEF CommitManifest, Advance, Goto, Write
<1>22. CASE CommitReceipt(w)
    BY <1>22, <1>0 DEF CommitReceipt, Goto
<1>23. CASE Fail(w)
    BY <1>23, <1>0 DEF Fail, Goto, Put
<1> QED
    BY <1>1, <1>2, <1>3, <1>4, <1>5, <1>6, <1>7, <1>8, <1>9, <1>10, <1>11,
     <1>12, <1>13, <1>14, <1>15, <1>16, <1>17, <1>18, <1>19, <1>20, <1>21,
     <1>22, <1>23 DEF Step

LEMMA StepInv ==
    ASSUME Inv, NEW w \in Workers, Step(w)
    PROVE  Inv'
<1>1. DiskTypeOK' /\ CallTypeOK'
  BY StepDiskType, StepCallType
<1>2. PICK l, r :
        /\ pc' = [pc EXCEPT ![w] = l]
        /\ rec' = [rec EXCEPT ![tok[w]] = r]
  BY StepFrame
<1>3. /\ pc[w] # "idle" /\ tok[w] \in Tokens
      /\ UNCHANGED <<plan, cached, tok>>
      /\ touched' \in {touched, touched \cup {tok[w]}}
      /\ \A v \in Workers \ {w} : marked'[v] = marked[v]
  BY StepFrame
<1>4. /\ pc \in [Workers -> Places] /\ rec \in [Tokens -> Record]
      /\ rec' \in [Tokens -> Record]
  BY <1>1 DEF Inv, TypeOK, CallTypeOK, DiskTypeOK
<1>5. /\ \A v \in Workers \ {w} : pc'[v] = pc[v]
      /\ \A t \in Tokens \ {tok[w]} : rec'[t] = rec[t]
      /\ touched \subseteq touched'
  BY <1>2, <1>3, <1>4
<1>6. Planned'
  <2>1. \A t \in Tokens : rec'[t].dir => plan[t] \in Plan
    BY <1>3, <1>5 DEF Inv, Planned
  <2> QED BY <1>3, <1>5, <2>1 DEF Inv, Planned
<1>7. \A v \in Workers \ {w} : pc[v] \in Working =>
          tok[v] \in Tokens /\ rec[tok[v]].dir /\ rec'[tok[v]] = rec[tok[v]]
  <2> SUFFICES ASSUME NEW v \in Workers \ {w}, pc[v] \in Working
               PROVE  tok[v] \in Tokens /\ rec[tok[v]].dir
                      /\ rec'[tok[v]] = rec[tok[v]]
    OBVIOUS
  <2>1. tok[v] \in Tokens /\ rec[tok[v]].dir
    BY DEF Inv, Planned, Owned, Working, Protected
  <2>2. pc[w] \in Working => tok[v] # tok[w]
    BY DEF Inv, Owned
  <2> QED BY <2>1, <2>2, <1>5, StepOwn
<1>8. Owned'
  <2>1. \A v \in Workers : pc'[v] \in Working => rec'[tok[v]].dir
    <3> SUFFICES ASSUME NEW v \in Workers, pc'[v] \in Working
                 PROVE  rec'[tok[v]].dir
      OBVIOUS
    <3>1. CASE v = w
      BY <3>1, StepOwn DEF Inv, Owned
    <3>2. CASE v # w
      BY <3>2, <1>5, <1>7
    <3> QED BY <3>1, <3>2
  <2>2. \A v \in Workers \ {w} : pc'[v] \in Working /\ pc'[w] \in Working =>
            tok[v] # tok[w]
    <3> SUFFICES ASSUME NEW v \in Workers \ {w}, pc'[v] \in Working, pc'[w] \in Working
                 PROVE  tok[v] # tok[w]
      OBVIOUS
    <3>1. pc[v] \in Working /\ rec[tok[v]].dir
      BY <1>5, <1>7
    <3>2. CASE pc[w] \in Working
      BY <3>1, <3>2 DEF Inv, Owned
    <3>3. CASE ~rec[tok[w]].dir
      BY <3>1, <3>3
    <3> QED BY <3>2, <3>3, StepOwn
  <2>3. \A u, v \in Workers : u # v /\ pc'[u] \in Working /\ pc'[v] \in Working =>
            tok[u] # tok[v]
    BY <2>2, <1>5 DEF Inv, Owned
  <2>4. \A v \in Workers : marked'[v] => pc'[v] = "close"
    BY <1>3, <1>5, StepOwn DEF Inv, Owned
  <2> QED BY <1>3, <2>1, <2>3, <2>4 DEF Owned
<1>9. \A v \in Workers : Stands(v)'
  <2> SUFFICES ASSUME NEW v \in Workers PROVE Stands(v)'
    OBVIOUS
  <2>1. CASE v = w
    <3>1. Stands(w)'
      BY StepOwn
    <3> QED BY <2>1, <3>1 DEF Stands, Rec, PlanOf
  <2>2. CASE v # w
    <3>1. pc'[v] = pc[v] /\ (pc[v] \in Working => rec'[tok[v]] = rec[tok[v]])
      BY <2>2, <1>5, <1>7
    <3>2. Stands(v)
      BY DEF Inv
    <3> QED BY <3>1, <3>2, <1>3, <1>5
            DEF Stands, Rec, PlanOf, Ready, Working, Protected
  <2> QED BY <2>1, <2>2
<1>10. \A t \in Tokens : Recorded(t)'
  <2> SUFFICES ASSUME NEW t \in Tokens PROVE Recorded(t)'
    OBVIOUS
  <2>1. CASE t = tok[w]
    <3>1. Recorded(tok[w])'
      BY StepOwn
    <3> QED BY <2>1, <3>1, <1>3 DEF Recorded
  <2>2. CASE t # tok[w]
    BY <2>2, <1>3, <1>5 DEF Inv, Recorded
  <2> QED BY <2>1, <2>2
<1> QED BY <1>1, <1>6, <1>8, <1>9, <1>10 DEF Inv, TypeOK

-----------------------------------------------------------------------------
(* The theorems.                                                           *)

LEMMA InitInv == Init => Inv
<1> SUFFICES ASSUME Init PROVE Inv
  OBVIOUS
<1>1. DiskTypeOK
  BY DEF Init, DiskTypeOK, Record, NoRecord, Content
<1>2. CallTypeOK
  BY DEF Init, CallTypeOK, Places
<1>3. Planned /\ Owned
  BY DEF Init, Planned, Owned, NoRecord, Working, Protected
<1>4. (\A w \in Workers : Stands(w)) /\ \A t \in Tokens : Recorded(t)
  BY DEF Init, Stands, Recorded, NoRecord, Ready, Working, Protected
<1> QED BY <1>1, <1>2, <1>3, <1>4 DEF Inv, TypeOK

LEMMA NextInv == Inv /\ [Next]_vars => Inv'
<1> SUFFICES ASSUME Inv, [Next]_vars PROVE Inv'
  OBVIOUS
<1>1. CASE \E t \in Tokens : Preview(t)
  BY <1>1, PreviewPlan, RememberInv
<1>2. CASE \E t \in Tokens : Forget(t)
  BY <1>2, OthersInv DEF Forget, Inv, TypeOK, DiskTypeOK
<1>3. CASE \E w \in Workers : Step(w)
  BY <1>3, StepInv
<1>4. CASE \E w \in Workers, t \in Tokens : Call(w, t)
  BY <1>4, CallInv
<1>5. CASE Crash
  BY <1>5, CrashInv
<1>6. CASE \E x \in EditPaths : Remove(x)
  BY <1>6, OthersInv DEF Remove, Inv, TypeOK, DiskTypeOK, Content
<1>7. CASE \E x \in EditPaths, d \in Data : Save(x, d)
  BY <1>7, OthersInv DEF Save, Inv, TypeOK, DiskTypeOK, Content
<1>8. CASE UNCHANGED vars
  BY <1>8, OthersInv DEF vars, Inv, TypeOK, DiskTypeOK
<1> QED BY <1>1, <1>2, <1>3, <1>4, <1>5, <1>6, <1>7, <1>8 DEF Next

THEOREM Invariance == Spec => []Inv
  BY InitInv, NextInv, PTL DEF Spec

\* Every variable of the executor keeps its type in every behaviour.
THEOREM TypeCorrect == Spec => []TypeOK
<1>1. Inv => TypeOK
  BY DEF Inv
<1> QED BY <1>1, Invariance, PTL

\* A document changed by a transaction always has its complete backup, a
\* manifest and a whole receipt on disk, whatever crashes and whoever writes.
THEOREM WriteAheadHolds == Spec => []WriteAhead
<1>1. Inv => WriteAhead
  BY DEF Inv, TypeOK, DiskTypeOK, Recorded, WriteAhead, Record
<1> QED BY <1>1, Invariance, PTL

\* A final receipt always stands over a final manifest.
THEOREM ReceiptLastHolds == Spec => []ReceiptLast
<1>1. Inv => ReceiptLast
  BY DEF Inv, Recorded, ReceiptLast
<1> QED BY <1>1, Invariance, PTL

-----------------------------------------------------------------------------
(* The executor implements the ledger.                                     *)

\* A step that only adds tokens of prepared, unapplied transactions to
\* touched, and leaves every receipt alone, applies those transactions.
LEMMA TouchIsApply ==
    ASSUME Inv, UNCHANGED rec, touched \subseteq touched',
           \A t \in touched' : t \in Tokens /\
               (t \in touched \/ rec[t].receipt = "prepared")
    PROVE  [Ledger!Next]_([t \in Tokens |-> Stage(t)])
<1> DEFINE stage == [t \in Tokens |-> Stage(t)]
           S == touched' \ touched
<1>1. \A t \in S : t \in Tokens /\ stage[t] = "prepared"
  BY DEF Stage
<1>2. stage' = [t \in Tokens |-> IF t \in S THEN "applied" ELSE stage[t]]
  BY DEF Stage
<1>3. S \in SUBSET Tokens
  BY <1>1
<1>4. Ledger!Apply(S)
  BY <1>1, <1>2 DEF Ledger!Apply
<1> QED BY <1>3, <1>4 DEF Ledger!Next

\* A step that keeps what receipts say of prepared and committed, and
\* touches no new document, moves no transaction.
LEMMA SameStages ==
    ASSUME touched' = touched,
           \A t \in Tokens :
               /\ rec'[t].receipt = "committed" <=> rec[t].receipt = "committed"
               /\ rec'[t].receipt = "prepared" <=> rec[t].receipt = "prepared"
    PROVE  UNCHANGED [t \in Tokens |-> Stage(t)]
  BY DEF Stage

LEMMA StepImplements ==
    ASSUME Inv, NEW w \in Workers, Step(w)
    PROVE  [Ledger!Next]_([t \in Tokens |-> Stage(t)])
<1> DEFINE stage == [t \in Tokens |-> Stage(t)]
<1>0. /\ tok[w] \in Tokens /\ UNCHANGED tok
      /\ touched' \in {touched, touched \cup {tok[w]}}
      /\ rec \in [Tokens -> Record] /\ Stands(w) /\ Recorded(tok[w])
      /\ touched \subseteq Tokens /\ (marked[w] => pc[w] = "close")
  BY StepFrame DEF Inv, TypeOK, DiskTypeOK, Owned
<1>1. CASE MakeDir(w) \/ WriteBackup(w) \/ PrepareManifest(w) \/ CommitManifest(w)
           \/ (PrepareReceipt(w) /\ pc[w] = "receipt")
  <2>1. touched' = touched
    BY <1>1 DEF MakeDir, WriteBackup, PrepareManifest, CommitManifest,
                PrepareReceipt, Write
  <2>2. \A t \in Tokens :
            /\ rec'[t].receipt = "committed" <=> rec[t].receipt = "committed"
            /\ rec'[t].receipt = "prepared" <=> rec[t].receipt = "prepared"
    BY <1>0, <1>1 DEF MakeDir, WriteBackup, PrepareManifest, CommitManifest,
                      PrepareReceipt, Write, Rec, Record, Stands
  <2> QED BY <2>1, <2>2, SameStages
<1>2. CASE PrepareReceipt(w) /\ pc[w] = "fill_receipt"
  <2>1. rec' = [rec EXCEPT ![tok[w]] = [Rec(w) EXCEPT !.receipt = "prepared"]]
        /\ touched' = touched
    BY <1>2 DEF PrepareReceipt, Write
  <2>2. stage[tok[w]] = "open"
    BY <1>0, <1>2 DEF Stage, Stands, Recorded, Rec
  <2>3. stage' = [stage EXCEPT ![tok[w]] = "prepared"]
    BY <1>0, <1>2, <2>1 DEF Stage, Stands, Recorded, Rec, Record
  <2>4. Ledger!Prepare(tok[w])
    BY <2>2, <2>3 DEF Ledger!Prepare, Ledger!Move
  <2> QED BY <1>0, <2>4 DEF Ledger!Next
<1>3. CASE CommitReceipt(w)
  <2>1. rec' = [rec EXCEPT ![tok[w]].receipt = "committed"] /\ touched' = touched
    BY <1>3 DEF CommitReceipt
  <2>2. stage[tok[w]] = "applied"
    BY <1>0, <1>3 DEF Stage, Stands, CommitReceipt, Rec
  <2>3. stage' = [stage EXCEPT ![tok[w]] = "final"]
    BY <1>0, <2>1 DEF Stage, Record
  <2>4. Ledger!Finish(tok[w])
    BY <2>2, <2>3 DEF Ledger!Finish, Ledger!Move
  <2> QED BY <1>0, <2>4 DEF Ledger!Next
<1>4. CASE Approve(w) \/ Revalidate(w) \/ Inventory(w) \/ Open(w) \/ Consume(w)
           \/ WriteTemp(w) \/ Check(w) \/ Replace(w) \/ CheckAbsent(w)
           \/ Create(w) \/ Fill(w) \/ CheckLanded(w) \/ Recheck(w)
           \/ MarkDelete(w) \/ CloseHandle(w) \/ Verify(w) \/ Fail(w)
  <2>1. UNCHANGED rec
    BY <1>4 DEF Approve, Revalidate, Inventory, Open, Consume, WriteTemp, Check,
                Replace, CheckAbsent, Create, Fill, CheckLanded, Recheck,
                MarkDelete, CloseHandle, Verify, Fail, OnlyCall
  <2>2. touched' # touched => rec[tok[w]].receipt = "prepared"
    BY <1>0, <1>4 DEF Approve, Revalidate, Inventory, Open, Consume, WriteTemp,
         Check, Replace, CheckAbsent, Create, Fill, CheckLanded, Recheck,
         MarkDelete, CloseHandle, Verify, Fail, OnlyCall, Stands, Rec, Ready,
         Working, Protected
  <2> QED BY <1>0, <2>1, <2>2, TouchIsApply
<1> QED BY <1>1, <1>2, <1>3, <1>4 DEF Step, PrepareReceipt

\* Each transaction of the executor moves through the ledger: evidence, one
\* change, final record, never back, under crashes and concurrent calls.
THEOREM ExecutorImplementsLedger == Spec => ImplementsLedger
<1> DEFINE stage == [t \in Tokens |-> Stage(t)]
<1>1. Init => Ledger!Init
  BY DEF Init, Ledger!Init, Stage, NoRecord
<1>2. Inv /\ [Next]_vars => [Ledger!Next]_stage
  <2> SUFFICES ASSUME Inv, [Next]_vars PROVE [Ledger!Next]_stage
    OBVIOUS
  <2>1. CASE \E w \in Workers : Step(w)
    BY <2>1, StepImplements
  <2>2. CASE Crash
    <3>1. touched' = touched \cup {tok[w] : w \in {v \in Workers : marked[v]}}
          /\ UNCHANGED rec
      BY <2>2 DEF Crash
    <3>2. \A t \in touched' : t \in Tokens /\
              (t \in touched \/ rec[t].receipt = "prepared")
      BY <3>1, MarkedReady DEF Inv, TypeOK, DiskTypeOK
    <3> QED BY <3>1, <3>2, TouchIsApply
  <2>3. CASE UNCHANGED <<rec, touched>>
    BY <2>3, SameStages
  <2>4. CASE \/ \E t \in Tokens : Preview(t) \/ Forget(t)
             \/ \E w \in Workers, t \in Tokens : Call(w, t)
             \/ \E x \in EditPaths : Remove(x) \/ \E d \in Data : Save(x, d)
             \/ UNCHANGED vars
    BY <2>3, <2>4 DEF Preview, PreviewEdit, PreviewDelete, PreviewMove,
         PreviewRestore, Remember, Forget, Call, OnlyCall, Remove, Save, vars
  <2> QED BY <2>1, <2>2, <2>4 DEF Next
<1> QED BY <1>1, <1>2, Invariance, PTL DEF Spec, ImplementsLedger, Ledger!Spec
=============================================================================
