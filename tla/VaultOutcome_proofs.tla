------------------------- MODULE VaultOutcome_proofs -------------------------
(***************************************************************************)
(* What the calls of the executor report and leave behind: proofs about    *)
(* VaultTransaction that rest on its inductive invariant Inv and extend it *)
(* by what a call knows of itself, its temporary file, the number of       *)
(* records and the bytes a handle holds.                                   *)
(***************************************************************************)
EXTENDS VaultTransaction_proofs, FiniteSetTheorems

-----------------------------------------------------------------------------
(* What a call knows of itself.                                            *)

\* A call here has made no recovery directory yet.
Waiting == {"approve", "revalidate", "inventory", "open", "mkdir"}

\* Its plan token is not consumed by itself yet.
Recording == {"backup", "fill_backup", "manifest", "receipt", "fill_receipt",
              "consume"}

\* No document was changed by a call here ...
Before == Waiting \cup Recording \cup
          {"temp", "fill_temp", "check", "replace", "absent", "create"}

\* ... and here mutation_started is set.
Begun == {"replace", "raise", "create", "fill", "landed", "mark", "close",
          "verify", "commit_manifest", "commit_receipt"}

\* The flags of a call fit the place where it stands.
Flagged(w) ==
    /\ pc[w] \in Waiting => ~made[w]
    /\ pc[w] \in Working => made[w]
    /\ pc[w] \in Before => ~did[w]
    /\ pc[w] \in Begun => started[w]
    /\ pc[w] # "idle" /\ did[w] => started[w]
    /\ pc[w] \in {"verify", "commit_manifest", "commit_receipt"} => did[w]
    /\ did[w] => tok[w] \in Tokens
    /\ result[w] # NoResult => pc[w] = "idle"

\* What ReportsHonestly says of one call.
Truthful(w) == result[w] # NoResult =>
    /\ did[w] => result[w].mutated
    /\ result[w].success =>
           did[w] /\ rec[tok[w]].manifest = "committed"
                  /\ rec[tok[w]].receipt = "committed"
    /\ made[w] /\ ~result[w].success => result[w].recovery

\* A consumed token has its directory, so that only the one call that made
\* the directory can consume it.
Spent ==
    /\ \A t \in consumed : rec[t].dir
    /\ \A w \in Workers : pc[w] \in Recording => tok[w] \notin consumed

CallInvariant ==
    /\ Inv
    /\ \A w \in Workers : Flagged(w) /\ Truthful(w)
    /\ Spent

\* A step of a call touches no flag, result, handle or temporary file of any
\* other call, and consumes no other token.
LEMMA StepLocal ==
    ASSUME Inv, NEW w \in Workers, Step(w)
    PROVE  /\ \A v \in Workers \ {w} :
                  /\ made'[v] = made[v] /\ started'[v] = started[v]
                  /\ did'[v] = did[v] /\ result'[v] = result[v]
                  /\ guard'[v] = guard[v] /\ pc'[v] = pc[v]
           /\ consumed' \in {consumed, consumed \cup {tok[w]}}
           /\ \A t \in Tokens \ {tok[w]} : temp'[t] = temp[t]
<1>0. /\ made \in [Workers -> BOOLEAN] /\ started \in [Workers -> BOOLEAN]
      /\ did \in [Workers -> BOOLEAN]
      /\ result \in [Workers -> Outcome \cup {NoResult}]
      /\ guard \in [Workers -> Paths \cup {NoPath}]
      /\ pc \in [Workers -> Places]
      /\ temp \in [Tokens -> Content]
  BY DEF Inv, TypeOK, CallTypeOK, DiskTypeOK
<1>1. CASE Approve(w) \/ Revalidate(w) \/ Inventory(w) \/ Open(w)
  BY <1>1, <1>0 DEF Approve, Revalidate, Inventory, Open, Advance, Refuse,
                    Leave, Goto, OnlyCall
<1>2. CASE MakeDir(w) \/ WriteBackup(w) \/ PrepareManifest(w)
           \/ PrepareReceipt(w) \/ CommitManifest(w) \/ CommitReceipt(w)
  BY <1>2, <1>0 DEF MakeDir, WriteBackup, PrepareManifest, PrepareReceipt,
         CommitManifest, CommitReceipt, Write, Advance, Refuse, Leave, Goto
<1>3. CASE Consume(w)
  BY <1>3, <1>0 DEF Consume, Refuse, Leave, Goto
<1>4. CASE WriteTemp(w) \/ Check(w)
  BY <1>4, <1>0 DEF WriteTemp, Check, DropTemp, Advance, Leave, Goto
<1>5. CASE Replace(w)
  BY <1>5, <1>0 DEF Replace, Put, DropTemp, Goto
<1>6. CASE Create(w) \/ Fill(w)
  BY <1>6, <1>0 DEF Create, Fill, Put, Leave, Goto
<1>7. CASE CheckAbsent(w) \/ CheckLanded(w) \/ Recheck(w) \/ MarkDelete(w)
           \/ Verify(w)
  BY <1>7, <1>0 DEF CheckAbsent, CheckLanded, Recheck, MarkDelete, Verify,
                    Advance, Leave, Goto, OnlyCall
<1>8. CASE CloseHandle(w)
  BY <1>8, <1>0 DEF CloseHandle, Put, Goto
<1>9. CASE Fail(w)
  BY <1>9, <1>0 DEF Fail, Put, DropTemp, Goto
<1> QED BY <1>1, <1>2, <1>3, <1>4, <1>5, <1>6, <1>7, <1>8, <1>9 DEF Step

\* What a step returns is what the call did.
LEMMA StepTruthful ==
    ASSUME Inv, NEW w \in Workers, Step(w), Flagged(w),
           pc[w] = "consume" => tok[w] \notin consumed
    PROVE  Flagged(w)' /\ Truthful(w)'
<1>0. /\ pc \in [Workers -> Places] /\ made \in [Workers -> BOOLEAN]
      /\ started \in [Workers -> BOOLEAN] /\ did \in [Workers -> BOOLEAN]
      /\ result \in [Workers -> Outcome \cup {NoResult}]
      /\ rec \in [Tokens -> Record] /\ tok[w] \in Tokens /\ tok' = tok
      /\ pc[w] # "idle" /\ plan[tok[w]] \in Plan /\ Stands(w)
      /\ (marked[w] => pc[w] = "close")
  BY StepFrame DEF Inv, TypeOK, CallTypeOK, DiskTypeOK, Planned, Owned
<1> USE DEF Flagged, Truthful, Waiting, Recording, Before, Begun, Working,
            Protected
<1>1. CASE Approve(w)
  BY <1>1, <1>0 DEF Approve, Advance, Refuse, Leave, Goto
<1>2. CASE Revalidate(w)
  BY <1>2, <1>0 DEF Revalidate, Advance, Refuse, Leave, Goto
<1>3. CASE Inventory(w)
  BY <1>3, <1>0 DEF Inventory, Advance, Refuse, Leave, Goto
<1>4. CASE Open(w)
  BY <1>4, <1>0 DEF Open, Refuse, Leave, Goto
<1>5. CASE MakeDir(w)
  BY <1>5, <1>0 DEF MakeDir, Refuse, Leave, Goto
<1>6. CASE WriteBackup(w) \/ PrepareManifest(w) \/ PrepareReceipt(w)
  BY <1>6, <1>0 DEF WriteBackup, PrepareManifest, PrepareReceipt, Write,
                    Advance, Goto
<1>7. CASE Consume(w)
  BY <1>7, <1>0 DEF Consume, Goto, Branch, PlanOf, Plan, Acts, Replaces
<1>8. CASE WriteTemp(w)
  BY <1>8, <1>0 DEF WriteTemp, Advance, Goto
<1>9. CASE Check(w)
  BY <1>9, <1>0 DEF Check, Leave, Goto
<1>10. CASE Replace(w)
  BY <1>10, <1>0 DEF Replace, Put, Goto
<1>11. CASE CheckAbsent(w)
  BY <1>11, <1>0 DEF CheckAbsent, Leave, Goto
<1>12. CASE Create(w)
  BY <1>12, <1>0 DEF Create, Put, Leave, Goto
<1>13. CASE Fill(w)
  BY <1>13, <1>0 DEF Fill, Put, Goto
<1>14. CASE CheckLanded(w)
  BY <1>14, <1>0 DEF CheckLanded, Advance, Leave, Goto
<1>15. CASE Recheck(w)
  BY <1>15, <1>0 DEF Recheck, Leave, Goto
<1>16. CASE MarkDelete(w)
  BY <1>16, <1>0 DEF MarkDelete, Goto
<1>17. CASE CloseHandle(w)
  BY <1>17, <1>0 DEF CloseHandle, Put, Goto
<1>18. CASE Verify(w)
  BY <1>18, <1>0 DEF Verify, Advance, Leave, Goto
<1>19. CASE CommitManifest(w)
  BY <1>19, <1>0 DEF CommitManifest, Write, Advance, Goto
<1>20. CASE CommitReceipt(w)
  BY <1>20, <1>0 DEF CommitReceipt, Goto, Stands, Rec, Record
<1>21. CASE Fail(w)
  BY <1>21, <1>0 DEF Fail, Put, Goto, RecoveryRequired
<1> QED
  BY <1>1, <1>2, <1>3, <1>4, <1>5, <1>6, <1>7, <1>8, <1>9, <1>10, <1>11,
     <1>12, <1>13, <1>14, <1>15, <1>16, <1>17, <1>18, <1>19, <1>20, <1>21
     DEF Step

\* A final record is final: no call works on it any more.
LEMMA FinalStays ==
    ASSUME Inv, [Next]_vars, NEW t \in Tokens, rec[t].receipt = "committed"
    PROVE  rec'[t] = rec[t]
<1>1. rec[t].dir
  BY DEF Inv, Recorded
<1>2. CASE \E w \in Workers : Step(w)
  <2>1. PICK w \in Workers : Step(w)
    BY <1>2
  <2>2. tok[w] = t => pc[w] \notin Working
    BY DEF Inv, Stands, Rec, Ready, Working, Protected
  <2>3. CASE tok[w] = t
    BY <1>1, <2>1, <2>2, <2>3, StepOwn
  <2>4. CASE tok[w] # t
    BY <2>1, <2>4, StepFrame DEF Inv, TypeOK, DiskTypeOK
  <2> QED BY <2>3, <2>4
<1>3. CASE UNCHANGED rec
  BY <1>3
<1> QED
  BY <1>2, <1>3 DEF Next, Preview, PreviewEdit, PreviewDelete, PreviewMove,
     PreviewRestore, Remember, Forget, Call, OnlyCall, Crash, Remove, Save, vars

\* Past the record of a call there is no way back to writing it.
LEMMA StepFrom ==
    ASSUME NEW w \in Workers, pc \in [Workers -> Places], Step(w),
           pc[w] \in Working, pc'[w] \in Recording
    PROVE  pc[w] \in Recording
<1> USE DEF Recording, Working, Protected
<1>1. CASE Consume(w) \/ WriteBackup(w) \/ PrepareManifest(w)
           \/ PrepareReceipt(w)
  BY <1>1 DEF Consume, WriteBackup, PrepareManifest, PrepareReceipt
<1>2. CASE Approve(w) \/ Revalidate(w) \/ Inventory(w) \/ Open(w)
           \/ MakeDir(w)
  BY <1>2 DEF Approve, Revalidate, Inventory, Open, MakeDir
<1>3. CASE WriteTemp(w) \/ Check(w) \/ Replace(w) \/ CheckAbsent(w)
           \/ Create(w) \/ Fill(w)
  BY <1>3 DEF WriteTemp, Check, Replace, CheckAbsent, Create, Fill, Advance,
              Leave, Goto
<1>4. CASE CheckLanded(w) \/ Recheck(w) \/ MarkDelete(w) \/ CloseHandle(w)
           \/ Verify(w) \/ CommitManifest(w) \/ CommitReceipt(w) \/ Fail(w)
  BY <1>4 DEF CheckLanded, Recheck, MarkDelete, CloseHandle, Verify,
              CommitManifest, CommitReceipt, Fail, Write, Advance, Leave, Goto
<1> QED BY <1>1, <1>2, <1>3, <1>4 DEF Step

LEMMA StepSpent ==
    ASSUME CallInvariant, NEW w \in Workers, Step(w)
    PROVE  Spent'
<1>0. Inv /\ Spent /\ pc \in [Workers -> Places] /\ tok[w] \in Tokens
  BY StepFrame DEF CallInvariant, Inv, TypeOK, CallTypeOK
<1>1. rec[tok[w]].dir => rec'[tok[w]].dir
  BY <1>0, StepOwn
<1>2. \A t \in Tokens \ {tok[w]} : rec'[t] = rec[t]
  BY <1>0, StepFrame DEF Inv, TypeOK, DiskTypeOK
<1>3. consumed' # consumed => pc[w] = "consume" /\ pc'[w] \notin Recording
  BY <1>0 DEF Step, Approve, Revalidate, Inventory, Open, MakeDir,
     WriteBackup, PrepareManifest, PrepareReceipt, Consume, WriteTemp, Check,
     Replace, CheckAbsent, Create, Fill, CheckLanded, Recheck, MarkDelete,
     CloseHandle, Verify, CommitManifest, CommitReceipt, Fail, Write, OnlyCall,
     Branch, Refuse, Leave, Goto, Recording
<1>4. consumed' \in {consumed, consumed \cup {tok[w]}}
  BY <1>0, StepLocal
<1>5. pc[w] = "consume" => rec[tok[w]].dir
  BY <1>0 DEF Inv, Owned, Working, Protected
<1>6. \A t \in consumed' : rec'[t].dir
  BY <1>0, <1>1, <1>2, <1>3, <1>4, <1>5
     DEF Spent, Inv, TypeOK, DiskTypeOK
<1>7. \A v \in Workers : pc'[v] \in Recording => tok'[v] \notin consumed'
  <2> SUFFICES ASSUME NEW v \in Workers, pc'[v] \in Recording
               PROVE  tok[v] \notin consumed'
    BY <1>0, StepFrame
  <2>1. CASE v = w
    <3>1. consumed' = consumed
      BY <1>3, <1>4, <2>1
    <3>2. pc[w] \in Recording \/ ~rec[tok[w]].dir
      <4>1. pc[w] \in Working \/ ~rec[tok[w]].dir
        BY <1>0, <2>1, StepOwn DEF Recording, Working, Protected
      <4>2. pc[w] \in Working => pc[w] \in Recording
        BY <1>0, <2>1, StepFrom
      <4> QED BY <4>1, <4>2
    <3> QED BY <1>0, <2>1, <3>1, <3>2 DEF Spent
  <2>2. CASE v # w
    <3>1. pc[v] \in Recording
      BY <1>0, <2>2, StepLocal
    <3>2. consumed' # consumed => tok[v] # tok[w]
      BY <1>0, <1>3, <2>2, <3>1 DEF Inv, Owned, Recording, Working, Protected
    <3> QED BY <1>0, <1>4, <3>1, <3>2 DEF Spent
  <2> QED BY <2>1, <2>2
<1> QED BY <1>6, <1>7 DEF Spent

LEMMA CallInvariantInit == Init => CallInvariant
<1> SUFFICES ASSUME Init PROVE CallInvariant
  OBVIOUS
<1>1. Inv
  BY InitInv
<1>2. (\A w \in Workers : Flagged(w) /\ Truthful(w)) /\ Spent
  BY DEF Init, Flagged, Truthful, Spent, Waiting, Recording, Before, Begun,
         Working, Protected
<1> QED BY <1>1, <1>2 DEF CallInvariant

LEMMA CallInvariantNext == CallInvariant /\ [Next]_vars => CallInvariant'
<1> SUFFICES ASSUME CallInvariant, [Next]_vars PROVE CallInvariant'
  OBVIOUS
<1>0. Inv /\ Inv'
  BY NextInv DEF CallInvariant
<1>1. CASE \E w \in Workers : Step(w)
  <2>1. PICK w \in Workers : Step(w)
    BY <1>1
  <2>2. Flagged(w)' /\ Truthful(w)'
    BY <1>0, <2>1, StepTruthful DEF CallInvariant, Spent, Recording
  <2>3. ASSUME NEW v \in Workers \ {w} PROVE Flagged(v)' /\ Truthful(v)'
    <3>1. Flagged(v) /\ Truthful(v) /\ UNCHANGED tok
      BY <1>0, <2>1, StepFrame DEF CallInvariant
    <3>2. /\ made'[v] = made[v] /\ started'[v] = started[v]
          /\ did'[v] = did[v] /\ result'[v] = result[v] /\ pc'[v] = pc[v]
      BY <1>0, <2>1, StepLocal
    <3>3. Flagged(v)'
      BY <3>1, <3>2 DEF Flagged
    <3>4. Truthful(v)'
      <4>1. CASE tok[v] \in Tokens
        <5>1. rec[tok[v]].receipt = "committed" => rec'[tok[v]] = rec[tok[v]]
          BY <1>0, <4>1, FinalStays
        <5> QED BY <3>1, <3>2, <5>1 DEF Truthful
      <4>2. CASE ~did[v]
        BY <3>1, <3>2, <4>2 DEF Truthful
      <4> QED BY <3>1, <4>1, <4>2 DEF Flagged
    <3> QED BY <3>3, <3>4
  <2>4. Spent'
    BY <2>1, StepSpent
  <2> QED BY <1>0, <2>2, <2>3, <2>4 DEF CallInvariant
<1>2. CASE \E w \in Workers, t \in Tokens : Call(w, t)
  <2>1. PICK w \in Workers, t \in Tokens : Call(w, t)
    BY <1>2
  <2>2. \A v \in Workers : Flagged(v)' /\ Truthful(v)'
    BY <1>0, <2>1 DEF Call, OnlyCall, Goto, CallInvariant, Inv, TypeOK,
       CallTypeOK, Flagged, Truthful, Waiting, Recording, Before, Begun,
       Working, Protected, Outcome
  <2>3. Spent'
    BY <1>0, <2>1 DEF Call, OnlyCall, Goto, CallInvariant, Inv, TypeOK,
       CallTypeOK, Spent, Recording
  <2> QED BY <1>0, <2>2, <2>3 DEF CallInvariant
<1>3. CASE Crash
  BY <1>0, <1>3 DEF Crash, CallInvariant, Flagged, Truthful, Spent, Waiting,
     Recording, Before, Begun, Working, Protected
<1>4. CASE UNCHANGED <<rec, consumed, callVars>>
  BY <1>0, <1>4 DEF callVars, CallInvariant, Flagged, Truthful, Spent
<1> QED
  BY <1>1, <1>2, <1>3, <1>4 DEF Next, Preview, PreviewEdit, PreviewDelete,
     PreviewMove, PreviewRestore, Remember, Forget, Remove, Save, vars

\* The inductive invariant Inv with what a call knows of itself.
THEOREM CallInvariance == Spec => []CallInvariant
  BY CallInvariantInit, CallInvariantNext, PTL DEF Spec

\* The result of a call says what the call did: whether a document changed,
\* whether both records are final, whether a record is left to look after.
THEOREM ReportsHonestlyHolds == Spec => []ReportsHonestly
<1>1. CallInvariant => ReportsHonestly
  BY DEF CallInvariant, Truthful, ReportsHonestly
<1> QED BY <1>1, CallInvariance, PTL

\* A record left behind unresolved is never written again and never adopted
\* by another call, whichever calls were admitted beside it.
THEOREM OrphansFrozenHolds == Spec => OrphansFrozen
<1> DEFINE Frozen ==
        \A t \in Tokens : Orphan(t) => Orphan(t)' /\ rec'[t] = rec[t]
<1>1. CallInvariant /\ [Next]_vars => Frozen
  <2> SUFFICES ASSUME CallInvariant, [Next]_vars, NEW t \in Tokens, Orphan(t)
               PROVE  Orphan(t)' /\ rec'[t] = rec[t]
    OBVIOUS
  <2>0. Inv /\ \A w \in Workers : Flagged(w)
    BY DEF CallInvariant
  <2>1. CASE \E w \in Workers : Step(w)
    <3>1. PICK w \in Workers : Step(w)
      BY <2>1
    <3>2. tok[w] = t => pc[w] \notin Working
      BY <2>0 DEF Orphan, Flagged, Working, Protected
    <3>3. rec'[t] = rec[t]
      <4>1. CASE tok[w] = t
        BY <2>0, <3>1, <3>2, <4>1, StepOwn DEF Orphan
      <4>2. CASE tok[w] # t
        BY <2>0, <3>1, <4>2, StepFrame DEF Inv, TypeOK, DiskTypeOK
      <4> QED BY <4>1, <4>2
    <3>4. tok[w] = t => pc'[w] \notin Working
      BY <2>0, <3>1, <3>2, StepOwn DEF Orphan
    <3>5. made'[w] => pc'[w] \in Working \/ pc'[w] = "idle"
      <4>1. Flagged(w)'
        BY <3>1, StepTruthful DEF CallInvariant, Spent, Recording
      <4>2. pc'[w] \in Places
        BY <2>0, <3>1, StepCallType DEF CallTypeOK
      <4> QED BY <4>1, <4>2 DEF Flagged, Places, Waiting, Working
    <3>6. \A v \in Workers \ {w} : made'[v] = made[v] /\ pc'[v] = pc[v]
      BY <2>0, <3>1, StepLocal
    <3> QED BY <2>0, <3>1, <3>3, <3>4, <3>5, <3>6, StepFrame DEF Orphan
  <2>2. CASE \E w \in Workers, u \in Tokens : Call(w, u)
    BY <2>0, <2>2 DEF Call, OnlyCall, Goto, Orphan, Inv, TypeOK, CallTypeOK
  <2>3. CASE Crash
    BY <2>3 DEF Crash, Orphan
  <2>4. CASE UNCHANGED <<rec, callVars>>
    BY <2>4 DEF callVars, Orphan
  <2> QED
    BY <2>1, <2>2, <2>3, <2>4 DEF Next, Preview, PreviewEdit, PreviewDelete,
       PreviewMove, PreviewRestore, Remember, Forget, Remove, Save, vars
<1>2. OrphansFrozen <=> [][Frozen]_vars
  BY DEF OrphansFrozen
<1> HIDE DEF Frozen
<1> QED BY <1>1, <1>2, CallInvariance, PTL DEF Spec

-----------------------------------------------------------------------------
(* The temporary file of an edit.                                          *)

\* A call that is not between writing and replacing has no temporary file.
Scratch(w) == pc[w] \in Working \ HasTemp => temp[tok[w]] = Absent

\* What StrayTempFlagged says of one record.
Stray(t) == temp[t] # Absent => rec[t].dir /\ rec[t].receipt # "committed"

ScratchInvariant ==
    /\ Inv
    /\ \A w \in Workers : Scratch(w)
    /\ \A t \in Tokens : Stray(t)

LEMMA StepScratch ==
    ASSUME Inv, NEW w \in Workers, Step(w), Scratch(w), Stray(tok[w])
    PROVE  /\ Scratch(w)' /\ Stray(tok[w])'
           /\ pc[w] \notin Working => temp' = temp
<1>0. /\ pc \in [Workers -> Places] /\ rec \in [Tokens -> Record]
      /\ temp \in [Tokens -> Content] /\ tok[w] \in Tokens /\ tok' = tok
      /\ Stands(w) /\ (pc[w] \in Working => rec[tok[w]].dir)
      /\ rec' \in [Tokens -> Record]
  BY StepFrame, StepDiskType DEF Inv, TypeOK, CallTypeOK, DiskTypeOK, Owned
<1> USE DEF Scratch, Stray, Working, Protected, HasTemp
<1>1. CASE Approve(w) \/ Revalidate(w) \/ Inventory(w) \/ Open(w)
  BY <1>1, <1>0 DEF Approve, Revalidate, Inventory, Open, Advance, Refuse,
                    Leave, Goto, OnlyCall
<1>2. CASE MakeDir(w)
  BY <1>2, <1>0 DEF MakeDir, Refuse, Leave, Goto, Rec, Record
<1>3. CASE WriteBackup(w) \/ PrepareManifest(w) \/ PrepareReceipt(w)
           \/ CommitManifest(w)
  BY <1>3, <1>0 DEF WriteBackup, PrepareManifest, PrepareReceipt,
     CommitManifest, Write, Advance, Goto, Rec, Record, Stands, Ready
<1>4. CASE Consume(w)
  BY <1>4, <1>0 DEF Consume, Refuse, Leave, Goto, Branch
<1>5. CASE WriteTemp(w)
  BY <1>5, <1>0 DEF WriteTemp, Advance, Goto, Stands, Ready, Rec
<1>6. CASE Check(w)
  BY <1>6, <1>0 DEF Check, DropTemp, Leave, Goto
<1>7. CASE Replace(w)
  BY <1>7, <1>0 DEF Replace, Put, DropTemp, Goto
<1>8. CASE Create(w) \/ Fill(w) \/ CloseHandle(w)
  BY <1>8, <1>0 DEF Create, Fill, CloseHandle, Put, Leave, Goto
<1>9. CASE CheckAbsent(w) \/ CheckLanded(w) \/ Recheck(w) \/ MarkDelete(w)
           \/ Verify(w)
  BY <1>9, <1>0 DEF CheckAbsent, CheckLanded, Recheck, MarkDelete, Verify,
                    Advance, Leave, Goto, OnlyCall
<1>10. CASE CommitReceipt(w)
  BY <1>10, <1>0 DEF CommitReceipt, Goto
<1>11. CASE Fail(w)
  BY <1>11, <1>0 DEF Fail, DropTemp, Goto
<1> QED BY <1>1, <1>2, <1>3, <1>4, <1>5, <1>6, <1>7, <1>8, <1>9, <1>10, <1>11
        DEF Step

LEMMA ScratchNext == ScratchInvariant /\ [Next]_vars => ScratchInvariant'
<1> SUFFICES ASSUME ScratchInvariant, [Next]_vars PROVE ScratchInvariant'
  OBVIOUS
<1>0. Inv /\ Inv'
  BY NextInv DEF ScratchInvariant
<1>1. CASE \E w \in Workers : Step(w)
  <2>1. PICK w \in Workers : Step(w)
    BY <1>1
  <2>2. tok[w] \in Tokens /\ tok' = tok
    BY <1>0, <2>1, StepFrame
  <2>3. /\ Scratch(w)' /\ Stray(tok[w])'
        /\ pc[w] \notin Working => temp' = temp
    BY <1>0, <2>1, <2>2, StepScratch DEF ScratchInvariant
  <2>4. ASSUME NEW v \in Workers \ {w} PROVE Scratch(v)'
    <3>1. pc'[v] = pc[v] /\ Scratch(v)
      BY <1>0, <2>1, StepLocal DEF ScratchInvariant
    <3>2. pc[v] \in Working => tok[v] \in Tokens /\ temp'[tok[v]] = temp[tok[v]]
      <4> HAVE pc[v] \in Working
      <4>1. tok[v] \in Tokens
        BY <1>0 DEF Inv, Planned, Working, Protected
      <4>2. CASE pc[w] \in Working
        <5>1. tok[v] # tok[w]
          BY <1>0, <4>2 DEF Inv, Owned
        <5> QED BY <1>0, <2>1, <4>1, <5>1, StepLocal
      <4>3. CASE pc[w] \notin Working
        BY <2>3, <4>1, <4>3
      <4> QED BY <4>2, <4>3
    <3> QED BY <2>2, <3>1, <3>2 DEF Scratch
  <2>5. ASSUME NEW t \in Tokens PROVE Stray(t)'
    <3>1. CASE t = tok[w]
      BY <2>2, <2>3, <3>1 DEF Stray
    <3>2. CASE t # tok[w]
      <4>1. temp'[t] = temp[t]
        BY <1>0, <2>1, <3>2, StepLocal
      <4>2. rec'[t] = rec[t]
        BY <1>0, <2>1, <3>2, StepFrame DEF Inv, TypeOK, DiskTypeOK
      <4>3. Stray(t)
        BY DEF ScratchInvariant
      <4> QED BY <4>1, <4>2, <4>3 DEF Stray
    <3> QED BY <3>1, <3>2
  <2> QED BY <1>0, <2>3, <2>4, <2>5 DEF ScratchInvariant
<1>2. CASE \E w \in Workers, t \in Tokens : Call(w, t)
  BY <1>0, <1>2 DEF Call, OnlyCall, Goto, ScratchInvariant, Inv, TypeOK,
     CallTypeOK, Scratch, Stray, Working, Protected
<1>3. CASE Crash
  BY <1>0, <1>3 DEF Crash, ScratchInvariant, Scratch, Stray, Working, Protected
<1>4. CASE UNCHANGED <<temp, rec, callVars>>
  BY <1>0, <1>4 DEF callVars, ScratchInvariant, Scratch, Stray
<1> QED
  BY <1>1, <1>2, <1>3, <1>4 DEF Next, Preview, PreviewEdit, PreviewDelete,
     PreviewMove, PreviewRestore, Remember, Forget, Remove, Save, vars

\* A temporary file that outlives its call lies beside a record the inventory
\* flags: no failure, crash or second call finishes the record over it.
THEOREM StrayTempFlaggedHolds == Spec => []StrayTempFlagged
<1>1. Init => ScratchInvariant
  BY InitInv DEF Init, ScratchInvariant, Scratch, Stray, Working, Protected
<1>2. ScratchInvariant => StrayTempFlagged
  BY DEF ScratchInvariant, Stray, StrayTempFlagged
<1> QED BY <1>1, <1>2, ScratchNext, PTL DEF Spec

-----------------------------------------------------------------------------
(* How many records there can be.                                          *)

\* The calls the inventory let through that have no directory yet.
Passed == {w \in Workers : pc[w] \in {"open", "mkdir"}}

Unresolved == {t \in Records : rec[t].receipt # "committed"}

\* Each call that was let through may still add one record, and every record
\* that is not final was added after the inventory last found none.
BoundInvariant ==
    /\ Inv
    /\ IsFiniteSet(Records)
    /\ Cardinality(Records) + Cardinality(Passed)
           <= ScanLimit + Cardinality(Workers)
    /\ Cardinality(Unresolved) + Cardinality(Passed) <= Cardinality(Workers)

LEMMA PassedFinite ==
    /\ IsFiniteSet(Passed) /\ Cardinality(Passed) \in Nat
    /\ Cardinality(Passed) <= Cardinality(Workers)
    /\ Cardinality(Workers) \in Nat
  BY WorkersAssumption, FS_Subset, FS_CardinalityType DEF Passed

\* A step lets its call through, makes its directory, or does neither.
LEMMA StepDirs ==
    ASSUME Inv, NEW w \in Workers, Step(w)
    PROVE  \/ /\ pc[w] = "inventory" /\ InventoryClear
              /\ rec' = rec
           \/ /\ pc[w] = "mkdir" /\ pc'[w] = "backup" /\ ~rec[tok[w]].dir
              /\ rec' = [rec EXCEPT ![tok[w]].dir = TRUE]
           \/ /\ \A t \in Tokens : rec'[t].dir = rec[t].dir
              /\ pc'[w] \in {"open", "mkdir"} => pc[w] \in {"open", "mkdir"}
<1>0. /\ pc \in [Workers -> Places] /\ rec \in [Tokens -> Record]
      /\ tok[w] \in Tokens
  BY StepFrame DEF Inv, TypeOK, CallTypeOK, DiskTypeOK
<1>1. CASE Approve(w) \/ Revalidate(w) \/ Open(w)
  BY <1>1, <1>0 DEF Approve, Revalidate, Open, Advance, Refuse, Leave, Goto,
                    OnlyCall
<1>2. CASE Inventory(w)
  BY <1>2, <1>0 DEF Inventory, Refuse, Leave, Goto, OnlyCall
<1>3. CASE MakeDir(w)
  BY <1>3, <1>0 DEF MakeDir, Refuse, Leave, Goto, Rec
<1>4. CASE WriteBackup(w) \/ PrepareManifest(w) \/ PrepareReceipt(w)
           \/ CommitManifest(w)
  <2>1. ASSUME NEW r, r.dir = rec[tok[w]].dir,
               rec' = [rec EXCEPT ![tok[w]] = r]
        PROVE  \A t \in Tokens : rec'[t].dir = rec[t].dir
    BY <1>0, <2>1
  <2>2. \A t \in Tokens : rec'[t].dir = rec[t].dir
    <3>1. /\ [rec[tok[w]] EXCEPT !.backup = Torn].dir = rec[tok[w]].dir
          /\ [rec[tok[w]] EXCEPT !.backup = Evidence(PlanOf(w))].dir
                 = rec[tok[w]].dir
          /\ [rec[tok[w]] EXCEPT !.manifest = "prepared"].dir = rec[tok[w]].dir
          /\ [rec[tok[w]] EXCEPT !.manifest = "committed"].dir = rec[tok[w]].dir
          /\ [rec[tok[w]] EXCEPT !.receipt = "torn"].dir = rec[tok[w]].dir
          /\ [rec[tok[w]] EXCEPT !.receipt = "prepared"].dir = rec[tok[w]].dir
      <4>1. rec[tok[w]] \in Record
        BY <1>0
      <4> QED BY <4>1 DEF Record
    <3> QED BY <1>4, <2>1, <3>1 DEF WriteBackup, PrepareManifest,
            PrepareReceipt, CommitManifest, Write, Rec
  <2>3. pc'[w] \notin {"open", "mkdir"}
    BY <1>4, <1>0 DEF WriteBackup, PrepareManifest, PrepareReceipt,
       CommitManifest, Write, Advance, Goto
  <2> QED BY <2>2, <2>3
<1>5. CASE Consume(w)
  BY <1>5, <1>0 DEF Consume, Refuse, Leave, Goto, Branch
<1>6. CASE CommitReceipt(w)
  BY <1>6, <1>0 DEF CommitReceipt, Goto, Record
<1>7. CASE WriteTemp(w) \/ Check(w) \/ Replace(w) \/ Create(w) \/ Fill(w)
           \/ CloseHandle(w) \/ Fail(w)
  BY <1>7, <1>0 DEF WriteTemp, Check, Replace, Create, Fill, CloseHandle, Fail,
                    Advance, Leave, Goto
<1>8. CASE CheckAbsent(w) \/ CheckLanded(w) \/ Recheck(w) \/ MarkDelete(w)
           \/ Verify(w)
  BY <1>8, <1>0 DEF CheckAbsent, CheckLanded, Recheck, MarkDelete, Verify,
                    Advance, Leave, Goto, OnlyCall
<1> QED BY <1>1, <1>2, <1>3, <1>4, <1>5, <1>6, <1>7, <1>8 DEF Step

\* A step that lets nobody through and makes no directory keeps the bounds.
LEMMA NoNewRecord ==
    ASSUME BoundInvariant, [Next]_vars,
           \A t \in Tokens : rec'[t].dir = rec[t].dir, Passed' \subseteq Passed
    PROVE  BoundInvariant'
<1>1. Inv' /\ Records' = Records
  BY NextInv DEF BoundInvariant, Records
<1>2. Unresolved' \subseteq Unresolved
  BY <1>1, FinalStays DEF BoundInvariant, Unresolved, Records
<1>3. IsFiniteSet(Unresolved) /\ Unresolved \subseteq Records
  BY FS_Subset DEF BoundInvariant, Unresolved
<1>4. /\ Cardinality(Unresolved') <= Cardinality(Unresolved)
      /\ Cardinality(Passed') <= Cardinality(Passed)
      /\ Cardinality(Unresolved') \in Nat /\ Cardinality(Unresolved) \in Nat
      /\ Cardinality(Passed') \in Nat /\ Cardinality(Passed) \in Nat
      /\ Cardinality(Records) \in Nat /\ Cardinality(Workers) \in Nat
  BY <1>2, <1>3, PassedFinite, FS_Subset, FS_CardinalityType
     DEF BoundInvariant
<1> QED BY <1>1, <1>4, ScanLimitAssumption DEF BoundInvariant

LEMMA StepBound ==
    ASSUME BoundInvariant, NEW w \in Workers, Step(w)
    PROVE  BoundInvariant'
<1>0. /\ Inv /\ Inv' /\ pc \in [Workers -> Places] /\ tok[w] \in Tokens
      /\ \A v \in Workers \ {w} : pc'[v] = pc[v]
      /\ rec \in [Tokens -> Record]
  BY StepInv, StepFrame, StepLocal DEF BoundInvariant, Inv, TypeOK, CallTypeOK,
     DiskTypeOK
<1>1. Next
  BY DEF Next
<1>2. CASE InventoryClear /\ rec' = rec
  <2>1. Records' = Records /\ Unresolved = {} /\ Unresolved' = {}
    BY <1>2 DEF Records, Unresolved, InventoryClear, NeedsAttention
  <2>2. Cardinality(Passed') <= Cardinality(Workers) /\ Cardinality(Passed') \in Nat
    <3>1. Passed' \subseteq Workers
      BY DEF Passed
    <3> QED BY <3>1, WorkersAssumption, FS_Subset, FS_CardinalityType
  <2>3. Cardinality(Unresolved') = 0
    BY <2>1, FS_EmptySet
  <2>4. Cardinality(Records) <= ScanLimit /\ Cardinality(Records) \in Nat
    BY <1>2, FS_CardinalityType DEF InventoryClear, BoundInvariant
  <2> QED BY <1>0, <2>1, <2>2, <2>3, <2>4, PassedFinite, ScanLimitAssumption
          DEF BoundInvariant
<1>3. CASE /\ pc[w] = "mkdir" /\ pc'[w] = "backup" /\ ~rec[tok[w]].dir
           /\ rec' = [rec EXCEPT ![tok[w]].dir = TRUE]
  <2>1. /\ Records' = Records \cup {tok[w]} /\ tok[w] \notin Records
        /\ Passed' = Passed \ {w} /\ w \in Passed
    BY <1>0, <1>3 DEF Records, Passed, Record
  <2>2. Unresolved' \subseteq Unresolved \cup {tok[w]} /\ tok[w] \notin Unresolved
    BY <1>0, <1>3, <2>1 DEF Unresolved, Records, Record
  <2>3. /\ IsFiniteSet(Unresolved) /\ Cardinality(Unresolved) \in Nat
        /\ IsFiniteSet(Records) /\ Cardinality(Records) \in Nat
    BY FS_Subset, FS_CardinalityType DEF BoundInvariant, Unresolved
  <2>4. /\ IsFiniteSet(Records')
        /\ Cardinality(Records') = Cardinality(Records) + 1
    BY <2>1, <2>3, FS_AddElement
  <2>5. Cardinality(Unresolved') <= Cardinality(Unresolved) + 1
        /\ Cardinality(Unresolved') \in Nat
    <3>1. /\ IsFiniteSet(Unresolved \cup {tok[w]})
          /\ Cardinality(Unresolved \cup {tok[w]}) = Cardinality(Unresolved) + 1
      BY <2>2, <2>3, FS_AddElement
    <3> QED BY <2>2, <3>1, FS_Subset, FS_CardinalityType
  <2>6. Cardinality(Passed') = Cardinality(Passed) - 1
    BY <2>1, PassedFinite, FS_RemoveElement
  <2> QED BY <1>0, <2>3, <2>4, <2>5, <2>6, PassedFinite, ScanLimitAssumption
          DEF BoundInvariant
<1>4. CASE /\ \A t \in Tokens : rec'[t].dir = rec[t].dir
           /\ pc'[w] \in {"open", "mkdir"} => pc[w] \in {"open", "mkdir"}
  <2>1. Passed' \subseteq Passed
    BY <1>0, <1>4 DEF Passed
  <2> QED BY <1>1, <1>4, <2>1, NoNewRecord
<1> QED BY <1>0, <1>2, <1>3, <1>4, StepDirs

LEMMA BoundNext == BoundInvariant /\ [Next]_vars => BoundInvariant'
<1> SUFFICES ASSUME BoundInvariant, [Next]_vars PROVE BoundInvariant'
  OBVIOUS
<1>1. CASE \E w \in Workers : Step(w)
  BY <1>1, StepBound
<1>2. CASE rec' = rec /\ \A w \in Workers : pc'[w] \in {"open", "mkdir"} =>
               pc[w] \in {"open", "mkdir"}
  <2>1. Passed' \subseteq Passed
    BY <1>2 DEF Passed
  <2> QED BY <1>2, <2>1, NoNewRecord
<1>3. CASE \E w \in Workers, t \in Tokens : Call(w, t)
  BY <1>2, <1>3 DEF Call, OnlyCall, Goto, BoundInvariant, Inv, TypeOK,
                    CallTypeOK
<1>4. CASE Crash
  BY <1>2, <1>4 DEF Crash
<1>5. CASE UNCHANGED <<rec, pc>>
  BY <1>2, <1>5
<1> QED
  BY <1>1, <1>3, <1>4, <1>5 DEF Next, Preview, PreviewEdit, PreviewDelete,
     PreviewMove, PreviewRestore, Remember, Forget, Remove, Save, vars, callVars

LEMMA BoundInit == Init => BoundInvariant
<1> SUFFICES ASSUME Init PROVE BoundInvariant
  OBVIOUS
<1>1. Records = {} /\ Unresolved = {} /\ Passed = {}
  BY DEF Init, Records, Unresolved, Passed, NoRecord
<1>2. Cardinality(Records) = 0 /\ Cardinality(Passed) = 0
      /\ Cardinality(Unresolved) = 0 /\ IsFiniteSet(Records)
  BY <1>1, FS_EmptySet
<1> QED BY <1>2, InitInv, PassedFinite, ScanLimitAssumption
        DEF BoundInvariant

\* Every caller that passed the scan limit holds at most one record that is
\* not resolved: the part of the count the two bounds below come from.
THEOREM BoundInvariance == Spec => []BoundInvariant
  BY BoundInit, BoundNext, PTL DEF Spec

\* The recovery directory outgrows its scan limit by at most one record for
\* each call that can run at once, however they interleave.
THEOREM RecordsBoundedHolds == Spec => []RecordsBounded
<1>1. BoundInvariant => RecordsBounded
  BY PassedFinite, FS_CardinalityType, ScanLimitAssumption
     DEF BoundInvariant, RecordsBounded
<1> QED BY <1>1, BoundInvariance, PTL

\* There are never more unresolved transactions than calls that can run at
\* once: a sequential caller has one at most, over every crash and restart.
THEOREM UnresolvedBoundedHolds == Spec => []UnresolvedBounded
<1>1. BoundInvariant => UnresolvedBounded
  <2> SUFFICES ASSUME BoundInvariant PROVE UnresolvedBounded
    OBVIOUS
  <2>1. Cardinality(Unresolved) \in Nat
    BY FS_Subset, FS_CardinalityType DEF BoundInvariant, Unresolved
  <2> QED BY <2>1, PassedFinite
          DEF BoundInvariant, UnresolvedBounded, Unresolved
<1> QED BY <1>1, BoundInvariance, PTL

-----------------------------------------------------------------------------
(* What a preview can have put into a plan.                                *)

GoodPlan(p) ==
    /\ p \in Plan
    /\ p.act \in Replaces \cup Guards => p.before \in Data
    /\ p.act \in Replaces \cup Creates => p.after \in Data
    /\ p.act \in Replaces \cup Guards => p.note \in Notes
    /\ p.act \in Creates => p.draft \in Drafts
    /\ p.act = "move_draft" => p.after = p.before
    /\ p.act = "delete_note" => p.after = Absent

PlanInvariant ==
    /\ Inv
    /\ \A t \in Tokens : plan[t] # NoPlan => GoodPlan(plan[t])

LEMMA PreviewGood ==
    ASSUME PlanInvariant, NEW t \in Tokens, Preview(t)
    PROVE  \E p : GoodPlan(p) /\ Remember(t, p)
<1> USE DEF GoodPlan, Plan, Acts, Replaces, Guards, Creates
<1>1. CASE PreviewEdit(t)
  <2>1. PICK n \in Notes, d \in Data : fs[n] \in Data /\
            Remember(t, [act |-> "edit_note", note |-> n, draft |-> NoPath,
                     before |-> fs[n], after |-> d, origin |-> NoToken])
    BY <1>1 DEF PreviewEdit
  <2> QED BY <2>1
<1>2. CASE PreviewDelete(t)
  <2>1. PICK n \in Notes : fs[n] \in Data /\
            Remember(t, [act |-> "delete_note", note |-> n, draft |-> NoPath,
                     before |-> fs[n], after |-> Absent, origin |-> NoToken])
    BY <1>2 DEF PreviewDelete
  <2> QED BY <2>1
<1>3. CASE PreviewMove(t)
  <2>1. PICK n \in Notes, d \in Drafts : fs[d] \in Data /\
            Remember(t, [act |-> "move_draft", note |-> n, draft |-> d,
                     before |-> fs[d], after |-> fs[d], origin |-> NoToken])
    BY <1>3 DEF PreviewMove
  <2> QED BY <2>1
<1>4. CASE PreviewRestore(t)
  <2>1. PICK o \in Tokens :
          /\ rec[o].manifest = "committed" /\ Inspectable(o)
          /\ \/ /\ plan[o].act \in Replaces
                /\ fs[plan[o].note] \in Data
                /\ Remember(t, [act |-> "restore_edit", note |-> plan[o].note,
                                draft |-> NoPath, before |-> fs[plan[o].note],
                                after |-> rec[o].backup, origin |-> o])
             \/ /\ plan[o].act = "move_draft"
                /\ fs[plan[o].draft] = Absent
                /\ Remember(t, [act |-> "restore_move_source", note |-> NoPath,
                                draft |-> plan[o].draft, before |-> Absent,
                                after |-> rec[o].backup, origin |-> o])
    BY <1>4 DEF PreviewRestore
  <2>2. GoodPlan(plan[o])
    <3>1. plan[o] \in Plan
      BY <2>1 DEF PlanInvariant, Inv, Planned, Recorded
    <3>2. plan[o] # NoPlan
      BY <3>1, NoPlanAssumption
    <3> QED BY <3>2 DEF PlanInvariant
  <2>3. plan[o].act \in Replaces \cup {"move_draft"} => rec[o].backup \in Data
    BY <2>1, <2>2 DEF Inspectable, Evidence
  <2>4. CASE plan[o].act \in Replaces /\ fs[plan[o].note] \in Data /\
             Remember(t, [act |-> "restore_edit", note |-> plan[o].note,
                          draft |-> NoPath, before |-> fs[plan[o].note],
                          after |-> rec[o].backup, origin |-> o])
    BY <2>2, <2>3, <2>4
  <2>5. CASE plan[o].act = "move_draft" /\
             Remember(t, [act |-> "restore_move_source", note |-> NoPath,
                          draft |-> plan[o].draft, before |-> Absent,
                          after |-> rec[o].backup, origin |-> o])
    BY <2>2, <2>3, <2>5
  <2> QED BY <2>1, <2>4, <2>5
<1> QED BY <1>1, <1>2, <1>3, <1>4 DEF Preview

LEMMA PlanNext == PlanInvariant /\ [Next]_vars => PlanInvariant'
<1> SUFFICES ASSUME PlanInvariant, [Next]_vars PROVE PlanInvariant'
  OBVIOUS
<1>0. Inv /\ Inv'
  BY NextInv DEF PlanInvariant
<1>1. CASE plan' = plan
  BY <1>0, <1>1 DEF PlanInvariant
<1>2. CASE \E t \in Tokens : Preview(t)
  <2>1. PICK t \in Tokens : \E p : GoodPlan(p) /\ Remember(t, p)
    BY <1>2, PreviewGood
  <2>2. PICK p : GoodPlan(p) /\ Remember(t, p)
    BY <2>1
  <2>3. plan' = [plan EXCEPT ![t] = p]
    BY <2>2 DEF Remember
  <2> QED BY <1>0, <2>2, <2>3 DEF PlanInvariant, Inv, TypeOK, DiskTypeOK
<1>3. CASE \E w \in Workers : Step(w)
  BY <1>0, <1>1, <1>3, StepFrame
<1> QED
  BY <1>1, <1>2, <1>3 DEF Next, Forget, Call, OnlyCall, Crash, Remove, Save,
                          vars

LEMMA PlanInit == Init => PlanInvariant
  BY InitInv DEF Init, PlanInvariant

-----------------------------------------------------------------------------
(* The bytes a handle holds.                                               *)

\* A record of the document x has the bytes c, and is not being written.
Kept(x, c) == \E t \in Tokens :
    rec[t].manifest # "none" /\ Evidence(plan[t]) = c /\ x \in PlanPaths(plan[t])

\* A call that reached its protected step but has not let go of its handle.
Pinning == Working \ {"raise", "verify", "commit_manifest", "commit_receipt"}

\* The handle is on the source of a delete or a move; when it is to be
\* deleted, complete bytes in it are in some record.
Holding(w) ==
    /\ pc[w] \in Pinning \cup {"mkdir"} => guard[w] =
           IF PlanOf(w).act \in Guards THEN Source(PlanOf(w)) ELSE NoPath
    /\ pc[w] \in {"absent", "create", "fill"} => PlanOf(w).act \in Creates
    /\ pc[w] \in {"landed", "recheck", "mark", "close"} =>
           PlanOf(w).act \in Guards
    /\ pc[w] = "landed" => PlanOf(w).act = "move_draft"
    /\ pc[w] \in {"temp", "fill_temp", "check", "replace"} =>
           PlanOf(w).act \in Replaces
    /\ pc[w] \in {"mark", "close"} /\ fs[guard[w]] \in Data =>
           Kept(guard[w], fs[guard[w]])

KeepInvariant == PlanInvariant /\ \A w \in Workers : Holding(w)

\* A record that is whole keeps the bytes, whoever runs.
LEMMA KeptStays ==
    ASSUME Inv, [Next]_vars, NEW x, NEW c, Kept(x, c)
    PROVE  Kept(x, c)'
<1>1. PICK t \in Tokens : /\ rec[t].manifest # "none"
                          /\ Evidence(plan[t]) = c /\ x \in PlanPaths(plan[t])
  BY DEF Kept
<1>2. plan[t] \in Plan
  BY <1>1 DEF Inv, Planned, Recorded
<1>3. plan'[t] = plan[t]
  <2>1. CASE \E u \in Tokens : Preview(u)
    <3>1. PICK u \in Tokens, p \in Plan : Remember(u, p)
      BY <2>1, PreviewPlan
    <3>2. u # t
      BY <1>2, <3>1, NoPlanAssumption DEF Remember
    <3> QED BY <3>1, <3>2 DEF Remember, Inv, TypeOK, DiskTypeOK
  <2>2. CASE \E w \in Workers : Step(w)
    BY <2>2, StepFrame
  <2> QED BY <2>1, <2>2 DEF Next, Forget, Call, OnlyCall, Crash, Remove, Save,
                            vars
<1>4. rec'[t].manifest # "none"
  <2>1. CASE \E w \in Workers : Step(w)
    <3>1. PICK w \in Workers : Step(w)
      BY <2>1
    <3>2. CASE tok[w] # t
      BY <1>1, <3>1, <3>2, StepFrame DEF Inv, TypeOK, DiskTypeOK
    <3>3. CASE tok[w] = t
      <4>1. Stands(w) /\ rec \in [Tokens -> Record] /\ rec[t] \in Record
            /\ rec[t].dir
        BY <1>1 DEF Inv, TypeOK, DiskTypeOK, Recorded
      <4>2. CASE WriteBackup(w) \/ PrepareManifest(w)
        BY <1>1, <3>3, <4>1, <4>2 DEF WriteBackup, PrepareManifest, Stands, Rec
      <4>3. CASE MakeDir(w)
        BY <1>1, <3>3, <4>1, <4>3 DEF MakeDir, Rec
      <4>4. CASE PrepareReceipt(w) \/ CommitManifest(w) \/ CommitReceipt(w)
        BY <1>1, <3>3, <4>1, <4>4 DEF PrepareReceipt, CommitManifest,
           CommitReceipt, Write, Rec, Record
      <4>5. CASE rec' = rec
        BY <1>1, <4>5
      <4> QED BY <3>1, <4>2, <4>3, <4>4, <4>5 DEF Step, Approve, Revalidate,
          Inventory, Open, Consume, WriteTemp, Check, Replace, CheckAbsent,
          Create, Fill, CheckLanded, Recheck, MarkDelete, CloseHandle, Verify,
          Fail, OnlyCall
    <3> QED BY <3>2, <3>3
  <2>2. CASE rec' = rec
    BY <1>1, <2>2
  <2> QED
    BY <2>1, <2>2 DEF Next, Preview, PreviewEdit, PreviewDelete, PreviewMove,
       PreviewRestore, Remember, Forget, Call, OnlyCall, Crash, Remove, Save,
       vars
<1> QED BY <1>1, <1>3, <1>4 DEF Kept

LEMMA KeptBackup ==
    ASSUME Inv, NEW x, NEW c, Kept(x, c)
    PROVE  \E t \in Tokens : rec[t].backup = c /\ x \in PlanPaths(plan[t])
  BY DEF Inv, Kept, Recorded

\* A call past its preparation has the evidence of its plan.
LEMMA OwnKept ==
    ASSUME Inv, NEW w \in Workers, pc[w] \in Ready,
           NEW x \in PlanPaths(PlanOf(w))
    PROVE  Kept(x, Evidence(PlanOf(w)))
<1>1. tok[w] \in Tokens /\ Rec(w).manifest = "prepared"
  BY DEF Inv, Planned, Stands, Ready, Working, Protected
<1> QED BY <1>1 DEF Kept, Rec, PlanOf

\* The plan of a call, and the paths it names.
LEMMA CallPlan ==
    ASSUME PlanInvariant, NEW w \in Workers, pc[w] # "idle"
    PROVE  /\ GoodPlan(PlanOf(w)) /\ tok[w] \in Tokens
           /\ PlanOf(w).act \in Guards => Source(PlanOf(w)) \in Paths
           /\ PlanOf(w).act \in Creates =>
                  Landing(PlanOf(w)) \in Paths \cap PlanPaths(PlanOf(w))
           /\ PlanOf(w).act \in Replaces =>
                  PlanOf(w).note \in Paths \cap PlanPaths(PlanOf(w))
           /\ Source(PlanOf(w)) \in PlanPaths(PlanOf(w))
<1>1. tok[w] \in Tokens /\ PlanOf(w) \in Plan
  BY DEF PlanInvariant, Inv, Planned, PlanOf
<1>2. GoodPlan(PlanOf(w))
  <2>1. PlanOf(w) # NoPlan
    BY <1>1, NoPlanAssumption
  <2> QED BY <1>1, <2>1 DEF PlanInvariant, PlanOf
<1> QED BY <1>1, <1>2 DEF GoodPlan, Plan, Acts, Replaces, Guards, Creates,
        Source, Landing, PlanPaths, Paths

\* Bytes a step puts into a document that another call's handle pins, or
\* takes out of a document, are in a record.
LEMMA StepPuts ==
    ASSUME KeepInvariant, NEW w \in Workers, Step(w), NEW x \in Paths,
           fs'[x] # fs[x]
    PROVE  /\ \/ \A v \in Workers \ {w} : guard[v] # x
              \/ fs'[x] \notin Data
              \/ Kept(x, fs'[x])
           /\ fs[x] \in Data /\ ~Unseen(x) => Kept(x, fs[x])
<1>0. /\ PlanInvariant /\ Inv /\ Holding(w) /\ fs \in [Paths -> Content]
      /\ pc[w] # "idle" /\ (marked[w] => pc[w] = "close")
  BY StepFrame DEF KeepInvariant, PlanInvariant, Inv, TypeOK, DiskTypeOK, Owned
<1>a. /\ GoodPlan(PlanOf(w))
      /\ PlanOf(w).act \in Guards => Source(PlanOf(w)) \in Paths
      /\ PlanOf(w).act \in Creates =>
             Landing(PlanOf(w)) \in Paths \cap PlanPaths(PlanOf(w))
      /\ PlanOf(w).act \in Replaces =>
             PlanOf(w).note \in Paths \cap PlanPaths(PlanOf(w))
  BY <1>0, CallPlan
<1>b. Torn \notin Data /\ Absent \notin Data
  BY ContentAssumption
<1>1. CASE Replace(w)
  <2>1. /\ x = PlanOf(w).note /\ pc[w] = "replace" /\ Free(w, x)
        /\ PlanOf(w).act \in Replaces
    BY <1>0, <1>1 DEF Replace, Put, Holding
  <2>2. ~Unseen(x) => fs[x] = PlanOf(w).before
    BY <2>1 DEF Unseen
  <2>3. Kept(x, PlanOf(w).before)
    <3>1. pc[w] \in Ready /\ x \in PlanPaths(PlanOf(w))
      BY <1>a, <2>1 DEF Ready, Working, Protected
    <3>2. Evidence(PlanOf(w)) = PlanOf(w).before
      BY <2>1 DEF Evidence, Replaces
    <3> QED BY <1>0, <3>1, <3>2, OwnKept
  <2> QED BY <2>1, <2>2, <2>3 DEF Free
<1>2. CASE Create(w)
  BY <1>0, <1>2, <1>b DEF Create, Put
<1>3. CASE Fill(w)
  <2>1. /\ x = Landing(PlanOf(w)) /\ pc[w] = "fill"
        /\ fs' = [fs EXCEPT ![x] = IF fs[x] = Torn THEN PlanOf(w).after ELSE Torn]
    BY <1>0, <1>3 DEF Fill, Put
  <2>2. PlanOf(w).act \in Creates /\ pc[w] \in Ready
    BY <1>0, <2>1 DEF Holding, Ready, Working, Protected
  <2>3. Evidence(PlanOf(w)) = PlanOf(w).after
    BY <1>a, <2>2 DEF GoodPlan, Creates, Evidence
  <2>4. Kept(x, PlanOf(w).after)
    BY <1>0, <1>a, <2>1, <2>2, <2>3, OwnKept
  <2>5. fs'[x] = PlanOf(w).after \/ fs'[x] = Torn
    BY <1>0, <2>1
  <2>6. fs[x] \in Data => Unseen(x)
    BY <1>b, <2>1 DEF Unseen
  <2> QED BY <1>b, <2>4, <2>5, <2>6
<1>4. CASE CloseHandle(w) \/ (Fail(w) /\ marked[w])
  <2>1. x = guard[w] /\ pc[w] = "close" /\ fs'[x] = Absent
    BY <1>0, <1>4 DEF CloseHandle, Fail, Put
  <2> QED BY <1>0, <1>b, <2>1 DEF Holding
<1>5. CASE fs' = fs
  BY <1>5
<1> QED
  BY <1>1, <1>2, <1>3, <1>4, <1>5 DEF Step, Approve, Revalidate, Inventory,
     Open, MakeDir, WriteBackup, PrepareManifest, PrepareReceipt, Consume,
     WriteTemp, Check, CheckAbsent, CheckLanded, Recheck, MarkDelete, Verify,
     CommitManifest, CommitReceipt, Fail, Write, OnlyCall

LEMMA StepHolding ==
    ASSUME KeepInvariant, NEW w \in Workers, Step(w)
    PROVE  Holding(w)'
<1>0. /\ PlanInvariant /\ Inv /\ Holding(w) /\ Next
      /\ pc \in [Workers -> Places] /\ guard \in [Workers -> Paths \cup {NoPath}]
      /\ pc[w] # "idle" /\ PlanOf(w)' = PlanOf(w)
  BY StepFrame DEF KeepInvariant, PlanInvariant, Inv, TypeOK, CallTypeOK,
                   PlanOf, Next
<1>1. /\ PlanOf(w).act \in Acts
      /\ Source(PlanOf(w)) \in PlanPaths(PlanOf(w))
      /\ PlanOf(w).act \in Guards => Source(PlanOf(w)) \in Paths
  BY <1>0, CallPlan DEF GoodPlan, Plan
<1>2. /\ pc'[w] \in Pinning \cup {"mkdir"} => guard'[w] =
             IF PlanOf(w).act \in Guards THEN Source(PlanOf(w)) ELSE NoPath
      /\ pc'[w] \in {"absent", "create", "fill"} => PlanOf(w).act \in Creates
      /\ pc'[w] \in {"landed", "recheck", "mark", "close"} =>
             PlanOf(w).act \in Guards
      /\ pc'[w] = "landed" => PlanOf(w).act = "move_draft"
      /\ pc'[w] \in {"temp", "fill_temp", "check", "replace"} =>
             PlanOf(w).act \in Replaces
  <2> USE <1>0, <1>1 DEF Holding, Pinning, Working, Protected
  <2>1. CASE Approve(w) \/ Revalidate(w) \/ Inventory(w)
    BY <2>1 DEF Approve, Revalidate, Inventory, Advance, Refuse, Leave, Goto
  <2>2. CASE Open(w)
    BY <2>2 DEF Open, Refuse, Leave, Goto
  <2>3. CASE MakeDir(w)
    BY <2>3 DEF MakeDir, Refuse, Leave, Goto
  <2>4. CASE WriteBackup(w) \/ PrepareManifest(w) \/ PrepareReceipt(w)
             \/ CommitManifest(w) \/ CommitReceipt(w)
    BY <2>4 DEF WriteBackup, PrepareManifest, PrepareReceipt, CommitManifest,
                CommitReceipt, Write, Advance, Goto
  <2>5. CASE Consume(w)
    BY <2>5 DEF Consume, Branch, Refuse, Leave, Goto, Acts, Replaces, Guards,
                Creates
  <2>6. CASE WriteTemp(w) \/ Check(w) \/ Replace(w)
    BY <2>6 DEF WriteTemp, Check, Replace, Advance, Leave, Goto
  <2>7. CASE CheckAbsent(w) \/ Create(w)
    BY <2>7 DEF CheckAbsent, Create, Leave, Goto
  <2>8. CASE Fill(w)
    BY <2>8 DEF Fill, Goto, Guards, Creates
  <2>9. CASE CheckLanded(w) \/ Recheck(w) \/ MarkDelete(w) \/ CloseHandle(w)
             \/ Verify(w) \/ Fail(w)
    BY <2>9 DEF CheckLanded, Recheck, MarkDelete, CloseHandle, Verify, Fail,
                Advance, Leave, Goto
  <2> QED BY <2>1, <2>2, <2>3, <2>4, <2>5, <2>6, <2>7, <2>8, <2>9 DEF Step
<1>3. pc'[w] \in {"mark", "close"} /\ fs'[guard'[w]] \in Data =>
          Kept(guard[w], fs[guard[w]])'
  <2>1. CASE Recheck(w) /\ pc'[w] = "mark"
    <3>1. /\ pc[w] = "recheck" /\ UNCHANGED <<fs, guard>>
          /\ fs[Source(PlanOf(w))] = PlanOf(w).before
      BY <1>0, <2>1 DEF Recheck, Leave, Goto, OnlyCall
    <3>2. guard[w] = Source(PlanOf(w)) /\ pc[w] \in Ready
          /\ Evidence(PlanOf(w)) = PlanOf(w).before
      BY <1>0, <3>1 DEF Holding, Pinning, Ready, Working, Protected, Guards,
                        Evidence
    <3>3. Kept(guard[w], Evidence(PlanOf(w)))
      <4>1. guard[w] \in PlanPaths(PlanOf(w))
        BY <1>1, <3>2
      <4> QED BY <1>0, <3>2, <4>1, OwnKept
    <3>4. ASSUME NEW x, NEW c, x = guard[w], c = fs[guard[w]]
          PROVE  Kept(x, c)'
      <4>1. Kept(x, c)
        BY <3>1, <3>2, <3>3, <3>4
      <4> QED BY <1>0, <4>1, KeptStays
    <3>5. Kept(guard[w], fs[guard[w]])'
      BY <3>1, <3>4 DEF Kept
    <3> QED BY <3>1, <3>5 DEF Kept
  <2>2. CASE MarkDelete(w)
    <3>1. pc[w] = "mark" /\ UNCHANGED <<fs, guard, rec, plan>>
      BY <2>2 DEF MarkDelete, OnlyCall
    <3> QED BY <1>0, <3>1 DEF Holding, Kept
  <2>3. CASE pc'[w] \notin {"mark", "close"}
    BY <2>3
  <2>4. pc'[w] \in {"mark", "close"} =>
            (Recheck(w) /\ pc'[w] = "mark") \/ MarkDelete(w)
    <3>1. CASE Approve(w) \/ Revalidate(w) \/ Inventory(w) \/ Open(w)
               \/ MakeDir(w) \/ Recheck(w)
      BY <1>0, <3>1 DEF Approve, Revalidate, Inventory, Open, MakeDir, Recheck,
                        Advance, Refuse, Leave, Goto
    <3>2. CASE WriteBackup(w) \/ PrepareManifest(w) \/ PrepareReceipt(w)
               \/ CommitManifest(w) \/ CommitReceipt(w) \/ Verify(w)
      BY <1>0, <3>2 DEF WriteBackup, PrepareManifest, PrepareReceipt,
         CommitManifest, CommitReceipt, Verify, Write, Advance, Leave, Goto
    <3>3. CASE Consume(w)
      BY <1>0, <3>3 DEF Consume, Branch, Refuse, Leave, Goto
    <3>4. CASE WriteTemp(w) \/ Check(w) \/ Replace(w) \/ CheckAbsent(w)
               \/ Create(w) \/ Fill(w)
      BY <1>0, <3>4 DEF WriteTemp, Check, Replace, CheckAbsent, Create, Fill,
                        Advance, Leave, Goto
    <3>5. CASE CheckLanded(w) \/ CloseHandle(w) \/ Fail(w)
      BY <1>0, <3>5 DEF CheckLanded, CloseHandle, Fail, Advance, Leave, Goto
    <3> QED BY <3>1, <3>2, <3>3, <3>4, <3>5 DEF Step
  <2> QED BY <2>1, <2>2, <2>3, <2>4
<1> QED BY <1>0, <1>2, <1>3 DEF Holding, Kept

\* A call whose handle is to be deleted keeps what is said of it, as long as
\* nothing that is in no record comes into the document.
LEMMA OtherHolding ==
    ASSUME KeepInvariant, [Next]_vars, NEW v \in Workers,
           pc'[v] = pc[v], guard'[v] = guard[v], tok'[v] = tok[v],
           \/ pc[v] \notin {"mark", "close"}
           \/ fs'[guard[v]] = fs[guard[v]]
           \/ fs'[guard[v]] \notin Data
           \/ Kept(guard[v], fs'[guard[v]])
    PROVE  Holding(v)'
<1>0. Inv /\ Inv' /\ PlanInvariant /\ PlanInvariant' /\ Holding(v)
  BY NextInv, PlanNext DEF KeepInvariant, PlanInvariant
<1>1. CASE pc[v] = "idle"
  BY <1>1 DEF Holding, Pinning, Working, Protected
<1>2. CASE pc[v] # "idle"
  <2>1. plan'[tok[v]] = plan[tok[v]]
    <3>1. tok[v] \in Tokens /\ plan[tok[v]] \in Plan
      BY <1>0, <1>2 DEF Inv, Planned
    <3>2. CASE \E u \in Tokens : Preview(u)
      <4>1. PICK u \in Tokens, p \in Plan : Remember(u, p)
        BY <1>0, <3>2, PreviewPlan
      <4>2. u # tok[v]
        BY <3>1, <4>1, NoPlanAssumption DEF Remember
      <4> QED BY <3>1, <4>1, <4>2
              DEF Remember, PlanInvariant, Inv, TypeOK, DiskTypeOK
    <3>3. CASE \E w \in Workers : Step(w)
      BY <1>0, <3>3, StepFrame
    <3> QED BY <3>2, <3>3 DEF Next, Forget, Call, OnlyCall, Crash, Remove,
                              Save, vars
  <2>2. PlanOf(v)' = PlanOf(v)
    BY <2>1 DEF PlanOf
  <2>3. ASSUME fs'[guard[v]] \in Data, pc[v] \in {"mark", "close"}
        PROVE  Kept(guard[v], fs[guard[v]])'
    <3>1. PICK x : x = guard[v]
      OBVIOUS
    <3>2. PICK c : c = fs'[guard[v]]
      OBVIOUS
    <3>3. Kept(x, c)
      BY <1>0, <1>2, <2>3, <3>1, <3>2 DEF Holding
    <3>4. Kept(x, c)'
      BY <1>0, <3>3, KeptStays
    <3> QED BY <3>1, <3>2, <3>4 DEF Kept
  <2> QED BY <1>0, <2>2, <2>3 DEF Holding
<1> QED BY <1>1, <1>2

LEMMA KeepNext == KeepInvariant /\ [Next]_vars => KeepInvariant'
<1> SUFFICES ASSUME KeepInvariant, [Next]_vars PROVE KeepInvariant'
  OBVIOUS
<1>0. /\ PlanInvariant /\ PlanInvariant' /\ Inv
      /\ fs \in [Paths -> Content] /\ pc \in [Workers -> Places]
      /\ tok \in [Workers -> Tokens \cup {NoToken}]
  BY PlanNext DEF KeepInvariant, PlanInvariant, Inv, TypeOK, CallTypeOK,
                  DiskTypeOK
<1>p. \A v \in Workers : pc[v] \in {"mark", "close"} => guard[v] \in Paths
  <2> SUFFICES ASSUME NEW v \in Workers, pc[v] \in {"mark", "close"}
               PROVE  guard[v] \in Paths
    OBVIOUS
  <2>1. guard[v] = Source(PlanOf(v)) /\ PlanOf(v).act \in Guards
    BY DEF KeepInvariant, Holding, Pinning, Working, Protected
  <2> QED BY <1>0, <2>1, CallPlan
<1>1. CASE \E w \in Workers : Step(w)
  <2>1. PICK w \in Workers : Step(w)
    BY <1>1
  <2>2. Holding(w)'
    BY <2>1, StepHolding
  <2>3. ASSUME NEW v \in Workers \ {w} PROVE Holding(v)'
    <3>1. pc'[v] = pc[v] /\ guard'[v] = guard[v] /\ tok'[v] = tok[v]
      BY <1>0, <2>1, StepLocal, StepFrame
    <3>2. \/ pc[v] \notin {"mark", "close"}
          \/ fs'[guard[v]] = fs[guard[v]]
          \/ fs'[guard[v]] \notin Data
          \/ Kept(guard[v], fs'[guard[v]])
      BY <1>p, <2>1, StepPuts
    <3> QED BY <3>1, <3>2, OtherHolding
  <2> QED BY <1>0, <2>2, <2>3 DEF KeepInvariant
<1>2. CASE \E w \in Workers, t \in Tokens : Call(w, t)
  <2>1. PICK w \in Workers, t \in Tokens : Call(w, t)
    BY <1>2
  <2>2. /\ UNCHANGED <<fs, plan, rec, guard>> /\ pc'[w] \in {"idle", "approve"}
        /\ \A v \in Workers \ {w} : pc'[v] = pc[v] /\ tok'[v] = tok[v]
    BY <1>0, <2>1 DEF Call, OnlyCall, Goto
  <2>3. Holding(w)'
    BY <2>2 DEF Holding, Pinning, Working, Protected
  <2>4. \A v \in Workers \ {w} : Holding(v)'
    BY <2>2, OtherHolding
  <2> QED BY <1>0, <2>3, <2>4 DEF KeepInvariant
<1>3. CASE Crash
  BY <1>0, <1>3 DEF Crash, KeepInvariant, Holding, Pinning, Working, Protected
<1>4. CASE UNCHANGED <<fs, callVars>>
  BY <1>0, <1>4, OtherHolding DEF callVars, KeepInvariant
<1>5. CASE UNCHANGED callVars /\ \E x \in EditPaths :
               Openable(x) /\ \E c : fs' = [fs EXCEPT ![x] = c]
  <2>1. PICK x \in EditPaths : Openable(x) /\ \E c : fs' = [fs EXCEPT ![x] = c]
    BY <1>5
  <2>2. ASSUME NEW v \in Workers PROVE Holding(v)'
    <3>1. pc'[v] = pc[v] /\ guard'[v] = guard[v] /\ tok'[v] = tok[v]
      BY <1>5 DEF callVars
    <3>2. pc[v] \in {"mark", "close"} => fs'[guard[v]] = fs[guard[v]]
      BY <1>0, <1>p, <2>1 DEF Openable
    <3> QED BY <3>1, <3>2, OtherHolding
  <2> QED BY <1>0, <2>2 DEF KeepInvariant
<1>6. CASE \E x \in EditPaths : Remove(x) \/ \E d \in Data : Save(x, d)
  BY <1>5, <1>6 DEF Remove, Save
<1> QED BY <1>1, <1>2, <1>3, <1>4, <1>6 DEF Next, Preview, PreviewEdit,
        PreviewDelete, PreviewMove, PreviewRestore, Remember, Forget, vars

\* What a call holds or has written stands in a document, a backup, the
\* temporary file or the call itself until its last step.
THEOREM KeepInvariance == Spec => []KeepInvariant
<1>1. Init => KeepInvariant
  BY PlanInit DEF Init, KeepInvariant, Holding, Pinning, Working, Protected
<1> QED BY <1>1, KeepNext, PTL DEF Spec

\* No call, no exception handler and no crash takes complete bytes out of a
\* document that no record of it has, but for the two windows Unseen names,
\* whoever else saves or deletes documents meanwhile.
THEOREM NothingLostHolds == Spec => NothingLost
<1> DEFINE Kept1 == pc' # pc => \A x \in Paths :
               fs[x] \in Data /\ fs'[x] # fs[x] /\ ~Unseen(x) =>
               \E t \in Tokens : rec[t].backup = fs[x] /\ x \in PlanPaths(plan[t])
<1>1. KeepInvariant /\ [Next]_vars => Kept1
  <2> SUFFICES ASSUME KeepInvariant, [Next]_vars, pc' # pc, NEW x \in Paths,
                      fs[x] \in Data, fs'[x] # fs[x], ~Unseen(x)
               PROVE  \E t \in Tokens : /\ rec[t].backup = fs[x]
                                        /\ x \in PlanPaths(plan[t])
    OBVIOUS
  <2>0. Inv
    BY DEF KeepInvariant, PlanInvariant
  <2>1. CASE \E w \in Workers : Step(w)
    <3>1. Kept(x, fs[x])
      BY <2>1, StepPuts
    <3> QED BY <2>0, <3>1, KeptBackup
  <2>2. CASE Crash
    <3>1. PICK w \in Workers : marked[w] /\ guard[w] = x
      BY <2>2 DEF Crash, KeepInvariant, PlanInvariant, Inv, TypeOK, DiskTypeOK
    <3>2. pc[w] = "close"
      BY <2>0, <3>1 DEF Inv, Owned
    <3>3. Kept(x, fs[x])
      BY <3>1, <3>2 DEF KeepInvariant, Holding
    <3> QED BY <2>0, <3>3, KeptBackup
  <2>3. UNCHANGED fs \/ UNCHANGED pc \/ Crash \/ \E w \in Workers : Step(w)
    BY DEF Next, Preview, PreviewEdit, PreviewDelete, PreviewMove,
       PreviewRestore, Remember, Forget, Call, OnlyCall, Remove, Save, vars,
       callVars
  <2> QED BY <2>1, <2>2, <2>3
<1>2. NothingLost <=> [][Kept1]_vars
  BY DEF NothingLost
<1> HIDE DEF Kept1
<1> QED BY <1>1, <1>2, KeepInvariance, PTL DEF Spec

\* A call that works on its record never goes back to making its directory.
LEMMA StepBack ==
    ASSUME NEW w \in Workers, pc \in [Workers -> Places], Step(w),
           pc[w] \in Working
    PROVE  pc'[w] \notin {"open", "mkdir"}
<1> USE DEF Working, Protected
<1>1. CASE Consume(w)
  BY <1>1 DEF Consume, Branch, Refuse, Leave, Goto
<1>2. CASE Approve(w) \/ Revalidate(w) \/ Inventory(w) \/ Open(w)
           \/ MakeDir(w)
  BY <1>2 DEF Approve, Revalidate, Inventory, Open, MakeDir
<1>3. CASE WriteBackup(w) \/ PrepareManifest(w) \/ PrepareReceipt(w)
           \/ CommitManifest(w) \/ CommitReceipt(w) \/ Verify(w)
  BY <1>3 DEF WriteBackup, PrepareManifest, PrepareReceipt, CommitManifest,
     CommitReceipt, Verify, Write, Advance, Leave, Goto
<1>4. CASE WriteTemp(w) \/ Check(w) \/ Replace(w) \/ CheckAbsent(w)
           \/ Create(w) \/ Fill(w)
  BY <1>4 DEF WriteTemp, Check, Replace, CheckAbsent, Create, Fill, Advance,
              Leave, Goto
<1>5. CASE CheckLanded(w) \/ Recheck(w) \/ MarkDelete(w) \/ CloseHandle(w)
           \/ Fail(w)
  BY <1>5 DEF CheckLanded, Recheck, MarkDelete, CloseHandle, Fail, Advance,
              Leave, Goto
<1> QED BY <1>1, <1>2, <1>3, <1>4, <1>5 DEF Step

-----------------------------------------------------------------------------
(* What the inspection of a record left behind can tell.                   *)

\* One caller, and nobody else writes the documents.
Alone == EditPaths = {} /\ \A v, w \in Workers : v = w

\* While a call stands here its documents are as previewed, but a move's
\* target, once it is there, counts as changed.
Intact(w) ==
    \/ pc[w] \in Recording \cup {"mkdir", "temp", "fill_temp", "check",
                                 "replace", "absent", "create"}
    \/ pc[w] \in {"recheck", "mark", "close"} /\ PlanOf(w).act # "move_draft"

Altered(w) ==
    \/ pc[w] \in {"raise", "fill", "landed", "verify", "commit_manifest",
                  "commit_receipt"}
    \/ pc[w] \in {"recheck", "mark", "close"} /\ PlanOf(w).act = "move_draft"

\* The documents do not pass for untouched any more.
Shows(t) == t \in touched /\ (~Untouched(plan[t], fs) \/ NoOp(plan[t]))

Sees(w) ==
    /\ Intact(w) => Untouched(PlanOf(w), fs)
    /\ Intact(w) /\ pc[w] # "mkdir" => tok[w] \notin touched
    /\ Altered(w) => Shows(tok[w])
    /\ pc[w] \in {"check", "replace"} => temp[tok[w]] = PlanOf(w).after

\* The bytes of the documents tell whether t took effect.
Exact(t) ==
    rec[t].manifest = "prepared" /\ ~NoOp(plan[t]) =>
        /\ Untouched(plan[t], fs) => t \notin touched
        /\ ~Untouched(plan[t], fs) /\ (Applied(plan[t], fs) \/ Duplicated(plan[t], fs))
               => t \in touched

\* Past the inventory a call is the only unresolved transaction.
Sole(w) == pc[w] \in Protected => \A t \in Records :
    rec[t].receipt = "committed" \/ (t = tok[w] /\ pc[w] \in Working)

DiagInvariant ==
    /\ KeepInvariant
    /\ \A w \in Workers : Sees(w) /\ Sole(w)
    /\ \A t \in Tokens : Exact(t)

LEMMA DiagTypes ==
    ASSUME DiagInvariant
    PROVE  /\ Inv /\ PlanInvariant
           /\ fs \in [Paths -> Content] /\ temp \in [Tokens -> Content]
           /\ rec \in [Tokens -> Record] /\ touched \subseteq Tokens
           /\ pc \in [Workers -> Places] /\ plan \in [Tokens -> Plan \cup {NoPlan}]
           /\ \A t \in Tokens : rec[t].manifest = "prepared" =>
                  rec[t].dir /\ rec[t].receipt # "committed"
  BY DEF DiagInvariant, KeepInvariant, PlanInvariant, Inv, TypeOK, DiskTypeOK,
         CallTypeOK, Recorded

LEMMA StepSole ==
    ASSUME DiagInvariant, NEW w \in Workers, Step(w)
    PROVE  Sole(w)'
<1>0. /\ Inv /\ tok[w] \in Tokens /\ tok' = tok /\ pc[w] # "idle"
      /\ pc \in [Workers -> Places] /\ Sole(w)
      /\ \A t \in Tokens \ {tok[w]} : rec'[t] = rec[t]
  BY DiagTypes, StepFrame DEF DiagInvariant
<1>1. CASE InventoryClear /\ rec' = rec
  BY <1>1 DEF Sole, Records, InventoryClear, NeedsAttention
<1>2. CASE pc[w] \in Protected /\ pc'[w] \in Protected
  <2> SUFFICES ASSUME NEW t \in Tokens, rec'[t].dir
               PROVE  rec'[t].receipt = "committed"
                      \/ (t = tok[w] /\ pc'[w] \in Working)
    BY <1>0 DEF Sole, Records
  <2>1. CASE t # tok[w]
    BY <1>0, <1>2, <2>1 DEF Sole, Records
  <2>2. CASE t = tok[w] /\ pc'[w] \notin Working
    <3>1. pc[w] \notin Working /\ pc'[w] \in {"open", "mkdir"}
      BY <1>0, <1>2, <2>2, StepBack DEF Working
    <3>2. rec'[t].dir = rec[t].dir /\ rec'[t] = rec[t]
      BY <1>0, <2>2, <3>1, StepDirs, StepOwn
    <3> QED BY <1>0, <1>2, <2>2, <3>1, <3>2 DEF Sole, Records
  <2> QED BY <2>1, <2>2
<1>3. CASE pc'[w] \notin Protected
  BY <1>3 DEF Sole
<1>4. CASE pc[w] \notin Protected
  BY <1>0, <1>1, <1>3, <1>4 DEF Step, Approve, Revalidate, Inventory, Open,
     MakeDir, WriteBackup, PrepareManifest, PrepareReceipt, Consume, WriteTemp,
     Check, Replace, CheckAbsent, Create, Fill, CheckLanded, Recheck,
     MarkDelete, CloseHandle, Verify, CommitManifest, CommitReceipt, Fail,
     OnlyCall, Advance, Refuse, Leave, Goto, Protected
<1> QED BY <1>2, <1>3, <1>4

\* Where a call stands decides what its documents look like.
LEMMA StepSees ==
    ASSUME DiagInvariant, NEW w \in Workers, Step(w)
    PROVE  /\ Sees(w)'
           /\ fs' = fs \/ Shows(tok[w])'
           /\ touched' = touched \/ Shows(tok[w])'
<1>0. /\ Inv /\ Sees(w) /\ Holding(w) /\ tok' = tok /\ plan' = plan
      /\ pc \in [Workers -> Places] /\ tok[w] \in Tokens /\ pc[w] # "idle"
      /\ fs \in [Paths -> Content] /\ temp \in [Tokens -> Content]
      /\ PlanOf(w) = plan[tok[w]] /\ touched \subseteq Tokens
      /\ marked[w] => pc[w] = "close"
  BY DiagTypes, StepFrame DEF DiagInvariant, KeepInvariant, PlanOf, Inv, Owned
<1>a. /\ GoodPlan(PlanOf(w)) /\ PlanOf(w).act \in Acts
      /\ PlanOf(w).act \in Guards => Source(PlanOf(w)) \in Paths
      /\ PlanOf(w).act \in Creates => Landing(PlanOf(w)) \in Paths
      /\ PlanOf(w).act \in Replaces => PlanOf(w).note \in Paths
  BY <1>0, DiagTypes, CallPlan DEF GoodPlan, Plan
<1>b. Torn \notin Data /\ Absent \notin Data /\ Torn # Absent
  BY ContentAssumption
<1>c. ASSUME fs' = fs, touched' = touched, temp' = temp \/ pc'[w] = "idle",
             Intact(w)' => Intact(w) /\ pc[w] # "mkdir",
             Altered(w)' => Altered(w),
             pc'[w] \in {"check", "replace"} => pc[w] \in {"check", "replace"}
      PROVE  Sees(w)'
  BY <1>0, <1>c DEF Sees, Shows, PlanOf, Intact, Altered, Recording
<1>d. ASSUME Shows(tok[w])', ~Intact(w)'
      PROVE  Sees(w)'
  BY <1>d, <1>0 DEF Sees, Intact, Recording
<1> DEFINE p == PlanOf(w)
<1>1. CASE Approve(w) \/ Revalidate(w) \/ Inventory(w)
  BY <1>0, <1>1 DEF Approve, Revalidate, Inventory, Advance, Refuse, Leave, Goto,
     OnlyCall, Sees, Intact, Altered, Recording
<1>2. CASE Open(w)
  BY <1>0, <1>2 DEF Open, Refuse, Leave, Goto, OnlyCall, Sees, Intact, Altered,
     Recording, PlanOf
<1>3. CASE MakeDir(w)
  <2>1. fs' = fs /\ touched' = touched /\ pc[w] = "mkdir"
        /\ pc'[w] \in {"backup", "idle"}
    BY <1>0, <1>3 DEF MakeDir, Refuse, Leave, Goto
  <2>2. pc'[w] = "backup" => tok[w] \notin touched
    BY <1>0, <1>3, <2>1 DEF MakeDir, Refuse, Leave, Goto, Rec, Inv, Recorded
  <2> QED BY <1>0, <2>1, <2>2 DEF Sees, Intact, Altered, Recording, PlanOf
<1>4. CASE WriteBackup(w) \/ PrepareManifest(w) \/ PrepareReceipt(w)
  <2>1. /\ UNCHANGED <<fs, touched, temp>> /\ Intact(w) /\ pc[w] # "mkdir"
        /\ pc'[w] \in Recording
    BY <1>0, <1>4 DEF WriteBackup, PrepareManifest, PrepareReceipt, Write,
       Advance, Goto, Intact, Recording
  <2> QED BY <1>c, <2>1 DEF Altered, Recording
<1>5. CASE Consume(w)
  <2>1. /\ UNCHANGED <<fs, touched, temp>> /\ Intact(w) /\ pc[w] # "mkdir"
        /\ \/ pc'[w] \in {"idle", "temp", "absent", "create"}
           \/ pc'[w] = "recheck" /\ PlanOf(w).act = "delete_note"
    BY <1>0, <1>5 DEF Consume, Branch, Refuse, Leave, Goto, Intact, Recording
  <2> QED BY <1>0, <1>c, <2>1 DEF Altered, PlanOf
<1>6. CASE WriteTemp(w)
  BY <1>0, <1>6 DEF WriteTemp, Advance, Goto, Sees, Intact, Altered, Recording,
     PlanOf
<1>7. CASE Check(w)
  BY <1>0, <1>7 DEF Check, Leave, Goto, Sees, Intact, Altered, Recording, PlanOf
<1>8. CASE Replace(w)
  <2>1. /\ pc[w] = "replace" /\ p.act \in Replaces /\ p.note \in Paths
        /\ pc'[w] \in {"verify", "raise"}
        /\ touched' = touched \cup {tok[w]}
        /\ fs' = [fs EXCEPT ![p.note] = p.after] \/
           fs' = [fs EXCEPT ![p.note] = Absent]
    BY <1>0, <1>a, <1>8 DEF Replace, Put, Goto, Sees, Holding
  <2>2. fs'[p.note] = p.after \/ fs'[p.note] = Absent
    BY <1>0, <2>1
  <2>3. ~Untouched(p, fs') \/ NoOp(p)
    BY <1>a, <1>b, <2>1, <2>2 DEF Untouched, NoOp, GoodPlan
  <2>4. Shows(tok[w])'
    BY <1>0, <2>1, <2>3 DEF Shows, Untouched, NoOp
  <2> QED BY <1>d, <2>1, <2>4 DEF Intact, Recording
<1>9. CASE CheckAbsent(w)
  BY <1>0, <1>9 DEF CheckAbsent, Leave, Goto, OnlyCall, Sees, Intact, Altered,
     Recording, PlanOf
<1>10. CASE Create(w)
  <2>1. CASE fs' = fs /\ pc'[w] = "idle" /\ touched' = touched
    BY <1>c, <2>1 DEF Intact, Altered, Recording
  <2>2. CASE /\ fs' = [fs EXCEPT ![Landing(p)] = Torn] /\ pc'[w] = "fill"
             /\ touched' = touched \cup {tok[w]}
    <3>1. p.act \in Creates /\ fs'[Landing(p)] = Torn
      BY <1>0, <1>a, <1>10, <2>2 DEF Create, Holding
    <3>2. ~Untouched(p, fs')
      BY <1>a, <1>b, <3>1 DEF Untouched, Creates, Replaces, Landing
    <3>3. Shows(tok[w])'
      BY <1>0, <2>2, <3>2 DEF Shows, Untouched
    <3> QED BY <1>d, <2>2, <3>3 DEF Intact, Recording
  <2> QED BY <1>0, <1>10, <2>1, <2>2 DEF Create, Put, Leave, Goto
<1>11. CASE Fill(w)
  <2>1. /\ pc[w] = "fill" /\ p.act \in Creates
        /\ touched' = touched \cup {tok[w]}
        /\ fs' = [fs EXCEPT ![Landing(p)] =
                      IF fs[Landing(p)] = Torn THEN p.after ELSE Torn]
        /\ pc'[w] \in {"landed", "verify"}
    BY <1>0, <1>11 DEF Fill, Put, Goto, Holding
  <2>2. fs'[Landing(p)] # Absent
    BY <1>0, <1>a, <1>b, <2>1 DEF GoodPlan
  <2>3. ~Untouched(p, fs')
    BY <1>a, <1>b, <2>1, <2>2 DEF Untouched, Creates, Replaces, Landing
  <2>4. Shows(tok[w])'
    BY <1>0, <2>1, <2>3 DEF Shows, Untouched
  <2> QED BY <1>d, <2>1, <2>4 DEF Intact, Recording
<1>12. CASE CheckLanded(w)
  <2>1. /\ UNCHANGED <<fs, touched, temp>> /\ pc[w] = "landed"
        /\ pc'[w] \in {"recheck", "idle"}
    BY <1>0, <1>12 DEF CheckLanded, Advance, Leave, Goto, OnlyCall
  <2>2. p.act = "move_draft"
    BY <1>0, <2>1 DEF Holding
  <2> QED BY <1>0, <1>c, <2>1, <2>2 DEF Intact, Altered, Recording, PlanOf
<1>13. CASE Recheck(w) \/ MarkDelete(w)
  <2>1. /\ UNCHANGED <<fs, touched, temp>> /\ pc[w] \in {"recheck", "mark"}
        /\ pc'[w] \in {"mark", "close", "idle"}
    BY <1>0, <1>13 DEF Recheck, MarkDelete, Leave, Goto, OnlyCall
  <2> QED BY <1>0, <1>c, <2>1 DEF Intact, Altered, Recording, PlanOf
<1>14. CASE CloseHandle(w) \/ (Fail(w) /\ marked[w])
  <2>1. /\ pc[w] = "close" /\ p.act \in Guards /\ guard[w] = Source(p)
        /\ fs' = [fs EXCEPT ![guard[w]] = Absent]
        /\ touched' = touched \cup {tok[w]}
        /\ pc'[w] \in {"verify", "idle"}
    BY <1>0, <1>14 DEF CloseHandle, Fail, Put, Goto, Holding, Pinning, Working,
       Protected
  <2>2. fs'[Source(p)] = Absent
    BY <1>0, <1>a, <2>1
  <2>3. ~Untouched(p, fs')
    BY <1>a, <1>b, <2>1, <2>2 DEF Untouched, Guards, Source, GoodPlan, Replaces
  <2>4. Shows(tok[w])'
    BY <1>0, <2>1, <2>3 DEF Shows, Untouched
  <2> QED BY <1>d, <2>1, <2>4 DEF Intact, Recording
<1>15. CASE Verify(w) \/ CommitManifest(w)
  <2>1. /\ UNCHANGED <<fs, touched, temp>>
        /\ pc[w] \in {"verify", "commit_manifest"}
        /\ pc'[w] \in {"commit_manifest", "commit_receipt", "idle"}
    BY <1>0, <1>15 DEF Verify, CommitManifest, Write, Advance, Leave, Goto,
       OnlyCall
  <2> QED BY <1>0, <1>c, <2>1 DEF Intact, Altered, Recording
<1>16. CASE CommitReceipt(w) \/ (Fail(w) /\ ~marked[w])
  <2>1. UNCHANGED <<fs, touched>> /\ pc'[w] = "idle"
    BY <1>0, <1>16 DEF CommitReceipt, Fail, Goto
  <2> QED BY <1>c, <2>1 DEF Intact, Altered, Recording
<1> QED
  BY <1>1, <1>2, <1>3, <1>4, <1>5, <1>6, <1>7, <1>8, <1>9, <1>10, <1>11, <1>12,
     <1>13, <1>14, <1>15, <1>16 DEF Step

LEMMA StepExact ==
    ASSUME DiagInvariant, Alone, NEW w \in Workers, Step(w), NEW t \in Tokens
    PROVE  Exact(t)'
<1>0. /\ Inv /\ tok' = tok /\ plan' = plan /\ tok[w] \in Tokens
      /\ pc \in [Workers -> Places] /\ rec \in [Tokens -> Record]
      /\ Sole(w) /\ Exact(t) /\ Sees(w) /\ PlanOf(w) = plan[tok[w]]
  BY DiagTypes, StepFrame DEF DiagInvariant, PlanOf
<1>1. SUFFICES ASSUME rec'[t].manifest = "prepared"
               PROVE  Exact(t)'
  BY DEF Exact
<1>2. CASE t # tok[w]
  <2>1. rec[t].manifest = "prepared"
    BY <1>0, <1>1, <1>2, StepFrame
  <2>2. pc[w] \notin Protected
    BY <1>0, <1>2, <2>1, DiagTypes DEF Sole, Records
  <2>3. fs' = fs /\ touched' = touched
    BY <1>0, <2>2 DEF Step, Approve, Revalidate, Inventory, Open, MakeDir,
       WriteBackup, PrepareManifest, PrepareReceipt, Consume, WriteTemp, Check,
       Replace, CheckAbsent, Create, Fill, CheckLanded, Recheck, MarkDelete,
       CloseHandle, Verify, CommitManifest, CommitReceipt, Fail, OnlyCall,
       Protected
  <2> QED BY <1>0, <2>1, <2>3 DEF Exact
<1>3. CASE t = tok[w]
  <2>1. CASE Shows(tok[w])'
    BY <1>0, <1>3, <2>1 DEF Shows, Exact
  <2>2. CASE fs' = fs /\ touched' = touched /\ rec[t].manifest = "prepared"
    BY <1>0, <2>2 DEF Exact
  <2>3. CASE fs' = fs /\ touched' = touched /\ rec[t].manifest # "prepared"
    <3>1. pc[w] = "manifest"
      <4>1. CASE rec' = rec
        BY <1>1, <2>3, <4>1
      <4>2. CASE MakeDir(w) \/ WriteBackup(w) \/ PrepareReceipt(w)
                 \/ CommitReceipt(w)
        BY <1>0, <1>1, <1>3, <2>3, <4>2 DEF MakeDir, WriteBackup,
           PrepareReceipt, CommitReceipt, Write, Rec, Record
      <4>3. CASE CommitManifest(w)
        BY <1>0, <1>1, <1>3, <4>3 DEF CommitManifest, Write, Rec, Record
      <4>4. CASE PrepareManifest(w)
        BY <4>4 DEF PrepareManifest
      <4> QED BY <4>1, <4>2, <4>3, <4>4 DEF Step, Approve, Revalidate,
          Inventory, Open, Consume, WriteTemp, Check, Replace, CheckAbsent,
          Create, Fill, CheckLanded, Recheck, MarkDelete, CloseHandle, Verify,
          Fail, OnlyCall
    <3>2. Untouched(plan[t], fs) /\ t \notin touched
      BY <1>0, <1>3, <3>1 DEF Sees, Intact, Recording
    <3> QED BY <1>0, <2>3, <3>2 DEF Exact
  <2> QED BY <2>1, <2>2, <2>3, StepSees
<1> QED BY <1>2, <1>3

LEMMA CrashExact ==
    ASSUME DiagInvariant, Alone, Crash, NEW t \in Tokens
    PROVE  Exact(t)'
<1>0. /\ Inv /\ PlanInvariant /\ Exact(t) /\ fs \in [Paths -> Content]
      /\ UNCHANGED <<rec, plan>> /\ touched \subseteq Tokens
  BY DiagTypes DEF DiagInvariant, Crash
<1>1. CASE \A w \in Workers : ~marked[w]
  <2>1. fs' = fs
    <3>1. fs' = [x \in Paths |-> fs[x]]
      BY <1>1 DEF Crash
    <3> QED BY <1>0, <3>1
  <2>2. touched' = touched
    BY <1>1 DEF Crash
  <2> QED BY <1>0, <2>1, <2>2 DEF Exact
<1>2. CASE \E w \in Workers : marked[w]
  <2>1. PICK w \in Workers : marked[w]
    BY <1>2
  <2>2. /\ pc[w] = "close" /\ Holding(w) /\ Sole(w) /\ tok[w] \in Tokens
        /\ \A v \in Workers : v = w
    BY <1>0, <2>1 DEF DiagInvariant, KeepInvariant, Inv, Owned, Planned, Alone
  <2>3. SUFFICES ASSUME rec[t].manifest = "prepared" PROVE Exact(t)'
    BY <1>0 DEF Exact
  <2>4. t = tok[w]
    BY <2>2, <2>3, DiagTypes DEF Sole, Records, Protected
  <2>5. /\ GoodPlan(PlanOf(w)) /\ PlanOf(w).act \in Guards
        /\ guard[w] = Source(PlanOf(w)) /\ Source(PlanOf(w)) \in Paths
    BY <1>0, <2>2, CallPlan DEF Holding, Pinning, Working, Protected
  <2>6. fs'[Source(PlanOf(w))] = Absent /\ t \in touched'
    BY <2>1, <2>4, <2>5 DEF Crash
  <2>7. ~Untouched(PlanOf(w), fs')
    BY <2>5, <2>6, ContentAssumption
       DEF Untouched, Guards, Source, GoodPlan, Replaces
  <2> QED BY <1>0, <2>4, <2>6, <2>7 DEF Exact, PlanOf, Untouched
<1> QED BY <1>1, <1>2

LEMMA DiagNext ==
    ASSUME Alone
    PROVE  DiagInvariant /\ [Next]_vars => DiagInvariant'
<1> SUFFICES ASSUME DiagInvariant, [Next]_vars PROVE DiagInvariant'
  OBVIOUS
<1>0. KeepInvariant' /\ Inv
  BY KeepNext, DiagTypes DEF DiagInvariant
<1>1. CASE \E w \in Workers : Step(w)
  <2>1. PICK w \in Workers : Step(w)
    BY <1>1
  <2>2. Sees(w)' /\ Sole(w)' /\ \A t \in Tokens : Exact(t)'
    BY <2>1, StepSees, StepSole, StepExact
  <2>3. \A v \in Workers : v = w
    BY DEF Alone
  <2> QED BY <1>0, <2>2, <2>3 DEF DiagInvariant
<1>2. CASE Crash
  <2>1. \A t \in Tokens : Exact(t)'
    BY <1>2, CrashExact
  <2>2. \A w \in Workers : Sees(w)' /\ Sole(w)'
    BY <1>2 DEF Crash, Sees, Sole, Intact, Altered, Recording, Protected
  <2> QED BY <1>0, <2>1, <2>2 DEF DiagInvariant
<1>3. CASE \E w \in Workers, t \in Tokens : Call(w, t)
  <2>1. PICK w \in Workers, t \in Tokens : Call(w, t)
    BY <1>3
  <2>2. UNCHANGED <<fs, rec, plan, touched>> /\ pc'[w] \in {"idle", "approve"}
    BY <2>1, DiagTypes DEF Call, OnlyCall, Goto
  <2>3. \A u \in Tokens : Exact(u)'
    BY <2>2 DEF DiagInvariant, Exact
  <2>4. Sees(w)' /\ Sole(w)'
    BY <2>2 DEF Sees, Sole, Intact, Altered, Recording, Protected
  <2>5. \A v \in Workers : v = w
    BY DEF Alone
  <2> QED BY <1>0, <2>3, <2>4, <2>5 DEF DiagInvariant
<1>4. CASE \E t \in Tokens : Preview(t)
  <2>1. PICK u \in Tokens, p \in Plan : Remember(u, p)
    BY <1>0, <1>4, PreviewPlan
  <2>2. /\ UNCHANGED <<fs, temp, rec, callVars, touched>> /\ plan[u] = NoPlan
        /\ plan' = [plan EXCEPT ![u] = p]
    BY <2>1 DEF Remember
  <2>3. \A t \in Tokens : plan[t] \in Plan => plan'[t] = plan[t]
    BY <2>2, DiagTypes, NoPlanAssumption
  <2>4. ASSUME NEW t \in Tokens PROVE Exact(t)'
    <3>1. rec[t].manifest = "prepared" => plan[t] \in Plan
      BY <1>0, DiagTypes DEF Inv, Planned
    <3> QED BY <2>2, <2>3, <3>1 DEF DiagInvariant, Exact
  <2>5. ASSUME NEW w \in Workers PROVE Sees(w)' /\ Sole(w)'
    <3>1. UNCHANGED <<pc, tok>>
      BY <2>2 DEF callVars
    <3>2. CASE pc[w] = "idle"
      BY <3>1, <3>2 DEF Sees, Sole, Intact, Altered, Recording, Protected
    <3>3. CASE pc[w] # "idle"
      <4>1. plan[tok[w]]' = plan[tok[w]]
        BY <1>0, <2>3, <3>1, <3>3 DEF Inv, Planned
      <4>2. Sees(w)'
        BY <2>2, <3>1, <4>1
           DEF DiagInvariant, Sees, Shows, Intact, Altered, PlanOf
      <4>3. Sole(w)'
        BY <2>2, <3>1 DEF DiagInvariant, Sole, Records
      <4> QED BY <4>2, <4>3
    <3> QED BY <3>2, <3>3
  <2> QED BY <1>0, <2>4, <2>5 DEF DiagInvariant
<1>5. CASE UNCHANGED <<fs, temp, rec, plan, callVars, touched>>
  BY <1>0, <1>5 DEF callVars, DiagInvariant, Sees, Sole, Exact, Shows, Intact,
     Altered, PlanOf, Records
<1> QED
  BY <1>1, <1>2, <1>3, <1>4, <1>5 DEF Next, Forget, Alone, vars

\* With one caller and nobody else writing the documents, the inspection of a
\* record left behind tells exactly whether its protected step took effect,
\* for any number of documents and transactions, crashes and restarts.
THEOREM DiagnosisExactHolds ==
    ASSUME Alone
    PROVE  Spec => []DiagnosisExact
<1>1. Init => DiagInvariant
  BY PlanInit DEF Init, DiagInvariant, KeepInvariant, Holding, Pinning, Working,
     Protected, Sees, Sole, Exact, Intact, Altered, Recording, NoRecord
<1>2. DiagInvariant => DiagnosisExact
  <2> SUFFICES ASSUME DiagInvariant, NEW t \in Tokens,
                      Inspectable(t), ~NoOp(plan[t])
               PROVE  /\ Classify(t) = "prepared_no_effect" => t \notin touched
                      /\ Classify(t) \in {"applied_unfinalized",
                                          "duplicate_unresolved"} =>
                             t \in touched
    BY DEF DiagnosisExact
  <2>1. Exact(t) /\ rec[t].manifest \in {"prepared", "committed"}
    BY DiagTypes DEF DiagInvariant, Inspectable, Record
  <2>2. CASE rec[t].manifest = "committed"
    BY <2>2 DEF Classify
  <2>3. CASE rec[t].manifest = "prepared"
    BY <2>1, <2>3 DEF Classify, Exact
  <2> QED BY <2>1, <2>2, <2>3
<1>3. DiagInvariant /\ [Next]_vars => DiagInvariant'
  BY DiagNext
<1> QED BY <1>1, <1>2, <1>3, PTL DEF Spec
=============================================================================
