----------------------- MODULE CanaryCampaign_proofs -----------------------
(***************************************************************************)
(* Theorems about CanaryCampaign, for every number of processes, terminals *)
(* and changes by the owner.                                               *)
(*                                                                         *)
(* A gate acts once because the file it was approved for is spent: every   *)
(* write makes a file with a new identity (Traced), a waiting run is bound *)
(* to the old one (Bound), and no document is that file again (Spent).     *)
(* The cleanup is exact because the five ids never change once printed and *)
(* a directory is touched only when all before it are journaled (Ordered). *)
(***************************************************************************)
EXTENDS CanaryCampaign, FiniteSetTheorems, TLAPS

\* A run that has a plan and has not changed anything yet.
Pending == {"previewed", "asked", "admitted", "recorded"}

Before(h, g) == Rank[h] < Rank[g]

Touched(r) == records[r] \in {"torn", "removed"}

Journaled(j) == \E a \in Runs : j \in audits[a].removed

Audited == \E a \in Runs : audits[a].status # "none"

Closed == \E a \in Runs : audits[a].status = "committed"

\* What the place of a run says of its script, its record and its audit.
Placed(r) ==
    /\ pc[r] = "idle" => gate[r] = "none"
    /\ pc[r] \in {"idle", "ready"} => audits[r] = NoAudit
    /\ pc[r] \in {"idle", "ready", "previewed", "asked", "admitted"} =>
           records[r] = "none"
    /\ pc[r] \in Pending \cup {"changed", "applied"} => gate[r] \in Mutating
    /\ pc[r] \in {"recorded", "changed"} => records[r] = "open"
    /\ pc[r] = "applied" => records[r] = "committed"
    /\ pc[r] \in {"changed", "applied"} => r \in mutated
    /\ pc[r] \in {"pruning", "tearing", "removed"} =>
           gate[r] = "Y" /\ audits[r].status = "prepared"
    /\ gate[r] \notin Mutating => records[r] = "none"
    /\ gate[r] # "Y" => audits[r] = NoAudit

Changed(r) ==
    /\ r \in mutated => /\ gate[r] \in Mutating
                        /\ pc[r] \in {"changed", "applied", "passed", "stopped"}
                        /\ records[r] # "none"
    /\ records[r] = "committed" => r \in mutated
    /\ Touched(r) => r \in Approved /\ Audited

\* A printed id is that of a run that changed its document and ended well.
Printed(g) ==
    accepted[g] # NoRun =>
        /\ pc[accepted[g]] = "passed" /\ gate[accepted[g]] = g
        /\ accepted[g] \in mutated
        /\ records[accepted[g]] \in {"committed", "torn", "removed"}

\* A script is run after the gates before it.
Follows(r) ==
    /\ gate[r] \in Mutating =>
           \A h \in Mutating : Before(h, gate[r]) => accepted[h] # NoRun
    /\ gate[r] = "Q" => fixture.canary # NoFile
    /\ gate[r] = "T" => fixture.source # NoFile
    /\ audits[r].status # "none" =>
           \A h \in Mutating : accepted[h] # NoRun

Ledger ==
    /\ \A r \in Runs : Placed(r) /\ Changed(r) /\ Follows(r)
    /\ \A g \in Mutating : Printed(g)

\* A file identity that was in use: what a run or the owner creates is new.
Used(f) == f \in mutated \/ f \in FixtureFile .. NoFile + edits

Known(documents) == \A d \in {"canary", "source", "target"} :
    /\ Used(documents[d].file)
    /\ documents[d] = Gone \/ documents[d].file # NoFile

Traced == /\ Known(docs) /\ \A r \in Runs : Known(plan[r])
          /\ Used(fixture.canary) /\ Used(fixture.source)

\* The file a waiting run was approved for.
Bound(r) ==
    pc[r] \in Pending =>
        /\ gate[r] = "Q" => plan[r].canary.file = fixture.canary
        /\ gate[r] = "R" => plan[r].canary.file = accepted.Q
        /\ gate[r] = "T" => plan[r].source.file = fixture.source
        /\ gate[r] = "X" => plan[r].target.file # NoFile

\* Once a gate has acted, that file does not come back.
Spent(r) ==
    /\ gate[r] = "Q" => docs.canary.file # fixture.canary
    /\ gate[r] = "R" => docs.canary.file # accepted.Q
    /\ gate[r] = "T" => docs.source.file # fixture.source
    /\ gate[r] = "U" /\ edits = 0 => docs.source # Gone
    /\ gate[r] = "X" => \A q \in Runs :
           pc[q] \in Pending /\ gate[q] = "X" =>
               docs.target.file # plan[q].target.file

Files == /\ Traced /\ EachGateOnce
         /\ \A r \in Runs : Bound(r)
         /\ \A r \in mutated : Spent(r)

\* The directory of gate g is the next one for cleanup a.
IsNext(a, g) ==
    /\ accepted[g] \notin audits[a].removed
    /\ \A h \in Mutating : Before(h, g) => accepted[h] \in audits[a].removed

Journal1(a) ==
    /\ audits[a].status = "none" => audits[a] = NoAudit
    /\ audits[a].status # "none" => audits[a].listed = Approved
    /\ audits[a].status = "committed" => audits[a].removed = Approved
    /\ audits[a].removed \subseteq Approved
    /\ \A j \in audits[a].removed : records[j] = "removed"
    /\ \A g, h \in Mutating :
           Before(h, g) /\ accepted[g] \in audits[a].removed =>
               accepted[h] \in audits[a].removed
    /\ pc[a] \in {"tearing", "removed"} =>
           /\ \E g \in Mutating : IsNext(a, g)
           /\ \A g \in Mutating : IsNext(a, g) =>
                  /\ Touched(accepted[g])
                  /\ pc[a] = "removed" => records[accepted[g]] = "removed"

\* Directories are touched in order, each after the one before is journaled.
Ordered ==
    \A g, h \in Mutating :
        Before(h, g) /\ accepted[g] # NoRun /\ Touched(accepted[g]) =>
            Journaled(accepted[h])

Shut == Closed => \A r \in Present : gate[r] = "U" /\ edits > 0

Cleanup == (\A a \in Runs : Journal1(a)) /\ Ordered /\ Shut

CampaignInvariant == CampaignTypeOK /\ Ledger /\ Files /\ Cleanup

-----------------------------------------------------------------------------
(* The types.                                                              *)

SetupTypeOK ==
    /\ root \in {"none", "broad", "narrow", "closed"}
    /\ assigned \in BOOLEAN /\ saved \in BOOLEAN
    /\ plugin \in {"placeholder", "guarded", "deleting", "gone"}
    /\ step \in [Setups -> {"idle", "begun", "placed"}]

\* The setup gates keep the types of the setup.
LEMMA SetupType ==
    ASSUME SetupTypeOK, SetupGate
    PROVE  SetupTypeOK'
<1> USE DEF SetupTypeOK, Setups, At
<1>1. CASE CreateRoot
  BY <1>1 DEF CreateRoot
<1>2. CASE CloseRoot
  BY <1>2 DEF CloseRoot
<1>3. CASE AppendRoot(Present = {})
  BY <1>3 DEF AppendRoot
<1>4. CASE StartGateway(Present = {})
  BY <1>4 DEF StartGateway
<1>5. ASSUME NEW g \in {"O", "W"}, NEW fits, RemovePlugin(g, fits)
      PROVE  SetupTypeOK'
  <2>1. saved' \in BOOLEAN
    BY <1>5 DEF RemovePlugin
  <2> QED BY <1>5, <2>1 DEF RemovePlugin
<1>6. CASE \E g \in {"O", "W"} : PlacePlugin(g)
  BY <1>6 DEF PlacePlugin
<1>7. ASSUME NEW g \in {"O", "W"}, UndoInstall(g)
      PROVE  SetupTypeOK'
  <2>1. assigned' = (g = "O" \/ saved) /\ saved' = (saved /\ g = "O")
    BY <1>7 DEF UndoInstall
  <2>2. assigned' \in BOOLEAN /\ saved' \in BOOLEAN
    BY <2>1, Zenon
  <2> QED BY <1>7, <2>2 DEF UndoInstall
<1>8. ASSUME NEW g \in Setups, Killed(g)
      PROVE  SetupTypeOK'
  <2>1. saved' = (saved /\ g # "W")
    BY <1>8 DEF Killed
  <2>2. saved' \in BOOLEAN
    BY <2>1, Zenon
  <2> QED BY <1>8, <2>2 DEF Killed
<1>9. CASE UndoRoot(Present = {}) \/ UndoAppend
  BY <1>9 DEF UndoRoot, UndoAppend
<1>10. CASE \/ VerifyRoot(Present = {}) \/ VerifyAppend(Present = {})
            \/ VerifyIngestion(Present = {}) \/ VerifyGuarded(Present = {})
  <2>1. UNCHANGED <<root, assigned, plugin, saved>>
    BY <1>10 DEF VerifyRoot, VerifyAppend, VerifyIngestion, VerifyGuarded, Passes
  <2>2. step' \in [Setups -> {"idle", "begun", "placed"}]
    BY <1>10 DEF VerifyRoot, VerifyAppend, VerifyIngestion, VerifyGuarded, Passes
  <2> QED BY <2>1, <2>2
<1>11. CASE VerifyDeleting(FourFinal)
  <2>1. saved' = FALSE /\ UNCHANGED <<root, assigned, plugin>>
    BY <1>11 DEF VerifyDeleting
  <2>2. step' \in [Setups -> {"idle", "begun", "placed"}]
    BY <1>11 DEF VerifyDeleting
  <2> QED BY <2>1, <2>2
<1> QED
  BY <1>1, <1>2, <1>3, <1>4, <1>5, <1>6, <1>7, <1>8, <1>9, <1>10, <1>11
     DEF SetupGate, SetupStart, SetupStep

RunTypeOK ==
    /\ docs \in Documents
    /\ fixture \in [canary : Nat, source : Nat]
    /\ records \in [Runs -> {"none", "open", "committed", "torn", "removed"}]
    /\ accepted \in [Mutating -> Runs \cup {NoRun}]
    /\ gate \in [Runs -> Mutating \cup {"Y", "none"}]
    /\ pc \in [Runs -> {"idle", "ready", "previewed", "asked", "admitted",
                         "recorded", "changed", "applied", "pruning",
                         "tearing", "removed", "passed", "stopped"}]
    /\ plan \in [Runs -> Documents]
    /\ enabled \in [Runs -> BOOLEAN]
    /\ audits \in [Runs -> Audit]
    /\ mutated \subseteq Runs
    /\ edits \in 0 .. MaxEdits

Bracketed ==
    \A r \in Runs : enabled[r] =>
        pc[r] \in {"asked", "admitted", "recorded", "changed"}

LEMMA TypeParts == CampaignTypeOK <=> SetupTypeOK /\ RunTypeOK /\ Bracketed
<1>1. {assigned, saved} \subseteq BOOLEAN
      <=> assigned \in BOOLEAN /\ saved \in BOOLEAN
  BY Zenon
<1> QED BY <1>1 DEF CampaignTypeOK, SetupTypeOK, RunTypeOK, Bracketed

LEMMA RunsNat == MaxRuns \in Nat /\ MaxEdits \in Nat /\ Runs \subseteq Nat
                 /\ NoRun \notin Runs /\ NoFile \in Nat /\ NoFile \notin Runs
  BY BoundAssumption DEF Runs, NoRun, NoFile

\* What a document can be changed into.
LEMMA Shapes ==
    /\ Gone \in Document("canary") /\ Gone \in Document("source")
    /\ Gone \in Document("target") /\ NoPlan \in Documents
    /\ \A f \in Nat :
           /\ [bytes |-> "before", file |-> f] \in Document("canary")
           /\ [bytes |-> "after", file |-> f] \in Document("canary")
           /\ [bytes |-> "frozen", file |-> f] \in Document("source")
           /\ [bytes |-> "frozen", file |-> f] \in Document("target")
    /\ DOMAIN docs = {"canary", "source", "target"} \/ docs \notin Documents
  BY DEF Document, Documents, NoPlan, Bytes, Gone

LEMMA DocumentFile ==
    ASSUME NEW d, NEW x \in Document(d)
    PROVE  x.file \in Nat
  BY RunsNat DEF Document, Gone

RecordStates == {"none", "open", "committed", "torn", "removed"}

\* The file change of a gate, document by document.
LEMMA Effects ==
    ASSUME NEW r \in Runs, RunTypeOK, gate[r] \in Mutating
    PROVE  /\ Effect(r) \in Documents
           /\ gate[r] = "Q" =>
                /\ Effect(r).canary = [bytes |-> "after", file |-> r]
                /\ Effect(r).source = docs.source
                /\ Effect(r).target = docs.target
           /\ gate[r] = "R" =>
                /\ Effect(r).canary = [bytes |-> "before", file |-> r]
                /\ Effect(r).source = docs.source
                /\ Effect(r).target = docs.target
           /\ gate[r] = "T" =>
                /\ Effect(r).target = [bytes |-> "frozen", file |-> r]
                /\ Effect(r).source = Gone
                /\ Effect(r).canary = docs.canary
           /\ gate[r] = "U" =>
                /\ Effect(r).source = [bytes |-> "frozen", file |-> r]
                /\ Effect(r).canary = docs.canary
                /\ Effect(r).target = docs.target
           /\ gate[r] = "X" =>
                /\ Effect(r).target = Gone
                /\ Effect(r).canary = docs.canary
                /\ Effect(r).source = docs.source
<1>1. r \in Nat
  BY RunsNat
<1>2. docs \in Documents
  BY DEF RunTypeOK
<1>3. CASE gate[r] = "Q"
  BY <1>1, <1>2, <1>3, Shapes DEF Effect, Documents
<1>4. CASE gate[r] = "R"
  BY <1>1, <1>2, <1>4, Shapes DEF Effect, Documents
<1>5. CASE gate[r] = "T"
  BY <1>1, <1>2, <1>5, Shapes DEF Effect, Documents
<1>6. CASE gate[r] = "U"
  BY <1>1, <1>2, <1>6, Shapes DEF Effect, Documents
<1>7. CASE gate[r] = "X"
  BY <1>1, <1>2, <1>7, Shapes DEF Effect, Documents
<1> QED BY <1>3, <1>4, <1>5, <1>6, <1>7 DEF Mutating

\* An edit by the owner changes one document, to nothing, in place or to a
\* file with a new identity.
LEMMA Edited ==
    ASSUME NEW d \in DOMAIN docs, OwnerEdit(d), RunTypeOK
    PROVE  /\ d \in {"canary", "source", "target"}
           /\ docs' \in Documents
           /\ docs'[d] = Gone \/ docs'[d].file \in {docs[d].file, OwnerFile}
                                                   \ {NoFile}
           /\ \A c \in {"canary", "source", "target"} :
                  c # d => docs'[c] = docs[c]
           /\ edits' = edits + 1 /\ edits' \in 0 .. MaxEdits
<1> USE DEF RunTypeOK
<1>1. d \in {"canary", "source", "target"} /\ docs \in Documents
  BY Shapes
<1>2. PICK new \in {Gone} \cup [bytes : Bytes[d],
                     file : {docs[d].file, OwnerFile} \ {NoFile}] :
          docs' = [docs EXCEPT ![d] = new]
  BY DEF OwnerEdit
<1>3. docs[d] \in Document(d)
  BY <1>1 DEF Documents
<1>4. edits' = edits + 1 /\ edits' \in 0 .. MaxEdits /\ OwnerFile \in Nat
  BY RunsNat DEF OwnerEdit, OwnerFile, NoFile
<1>5. new \in Document(d)
  BY <1>2, <1>3, <1>4, DocumentFile DEF Document
<1>6. docs' \in Documents
  <2>1. docs.canary \in Document("canary") /\ docs.source \in Document("source")
        /\ docs.target \in Document("target")
    BY <1>1 DEF Documents
  <2>2. CASE d = "canary"
    BY <1>1, <1>2, <1>5, <2>1, <2>2 DEF Documents
  <2>3. CASE d = "source"
    BY <1>1, <1>2, <1>5, <2>1, <2>3 DEF Documents
  <2>4. CASE d = "target"
    BY <1>1, <1>2, <1>5, <2>1, <2>4 DEF Documents
  <2> QED BY <1>1, <2>2, <2>3, <2>4
<1>7. docs'[d] = new /\ \A c \in {"canary", "source", "target"} :
                            c # d => docs'[c] = docs[c]
  BY <1>1, <1>2, Shapes
<1>8. new = Gone \/ new.file \in {docs[d].file, OwnerFile} \ {NoFile}
  BY <1>2
<1> QED BY <1>1, <1>4, <1>6, <1>7, <1>8

LEMMA AuditTypes ==
    ASSUME NEW r \in Runs, audits \in [Runs -> Audit]
    PROVE  /\ [audits EXCEPT ![r].status = "prepared", ![r].listed = Present]
                 \in [Runs -> Audit]
           /\ [audits EXCEPT ![r].status = "committed"] \in [Runs -> Audit]
           /\ \A x \in Runs : [audits EXCEPT ![r].removed = @ \cup {x}]
                                \in [Runs -> Audit]
<1>1. Present \in SUBSET Runs
  BY DEF Present
<1>2. audits[r] \in Audit
  OBVIOUS
<1>3. [audits[r] EXCEPT !.status = "prepared", !.listed = Present] \in Audit
  BY <1>1, <1>2 DEF Audit
<1>4. [audits EXCEPT ![r].status = "prepared", ![r].listed = Present]
         = [audits EXCEPT ![r] =
              [audits[r] EXCEPT !.status = "prepared", !.listed = Present]]
  BY <1>2 DEF Audit
<1>5. [audits[r] EXCEPT !.status = "committed"] \in Audit
  BY <1>2 DEF Audit
<1>6. \A x \in Runs :
          [audits[r] EXCEPT !.removed = audits[r].removed \cup {x}] \in Audit
  BY <1>2 DEF Audit
<1> QED BY <1>3, <1>4, <1>5, <1>6

-----------------------------------------------------------------------------
(* Steps of one run leave the others where they are.                       *)

\* Nothing of run q changes but, in other operators, its record.
SamePlace(q) == /\ gate'[q] = gate[q] /\ pc'[q] = pc[q] /\ plan'[q] = plan[q]
                /\ enabled'[q] = enabled[q] /\ audits'[q] = audits[q]

\* What one step of run r changes of the others: nothing.
OnlyRun(r) ==
    /\ \A q \in Runs \ {r} : /\ SamePlace(q) /\ records'[q] = records[q]
                             /\ q \in mutated' <=> q \in mutated
    /\ UNCHANGED <<fixture, edits>>

\* The steps of r's own, but for those that take a directory away.
OwnStep(r) ==
    \/ CanLaunch(r) /\ (StartCleanup(r) \/ \E g \in Mutating : Start(r, g))
    \/ Preview(r) \/ Dispatch(r) \/ Admit(r) \/ Prepare(r) \/ Change(r)
    \/ Commit(r) \/ Accept(r) \/ Stop(r)
    \/ PrepareAudit(r) \/ Journal(r) \/ Finalize(r)

LEMMA OwnLocal ==
    ASSUME NEW r \in Runs, RunTypeOK, OwnStep(r)
    PROVE  OnlyRun(r)
<1> USE DEF RunTypeOK, OnlyRun, SamePlace, Goto
<1>1. CASE StartCleanup(r) \/ \E g \in Mutating : Start(r, g)
  BY <1>1 DEF StartCleanup, Start
<1>2. CASE Preview(r) \/ Dispatch(r) \/ Admit(r)
  BY <1>2 DEF Preview, Dispatch, Admit
<1>3. CASE Prepare(r) \/ Change(r) \/ Commit(r)
  BY <1>3 DEF Prepare, Change, Commit
<1>4. CASE Accept(r) \/ Stop(r)
  BY <1>4 DEF Accept, Stop
<1>5. CASE PrepareAudit(r) \/ Finalize(r)
  BY <1>5 DEF PrepareAudit, Finalize
<1>6. CASE Journal(r)
  BY <1>6 DEF Journal
<1> QED BY <1>1, <1>2, <1>3, <1>4, <1>5, <1>6 DEF OwnStep

\* The place of r stays in its type.
LEMMA OwnType ==
    ASSUME NEW r \in Runs, RunTypeOK, OwnStep(r),
           pc[r] \in Pending \cup {"changed", "applied"} => gate[r] \in Mutating,
           pc[r] = "removed" => NextId(r) \in Runs
    PROVE  RunTypeOK'
<1> USE DEF RunTypeOK, Goto
<1>1. CASE StartCleanup(r) \/ \E g \in Mutating : Start(r, g)
  BY <1>1 DEF StartCleanup, Start
<1>2. CASE Dispatch(r) \/ Admit(r)
  BY <1>2 DEF Dispatch, Admit
<1>10. CASE Preview(r)
  <2>1. plan' \in [Runs -> Documents]
    BY <1>10 DEF Preview
  <2> QED BY <1>10, <2>1 DEF Preview
<1>3. CASE Prepare(r) \/ Commit(r)
  BY <1>3 DEF Prepare, Commit
<1>4. CASE Change(r)
  <2>1. gate[r] \in Mutating
    BY <1>4 DEF Change, Pending
  <2>2. docs' \in Documents
    BY <1>4, <2>1, Effects DEF Change
  <2> QED BY <1>4, <2>2 DEF Change
<1>5. CASE Accept(r)
  <2>1. gate[r] \in Mutating
    BY <1>5 DEF Accept
  <2>2. plan' \in [Runs -> Documents]
    BY <1>5, Shapes DEF Accept
  <2> QED BY <1>5, <2>1, <2>2 DEF Accept
<1>6. CASE Stop(r)
  <2>1. plan' \in [Runs -> Documents]
    BY <1>6, Shapes DEF Stop
  <2> QED BY <1>6, <2>1 DEF Stop
<1>7. CASE PrepareAudit(r)
  <2>1. audits' \in [Runs -> Audit]
    BY <1>7, AuditTypes DEF PrepareAudit
  <2> QED BY <1>7, <2>1 DEF PrepareAudit
<1>8. CASE Finalize(r)
  <2>1. audits' \in [Runs -> Audit]
    BY <1>8, AuditTypes DEF Finalize
  <2> QED BY <1>8, <2>1 DEF Finalize
<1>9. CASE Journal(r)
  <2>1. audits' \in [Runs -> Audit]
    BY <1>9, AuditTypes DEF Journal
  <2> QED BY <1>9, <2>1 DEF Journal
<1> QED
  BY <1>1, <1>2, <1>3, <1>4, <1>5, <1>6, <1>7, <1>8, <1>9, <1>10
     DEF OwnStep

LEMMA OwnBracket ==
    ASSUME NEW r \in Runs, RunTypeOK, Bracketed, OwnStep(r)
    PROVE  Bracketed'
<1> USE DEF RunTypeOK, Goto, Bracketed
<1>1. CASE CanLaunch(r)
           /\ (StartCleanup(r) \/ \E g \in Mutating : Start(r, g))
  BY <1>1 DEF StartCleanup, Start, CanLaunch
<1>2. CASE Preview(r) \/ Dispatch(r) \/ Admit(r)
  BY <1>2 DEF Preview, Dispatch, Admit
<1>3. CASE Prepare(r) \/ Change(r) \/ Commit(r)
  BY <1>3 DEF Prepare, Change, Commit
<1>4. CASE Accept(r) \/ Stop(r)
  BY <1>4 DEF Accept, Stop
<1>5. CASE PrepareAudit(r) \/ Finalize(r)
  BY <1>5 DEF PrepareAudit, Finalize
<1>6. CASE Journal(r)
  BY <1>6 DEF Journal
<1> QED BY <1>1, <1>2, <1>3, <1>4, <1>5, <1>6 DEF OwnStep

-----------------------------------------------------------------------------
(* The order of the cleanup.                                               *)

LEMMA Ranks ==
    /\ \A g, h \in Mutating : g # h => Before(g, h) \/ Before(h, g)
    /\ \A g, h \in Mutating : Before(g, h) => ~Before(h, g) /\ g # h
    /\ \A g, h, k \in Mutating : Before(g, h) /\ Before(h, k) => Before(g, k)
    /\ \A g \in Mutating : g # "Q" => Before("Q", g)
    /\ \A g \in Mutating : Rank[g] \in Nat
  BY DEF Mutating, Before, Rank

\* The loop comes to the first id that is not journaled.
LEMMA NextIs ==
    ASSUME NEW a \in Runs, NEW g \in Mutating, IsNext(a, g)
    PROVE  NextId(a) = accepted[g]
<1> DEFINE left == {h \in Mutating : accepted[h] \notin audits[a].removed}
           least(c) == \A h \in left : Rank[c] <= Rank[h]
           chosen == CHOOSE c \in left : least(c)
<1>1. g \in left /\ least(g)
  BY Ranks DEF IsNext, Before
<1>2. chosen \in left /\ least(chosen)
  BY <1>1
<1>3. chosen = g
  BY <1>1, <1>2, Ranks DEF Before
<1> QED BY <1>3 DEF NextId

LEMMA NextExists ==
    ASSUME NEW a \in Runs, ~(Approved \subseteq audits[a].removed)
    PROVE  \E g \in Mutating : IsNext(a, g)
<1>1. \E g \in Mutating : accepted[g] \notin audits[a].removed
  BY DEF Approved
<1> QED BY <1>1 DEF IsNext, Before, Rank, Mutating

\* What is next is the same for all who ask.
LEMMA NextUnique ==
    ASSUME NEW a \in Runs, NEW g \in Mutating, NEW h \in Mutating,
           IsNext(a, g), IsNext(a, h)
    PROVE  g = h
  BY Ranks DEF IsNext

-----------------------------------------------------------------------------
(* What a comparison with the inventory tells.                             *)

LEMMA Matched ==
    ASSUME NEW E, Matches(E)
    PROVE  /\ Attention = {}
           /\ \A r \in Present : records[r] = "committed" /\ ~Touched(r)
           /\ \A r \in Present : <<r, Class(r)>> \in E
           /\ \A i, c : <<i, c>> \in E => i \in Present /\ Class(i) = c
<1>1. {<<r, Class(r)>> : r \in Present} = E
  BY DEF Matches
<1>2. \A i, c : <<i, c>> \in E => i \in Present /\ Class(i) = c
  BY <1>1
<1>3. \A r \in Present : records[r] = "committed" /\ ~Touched(r)
  BY DEF Matches, Attention, Touched
<1> QED BY <1>1, <1>2, <1>3 DEF Matches

LEMMA Inventories ==
    /\ Matches(FrozenR) => Present = {accepted.Q}
    /\ Matches(FrozenT) => Present = {accepted.Q, accepted.R}
    /\ Matches(FrozenU) => Present = {accepted.Q, accepted.R, accepted.T}
    /\ Matches(FrozenX) => Present = {accepted.Q, accepted.R, accepted.T,
                                      accepted.U}
    /\ Matches(FrozenY) => Present = Approved
    /\ \A r : Matches(FrozenT \cup {<<accepted.T, "committed_then_changed">>,
                                    <<r, "committed">>}) =>
           Present = {accepted.Q, accepted.R, accepted.T, r}
<1>1. ASSUME Matches(FrozenR)
      PROVE  Present = {accepted.Q}
  <2>1. \A r \in Present : <<r, Class(r)>> \in FrozenR
    BY <1>1, Matched
  <2>2. \A i, c : <<i, c>> \in FrozenR => i \in Present
    BY <1>1, Matched
  <2> QED BY <2>1, <2>2 DEF FrozenR, FrozenT, FrozenU, FrozenX
<1>2. ASSUME Matches(FrozenT)
      PROVE  Present = {accepted.Q, accepted.R}
  <2>1. \A r \in Present : <<r, Class(r)>> \in FrozenT
    BY <1>2, Matched
  <2>2. \A i, c : <<i, c>> \in FrozenT => i \in Present
    BY <1>2, Matched
  <2> QED BY <2>1, <2>2 DEF FrozenR, FrozenT, FrozenU, FrozenX
<1>3. ASSUME Matches(FrozenU)
      PROVE  Present = {accepted.Q, accepted.R, accepted.T}
  <2>1. \A r \in Present : <<r, Class(r)>> \in FrozenU
    BY <1>3, Matched
  <2>2. \A i, c : <<i, c>> \in FrozenU => i \in Present
    BY <1>3, Matched
  <2> QED BY <2>1, <2>2 DEF FrozenR, FrozenT, FrozenU, FrozenX
<1>4. ASSUME Matches(FrozenX)
      PROVE  Present = {accepted.Q, accepted.R, accepted.T, accepted.U}
  <2>1. \A r \in Present : <<r, Class(r)>> \in FrozenX
    BY <1>4, Matched
  <2>2. \A i, c : <<i, c>> \in FrozenX => i \in Present
    BY <1>4, Matched
  <2> QED BY <2>1, <2>2 DEF FrozenR, FrozenT, FrozenU, FrozenX
<1>5. ASSUME Matches(FrozenY)
      PROVE  Present = Approved
  <2>1. \A r \in Present : <<r, Class(r)>> \in FrozenY
    BY <1>5, Matched
  <2>2. \A i, c : <<i, c>> \in FrozenY => i \in Present
    BY <1>5, Matched
  <2>3. Approved = {accepted.Q, accepted.R, accepted.T, accepted.U, accepted.X}
    BY DEF Approved, Mutating
  <2> QED BY <2>1, <2>2, <2>3 DEF FrozenT, FrozenX, FrozenY
<1>6. ASSUME NEW r, NEW E,
             E = FrozenT \cup {<<accepted.T, "committed_then_changed">>,
                               <<r, "committed">>},
             Matches(E)
      PROVE  Present = {accepted.Q, accepted.R, accepted.T, r}
  <2>1. \A q \in Present : <<q, Class(q)>> \in E
    BY <1>6, Matched
  <2>2. \A i, c : <<i, c>> \in E => i \in Present
    BY <1>6, Matched
  <2> QED BY <1>6, <2>1, <2>2 DEF FrozenT
<1> QED BY <1>1, <1>2, <1>3, <1>4, <1>5, <1>6

-----------------------------------------------------------------------------
(* A gate's id is printed once.                                            *)

\* The record of a printed id is whole, or the directory of Q went first.
LEMMA PrintedThere ==
    ASSUME CampaignInvariant, NEW g \in Mutating, accepted[g] # NoRun,
           accepted.Q \in Present, Attention = {}
    PROVE  accepted[g] \in Present /\ records[accepted[g]] = "committed"
<1> USE DEF CampaignInvariant, Ledger, Cleanup, Printed
<1>1. RunTypeOK
  BY TypeParts
<1>2. accepted[g] \in Runs
  BY <1>1 DEF RunTypeOK
<1>3. ~Touched(accepted.Q)
  BY DEF Attention, Touched, Present
<1>4. ~Touched(accepted[g])
  <2>1. CASE g = "Q"
    BY <1>3, <2>1
  <2>2. CASE g # "Q"
    <3>1. "Q" \in Mutating /\ Before("Q", g)
      BY <2>2, Ranks DEF Mutating
    <3>2. Touched(accepted[g]) => Journaled(accepted.Q)
      BY <3>1 DEF Ordered
    <3>3. Journaled(accepted.Q) => Touched(accepted.Q)
      BY DEF Journaled, Journal1, Touched
    <3> QED BY <1>3, <3>2, <3>3
  <2> QED BY <2>1, <2>2
<1> QED BY <1>2, <1>4 DEF Touched, Present

LEMMA AcceptsNew ==
    ASSUME CampaignInvariant, NEW r \in Runs, Accept(r)
    PROVE  accepted[gate[r]] = NoRun
<1> USE DEF CampaignInvariant, Ledger
<1>0. RunTypeOK
  BY TypeParts
<1>1. pc[r] = "applied" /\ gate[r] \in Mutating /\ r \in mutated
      /\ records[r] = "committed" /\ Landed(r)
  BY DEF Accept, Placed, Pending
<1>2. SUFFICES ASSUME accepted[gate[r]] # NoRun
               PROVE  FALSE
  OBVIOUS
<1>3. /\ accepted[gate[r]] \in mutated /\ gate[accepted[gate[r]]] = gate[r]
      /\ accepted[gate[r]] # r
  BY <1>1, <1>2 DEF Printed
<1>4. gate[r] = "U"
  BY <1>1, <1>3 DEF Files, EachGateOnce
<1>5. Present = {accepted.Q, accepted.R, accepted.T, r} /\ Attention = {}
  BY <1>1, <1>4, Inventories, Matched DEF Landed, LandedU
<1>6. accepted.U \in Present
  BY <1>2, <1>4, <1>5, PrintedThere DEF Mutating
<1>7. /\ accepted.Q # NoRun /\ accepted.R # NoRun /\ accepted.T # NoRun
  BY <1>0, <1>5, RunsNat DEF Present
<1>8. /\ gate[accepted.Q] = "Q" /\ gate[accepted.R] = "R"
      /\ gate[accepted.T] = "T" /\ gate[accepted.U] = "U"
  BY <1>2, <1>4, <1>7 DEF Printed, Mutating
<1> QED BY <1>3, <1>4, <1>5, <1>6, <1>8

\* Printed ids never change, nor do the identities of the fixtures.
Kept == /\ \A g \in Mutating : accepted[g] # NoRun => accepted'[g] = accepted[g]
        /\ fixture.canary # NoFile => fixture'.canary = fixture.canary
        /\ fixture.source # NoFile => fixture'.source = fixture.source
        /\ \A a \in Runs : audits[a].status # "none" =>
               audits'[a].status # "none"

LEMMA StepKept ==
    ASSUME CampaignInvariant, CampaignStep
    PROVE  Kept
<1> USE DEF Kept, RunTypeOK
<1>0. RunTypeOK
  BY TypeParts DEF CampaignInvariant
<1>1. CASE QualifyCanary
  BY <1>0, <1>1 DEF QualifyCanary
<1>2. CASE QualifyMove
  BY <1>0, <1>2 DEF QualifyMove
<1>3. CASE \E d \in DOMAIN docs : OwnerEdit(d)
  BY <1>0, <1>3 DEF OwnerEdit
<1>4. ASSUME NEW r \in Runs, RunStep(r)
      PROVE  Kept
  <2>1. CASE StartCleanup(r) \/ \E g \in Mutating : Start(r, g)
    BY <1>0, <2>1 DEF StartCleanup, Start
  <2>2. CASE Preview(r) \/ Dispatch(r) \/ Admit(r) \/ Prepare(r)
    BY <1>0, <2>2 DEF Preview, Dispatch, Admit, Prepare
  <2>3. CASE Change(r) \/ Commit(r) \/ Stop(r) \/ Tear(r) \/ Remove(r)
    BY <1>0, <2>3 DEF Change, Commit, Stop, Tear, Remove
  <2>4. CASE Accept(r)
    BY <1>0, <2>4, AcceptsNew DEF Accept
  <2>5. CASE PrepareAudit(r) \/ Finalize(r)
    <3>1. \A a \in Runs : audits[a].status # "none" =>
                              audits'[a].status # "none"
      BY <1>0, <2>5 DEF PrepareAudit, Finalize, Audit
    <3> QED BY <2>5, <3>1 DEF PrepareAudit, Finalize
  <2>6. CASE Journal(r)
    <3>1. \A a \in Runs : audits'[a].status = audits[a].status
      BY <1>0, <2>6 DEF Journal, Audit
    <3> QED BY <2>6, <3>1 DEF Journal
  <2> QED BY <1>4, <2>1, <2>2, <2>3, <2>4, <2>5, <2>6 DEF RunStep
<1> QED BY <1>1, <1>2, <1>3, <1>4 DEF CampaignStep

\* Printed ids stay, and an audit fixes all of them.
LEMMA KeptIds ==
    ASSUME CampaignInvariant, Kept, accepted' \in [Mutating -> Runs \cup {NoRun}]
    PROVE  /\ \A i \in Runs : i \in Approved => i \in Approved'
           /\ Audited => /\ Audited' /\ accepted' = accepted
                         /\ Approved' = Approved /\ Approved \subseteq Runs
<1> USE DEF CampaignInvariant, Ledger, Kept
<1>0. RunTypeOK
  BY TypeParts
<1>1. \A i \in Runs : i \in Approved => i \in Approved'
  BY RunsNat DEF Approved
<1>2. ASSUME Audited
      PROVE  /\ Audited' /\ accepted' = accepted
             /\ Approved' = Approved /\ Approved \subseteq Runs
  <2>1. \A g \in Mutating : accepted[g] # NoRun
    BY <1>2 DEF Audited, Follows
  <2>2. \A g \in Mutating : accepted'[g] = accepted[g]
    BY <2>1
  <2>3. accepted' = accepted
    BY <1>0, <2>2 DEF RunTypeOK
  <2>4. Approved \subseteq Runs
    BY <1>0, <2>1 DEF RunTypeOK, Approved
  <2> QED BY <1>2, <2>3, <2>4 DEF Audited, Approved
<1> QED BY <1>1, <1>2

-----------------------------------------------------------------------------
(* The ledger.                                                             *)

\* A run that a step leaves in its place stays as Ledger says, also when its
\* directory is taken away.
LEMMA LedgerFrame ==
    ASSUME CampaignInvariant, Kept, RunTypeOK', NEW q \in Runs, SamePlace(q),
           q \in mutated' <=> q \in mutated,
           \/ records'[q] = records[q]
           \/ /\ records'[q] \in {"torn", "removed"} /\ pc[q] = "passed"
              /\ q \in mutated /\ q \in Approved /\ Audited
    PROVE  (Placed(q) /\ Changed(q) /\ Follows(q))'
<1> USE DEF CampaignInvariant, Ledger, SamePlace
<1>1. Placed(q) /\ Changed(q) /\ Follows(q)
  OBVIOUS
<1>2. /\ q \in Approved => q \in Approved'
      /\ Audited => Audited'
  BY KeptIds DEF RunTypeOK
<1>3. Placed(q)'
  BY <1>1 DEF Placed, Changed, Pending
<1>4. Changed(q)'
  BY <1>1, <1>2 DEF Changed, Touched
<1>5. Follows(q)'
  <2>1. \A h \in Mutating : accepted[h] # NoRun => accepted'[h] # NoRun
    BY DEF Kept, NoRun
  <2> QED BY <1>1, <2>1 DEF Follows, Kept, Before
<1> QED BY <1>3, <1>4, <1>5

LEMMA PrintedFrame ==
    ASSUME CampaignInvariant, NEW g \in Mutating, accepted'[g] = accepted[g],
           accepted[g] # NoRun =>
             /\ SamePlace(accepted[g])
             /\ mutated \subseteq mutated'
             /\ \/ records'[accepted[g]] = records[accepted[g]]
                \/ records'[accepted[g]] \in {"torn", "removed"}
    PROVE  Printed(g)'
  BY DEF CampaignInvariant, Ledger, Printed, SamePlace

\* What a script has found when it starts.
LEMMA StartFollows ==
    ASSUME CampaignInvariant, NEW g \in Mutating, Ready(g)
    PROVE  /\ \A h \in Mutating : Before(h, g) => accepted[h] # NoRun
           /\ g = "Q" => fixture.canary # NoFile
           /\ g = "T" => fixture.source # NoFile
<1> USE DEF Ready
<1>0. RunTypeOK /\ Known(docs)
  BY TypeParts DEF CampaignInvariant, Files, Traced
<1>1. Present \subseteq Runs /\ NoRun \notin Runs
  BY RunsNat DEF Present
<1>2. CASE g = "Q"
  <2>1. fixture.canary # NoFile
    BY <1>0, <1>2 DEF ReadyQ, CanaryIsFixture, Known, Gone
  <2> QED BY <1>2, <2>1 DEF Before, Rank, Mutating
<1>3. CASE g = "R"
  <2>1. accepted.Q \in Present
    BY <1>3, Inventories DEF ReadyR
  <2> QED BY <1>1, <1>3, <2>1 DEF Before, Rank, Mutating
<1>4. CASE g = "T"
  <2>1. accepted.Q \in Present /\ accepted.R \in Present
    BY <1>4, Inventories DEF ReadyT
  <2>2. fixture.source # NoFile
    BY <1>0, <1>4 DEF ReadyT, Known, Gone
  <2> QED BY <1>1, <1>4, <2>1, <2>2 DEF Before, Rank, Mutating
<1>5. CASE g = "U"
  <2>1. accepted.Q \in Present /\ accepted.R \in Present /\ accepted.T \in Present
    BY <1>5, Inventories DEF ReadyU
  <2> QED BY <1>1, <1>5, <2>1 DEF Before, Rank, Mutating
<1>6. CASE g = "X"
  <2>1. accepted.Q \in Present /\ accepted.R \in Present /\ accepted.T \in Present
        /\ accepted.U \in Present
    BY <1>6, Inventories DEF ReadyX
  <2> QED BY <1>1, <1>6, <2>1 DEF Before, Rank, Mutating
<1> QED BY <1>2, <1>3, <1>4, <1>5, <1>6 DEF Mutating

\* The run that moves ends up where Ledger says.
LEMMA LedgerOwn ==
    ASSUME CampaignInvariant, Kept, RunTypeOK', NEW r \in Runs, OwnStep(r)
    PROVE  (Placed(r) /\ Changed(r) /\ Follows(r))'
<1> USE DEF CampaignInvariant, Ledger, Goto, Pending
<1>0. RunTypeOK /\ Placed(r) /\ Changed(r) /\ Follows(r)
  BY TypeParts
<1>2. /\ r \in Approved => r \in Approved'
      /\ Audited => Audited'
  BY KeptIds DEF RunTypeOK
<1>3. /\ \A h \in Mutating : accepted[h] # NoRun => accepted'[h] # NoRun
      /\ fixture.canary # NoFile => fixture'.canary # NoFile
      /\ fixture.source # NoFile => fixture'.source # NoFile
  BY DEF Kept, NoRun
<1> USE <1>0, <1>2, <1>3 DEF RunTypeOK
<1>4. CASE CanLaunch(r) /\ StartCleanup(r)
  BY <1>4 DEF CanLaunch, StartCleanup, Placed, Changed, Follows, Touched,
              NoAudit, Mutating
<1>5. ASSUME NEW g \in Mutating, CanLaunch(r), Start(r, g)
      PROVE  (Placed(r) /\ Changed(r) /\ Follows(r))'
  <2>1. /\ gate'[r] = g /\ pc'[r] = "ready" /\ pc[r] = "idle"
        /\ UNCHANGED <<records, audits, mutated, accepted, fixture>>
    BY <1>5 DEF Start, CanLaunch
  <2>2. g # "Y" /\ g # "none"
    BY DEF Mutating
  <2>3. Placed(r)'
    BY <2>1, <2>2 DEF Placed
  <2>4. Changed(r)'
    BY <2>1 DEF Placed, Changed, Touched
  <2>5. Follows(r)'
    BY <1>5, <2>1, StartFollows DEF Start, Follows, Placed, NoAudit
  <2> QED BY <2>3, <2>4, <2>5
<1>6. CASE Preview(r) \/ Dispatch(r) \/ Admit(r)
  <2>1. /\ pc[r] \in {"ready", "previewed", "asked"} /\ gate[r] \in Mutating
        /\ pc'[r] \in {"previewed", "asked", "admitted"}
        /\ UNCHANGED <<records, audits, mutated, accepted, fixture, gate>>
    BY <1>6 DEF Preview, Dispatch, Admit, Placed
  <2>2. Placed(r)'
    BY <2>1 DEF Placed, Mutating
  <2>3. Changed(r)'
    BY <2>1 DEF Placed, Changed, Touched
  <2>4. Follows(r)'
    BY <2>1 DEF Follows
  <2> QED BY <2>2, <2>3, <2>4
<1>7. CASE Prepare(r)
  <2>1. /\ pc[r] = "admitted" /\ gate[r] \in Mutating /\ pc'[r] = "recorded"
        /\ records'[r] = "open"
        /\ UNCHANGED <<audits, mutated, accepted, fixture, gate>>
    BY <1>7 DEF Prepare, Placed
  <2>2. Placed(r)'
    BY <2>1 DEF Placed, Mutating
  <2>3. Changed(r)'
    BY <2>1 DEF Placed, Changed, Touched
  <2>4. Follows(r)'
    BY <2>1 DEF Follows
  <2> QED BY <2>2, <2>3, <2>4
<1>8. CASE Change(r)
  <2>1. /\ pc[r] = "recorded" /\ gate[r] \in Mutating /\ pc'[r] = "changed"
        /\ r \in mutated' /\ records[r] = "open"
        /\ UNCHANGED <<audits, records, accepted, fixture, gate>>
    BY <1>8 DEF Change, Placed
  <2>2. Placed(r)'
    BY <2>1 DEF Placed, Mutating
  <2>3. Changed(r)'
    BY <2>1 DEF Placed, Changed, Touched
  <2>4. Follows(r)'
    BY <2>1 DEF Follows
  <2> QED BY <2>2, <2>3, <2>4
<1>9. CASE Commit(r)
  <2>1. /\ pc[r] = "changed" /\ gate[r] \in Mutating /\ pc'[r] = "applied"
        /\ r \in mutated /\ records'[r] = "committed"
        /\ UNCHANGED <<audits, mutated, accepted, fixture, gate>>
    BY <1>9 DEF Commit, Placed
  <2>2. Placed(r)'
    BY <2>1 DEF Placed, Mutating
  <2>3. Changed(r)'
    BY <2>1 DEF Placed, Changed, Touched
  <2>4. Follows(r)'
    BY <2>1 DEF Follows
  <2> QED BY <2>2, <2>3, <2>4
<1>10. CASE Accept(r)
  <2>1. /\ pc[r] = "applied" /\ gate[r] \in Mutating /\ pc'[r] = "passed"
        /\ r \in mutated /\ records[r] = "committed"
        /\ UNCHANGED <<audits, mutated, records, fixture, gate>>
    BY <1>10 DEF Accept, Placed
  <2>2. Placed(r)'
    BY <2>1 DEF Placed, Mutating
  <2>3. Changed(r)'
    BY <2>1 DEF Placed, Changed, Touched
  <2>4. Follows(r)'
    BY <2>1 DEF Follows
  <2> QED BY <2>2, <2>3, <2>4
<1>11. CASE Stop(r)
  <2>1. /\ pc'[r] = IF LeftNothing(r) THEN "idle" ELSE "stopped"
        /\ gate'[r] = IF LeftNothing(r) THEN "none" ELSE gate[r]
        /\ Active(r)
        /\ UNCHANGED <<audits, mutated, records, accepted, fixture>>
    BY <1>11 DEF Stop
  <2>2. Placed(r)'
    BY <2>1 DEF Placed, LeftNothing, Active, Mutating
  <2>3. Changed(r)'
    BY <2>1 DEF Placed, Changed, Touched, LeftNothing, Active
  <2>4. Follows(r)'
    BY <2>1 DEF Follows, LeftNothing, NoAudit, Mutating
  <2> QED BY <2>2, <2>3, <2>4
<1>12. CASE PrepareAudit(r)
  <2>1. /\ pc[r] = "ready" /\ gate[r] = "Y" /\ pc'[r] = "pruning"
        /\ audits'[r].status = "prepared" /\ Present = Approved
        /\ UNCHANGED <<gate, mutated, records, accepted, fixture>>
    BY <1>12, Inventories DEF PrepareAudit, Audit
  <2>2. Placed(r)'
    BY <2>1 DEF Placed, Mutating
  <2>3. Changed(r)'
    BY <2>1 DEF Placed, Changed, Touched
  <2>4. \A h \in Mutating : accepted[h] # NoRun
    BY <2>1, RunsNat DEF Present, Approved
  <2>5. Follows(r)'
    BY <2>1, <2>4 DEF Follows, Mutating
  <2> QED BY <2>2, <2>3, <2>5
<1>13. CASE Journal(r)
  <2>1. /\ pc[r] = "removed" /\ gate[r] = "Y" /\ pc'[r] = "pruning"
        /\ audits'[r].status = audits[r].status
        /\ audits[r].status = "prepared"
        /\ UNCHANGED <<gate, mutated, records, accepted, fixture>>
    BY <1>13 DEF Journal, Audit, Placed
  <2>2. Placed(r)'
    BY <2>1 DEF Placed, Mutating
  <2>3. Changed(r)'
    BY <2>1 DEF Placed, Changed, Touched
  <2>5. Follows(r)'
    BY <2>1 DEF Follows, Mutating
  <2> QED BY <2>2, <2>3, <2>5
<1>14. CASE Finalize(r)
  <2>1. /\ pc[r] = "pruning" /\ gate[r] = "Y" /\ pc'[r] = "passed"
        /\ audits'[r].status = "committed"
        /\ audits[r].status = "prepared"
        /\ UNCHANGED <<gate, mutated, records, accepted, fixture>>
    BY <1>14 DEF Finalize, Audit, Placed
  <2>2. Placed(r)'
    BY <2>1 DEF Placed, Mutating
  <2>3. Changed(r)'
    BY <2>1 DEF Placed, Changed, Touched
  <2>5. Follows(r)'
    BY <2>1 DEF Follows, Mutating
  <2> QED BY <2>2, <2>3, <2>5
<1> QED
  BY <1>4, <1>5, <1>6, <1>7, <1>8, <1>9, <1>10, <1>11, <1>12, <1>13, <1>14
     DEF OwnStep

\* The cleanup takes away the directory of the printed id it has come to.
TakesAway(r, g) ==
    /\ IsNext(r, g) /\ accepted[g] \in Runs /\ accepted[g] # r
    /\ accepted[g] \in mutated /\ accepted[g] \in Approved
    /\ pc[accepted[g]] = "passed" /\ Audited /\ audits[r].status = "prepared"
    /\ \/ /\ pc[r] = "pruning" /\ pc'[r] = "tearing"
          /\ accepted[g] \in Present
          /\ records' = [records EXCEPT ![accepted[g]] = "torn"]
       \/ /\ pc[r] = "tearing" /\ pc'[r] = "removed"
          /\ records' = [records EXCEPT ![accepted[g]] = "removed"]
    /\ \A q \in Runs \ {r} : pc'[q] = pc[q]
    /\ UNCHANGED <<docs, fixture, accepted, gate, plan, enabled, audits,
                   mutated, edits>>

LEMMA TearOrRemove ==
    ASSUME CampaignInvariant, NEW r \in Runs, Tear(r) \/ Remove(r)
    PROVE  \E g \in Mutating : TakesAway(r, g)
<1> USE DEF CampaignInvariant, Ledger, Cleanup
<1>0. RunTypeOK /\ Placed(r) /\ Journal1(r)
  BY TypeParts
<1>1. pc[r] \in {"pruning", "tearing"} /\ audits[r].status = "prepared"
  BY <1>0 DEF Tear, Remove, Placed
<1>2. PICK g \in Mutating : IsNext(r, g)
  BY <1>0, NextExists DEF Tear, Remove, Journal1
<1>3. NextId(r) = accepted[g]
  BY <1>2, NextIs
<1>4. accepted[g] \in Runs /\ accepted[g] # NoRun /\ Audited
  BY <1>0, <1>1 DEF Follows, RunTypeOK, Audited
<1>5. accepted[g] \in mutated /\ pc[accepted[g]] = "passed"
  BY <1>4 DEF Printed
<1>6. accepted[g] \in Approved
  BY DEF Approved
<1>7. CASE Tear(r)
  BY <1>0, <1>1, <1>2, <1>3, <1>4, <1>5, <1>6, <1>7
     DEF Tear, TakesAway, Goto, RunTypeOK
<1>8. CASE Remove(r)
  BY <1>0, <1>1, <1>2, <1>3, <1>4, <1>5, <1>6, <1>8
     DEF Remove, TakesAway, Goto, RunTypeOK
<1> QED BY <1>7, <1>8

LEMMA TakeType ==
    ASSUME CampaignInvariant, NEW r \in Runs, NEW g \in Mutating,
           TakesAway(r, g), Tear(r) \/ Remove(r)
    PROVE  RunTypeOK' /\ Bracketed'
<1>0. RunTypeOK /\ Bracketed
  BY TypeParts DEF CampaignInvariant
<1>1. RunTypeOK'
  BY <1>0 DEF RunTypeOK, TakesAway, Tear, Remove, Goto
<1>2. Bracketed'
  BY <1>0 DEF RunTypeOK, Bracketed, TakesAway
<1> QED BY <1>1, <1>2

LEMMA LedgerTake ==
    ASSUME CampaignInvariant, Kept, RunTypeOK', NEW r \in Runs,
           NEW g \in Mutating, TakesAway(r, g)
    PROVE  Ledger'
<1> USE DEF CampaignInvariant, TakesAway
<1>0. RunTypeOK
  BY TypeParts
<1>1. \A q \in Runs \ {r} : SamePlace(q)
  BY DEF SamePlace
<1>2. \A q \in Runs : \/ records'[q] = records[q]
                      \/ /\ records'[q] \in {"torn", "removed"}
                         /\ pc[q] = "passed" /\ q \in mutated
                         /\ q \in Approved /\ Audited
  BY <1>0 DEF RunTypeOK
<1>3. \A q \in Runs \ {r} : (Placed(q) /\ Changed(q) /\ Follows(q))'
  BY <1>1, <1>2, LedgerFrame
<1>4. Placed(r) /\ Changed(r) /\ Follows(r) /\ records'[r] = records[r]
  BY <1>0 DEF Ledger, RunTypeOK
<1>5. Placed(r)'
  BY <1>4 DEF Placed, Pending
<1>6. Changed(r)'
  BY <1>4 DEF Changed, Touched, Approved, Audited
<1>7. Follows(r)'
  BY <1>4 DEF Follows, Before
<1>8. ASSUME NEW h \in Mutating
      PROVE  Printed(h)'
  <2>1. accepted[h] # NoRun => accepted[h] \in Runs \ {r}
    BY <1>0 DEF RunTypeOK, Ledger, Printed
  <2> QED BY <1>1, <1>2, <2>1, PrintedFrame
<1> QED BY <1>3, <1>5, <1>6, <1>7, <1>8 DEF Ledger

LEMMA LedgerOwnStep ==
    ASSUME CampaignInvariant, Kept, RunTypeOK', NEW r \in Runs, OwnStep(r)
    PROVE  Ledger'
<1> USE DEF CampaignInvariant
<1>0. RunTypeOK /\ OnlyRun(r)
  BY TypeParts, OwnLocal
<1>1. \A q \in Runs \ {r} : (Placed(q) /\ Changed(q) /\ Follows(q))'
  BY <1>0, LedgerFrame DEF OnlyRun
<1>2. (Placed(r) /\ Changed(r) /\ Follows(r))'
  BY LedgerOwn
<1>3. mutated \subseteq mutated'
  BY <1>0 DEF OwnStep, StartCleanup, Start, Preview, Dispatch, Admit, Prepare,
     Change, Commit, Accept, Stop, PrepareAudit, Journal, Finalize
<1>4. ASSUME NEW g \in Mutating, accepted'[g] = accepted[g]
      PROVE  Printed(g)'
  <2>1. accepted[g] # NoRun => accepted[g] \in Runs /\ pc[accepted[g]] = "passed"
    BY <1>0 DEF RunTypeOK, Ledger, Printed
  <2>2. pc[r] # "passed"
    BY DEF OwnStep, CanLaunch, Preview, Dispatch, Admit, Prepare, Change,
       Commit, Accept, Stop, Active, PrepareAudit, Journal, Finalize
  <2> QED BY <1>0, <1>3, <1>4, <2>1, <2>2, PrintedFrame DEF OnlyRun
<1>5. ASSUME NEW g \in Mutating, accepted'[g] # accepted[g]
      PROVE  Printed(g)'
  <2>1. Accept(r)
    BY <1>5 DEF OwnStep, StartCleanup, Start, Preview, Dispatch, Admit,
       Prepare, Change, Commit, Stop, PrepareAudit, Journal, Finalize
  <2>2. gate[r] = g /\ accepted'[g] = r
    BY <1>0, <1>5, <2>1 DEF Accept, RunTypeOK
  <2>3. r \in mutated /\ records[r] = "committed"
    BY <2>1 DEF Accept, Ledger, Placed
  <2> QED BY <1>0, <2>1, <2>2, <2>3 DEF Accept, Goto, Printed, RunTypeOK
<1> QED BY <1>1, <1>2, <1>4, <1>5 DEF Ledger

\* A step that is no run's changes nothing of them.
LEMMA LedgerOther ==
    ASSUME CampaignInvariant, Kept, RunTypeOK',
           UNCHANGED <<records, accepted, gate, pc, plan, enabled, audits,
                       mutated>>
    PROVE  Ledger'
<1>1. \A q \in Runs : SamePlace(q)
  BY DEF SamePlace
<1>2. \A q \in Runs : (Placed(q) /\ Changed(q) /\ Follows(q))'
  BY <1>1, LedgerFrame
<1>3. \A g \in Mutating : Printed(g)'
  BY DEF CampaignInvariant, Ledger, Printed
<1> QED BY <1>2, <1>3 DEF Ledger

-----------------------------------------------------------------------------
(* File identities.                                                        *)

LEMMA StillUsed ==
    ASSUME mutated \subseteq mutated', edits \in Nat, edits' \in Nat,
           edits <= edits', NEW f, Used(f)
    PROVE  Used(f)'
  BY RunsNat DEF Used, FixtureFile, NoFile

LEMMA UsedConstants ==
    ASSUME edits \in Nat, mutated \subseteq Runs
    PROVE  /\ Used(NoFile) /\ Known(NoPlan) /\ ~Used(OwnerFile)
           /\ OwnerFile # NoFile /\ \A r \in Runs : Used(r) => r \in mutated
           /\ \A r \in Runs : r # NoFile
<1>1. Used(NoFile)
  BY RunsNat DEF Used, FixtureFile, NoFile
<1>2. Known(NoPlan)
  BY <1>1 DEF Known, NoPlan, Gone
<1>3. ~Used(OwnerFile)
  BY RunsNat DEF Used, OwnerFile, FixtureFile, NoFile, Runs
<1>4. OwnerFile # NoFile
  BY RunsNat DEF OwnerFile
<1>5. \A r \in Runs : Used(r) => r \in mutated
  BY RunsNat DEF Used, FixtureFile, NoFile, Runs
<1>6. \A r \in Runs : r # NoFile
  BY RunsNat
<1> QED BY <1>1, <1>2, <1>3, <1>4, <1>5, <1>6

\* Whatever the step, documents, plans and fixtures are in files that were in
\* use or have just been made.
LEMMA TracedFrame ==
    ASSUME Traced, mutated \subseteq mutated', mutated \subseteq Runs,
           edits \in Nat, edits' \in Nat,
           edits <= edits', Known(docs)',
           \A q \in Runs : \/ plan'[q] = plan[q] \/ plan'[q] = docs
                           \/ plan'[q] = NoPlan,
           fixture'.canary \in {fixture.canary, docs.canary.file},
           fixture'.source \in {fixture.source, docs.source.file}
    PROVE  Traced'
<1>1. ASSUME NEW D, Known(D)
      PROVE  Known(D)'
  BY <1>1, StillUsed DEF Known
<1>2. Known(NoPlan) /\ Known(docs) /\ \A q \in Runs : Known(plan[q])
  BY UsedConstants DEF Traced
<1>3. ASSUME NEW q \in Runs
      PROVE  Known(plan[q])'
  <2>1. CASE plan'[q] = plan[q]
    <3>1. PICK D : D = plan[q]
      OBVIOUS
    <3>2. Known(D) /\ plan'[q] = D
      BY <1>2, <2>1, <3>1
    <3>3. Known(D)'
      BY <1>1, <3>2
    <3> QED BY <3>2, <3>3 DEF Known
  <2>2. CASE plan'[q] = docs
    <3>1. PICK D : D = docs
      OBVIOUS
    <3>2. Known(D) /\ plan'[q] = D
      BY <1>2, <2>2, <3>1
    <3>3. Known(D)'
      BY <1>1, <3>2
    <3> QED BY <3>2, <3>3 DEF Known
  <2>3. CASE plan'[q] = NoPlan
    <3>1. Known(NoPlan)'
      BY <1>1, <1>2
    <3> QED BY <2>3, <3>1 DEF Known
  <2> QED BY <1>3, <2>1, <2>2, <2>3
<1>4. Used(fixture.canary)' /\ Used(fixture.source)'
  <2>1. PICK f, g : f = fixture'.canary /\ g = fixture'.source
    OBVIOUS
  <2>2. Used(f) /\ Used(g)
    BY <2>1 DEF Traced, Known
  <2>3. Used(f)' /\ Used(g)'
    BY <2>2, StillUsed
  <2> QED BY <2>1, <2>3 DEF Used
<1> QED BY <1>3, <1>4 DEF Traced

LEMMA KnownSame ==
    ASSUME Traced, docs' = docs, mutated \subseteq mutated', edits \in Nat,
           edits' \in Nat, edits <= edits'
    PROVE  Known(docs)'
<1>1. PICK D : D = docs
  OBVIOUS
<1>2. Known(D) /\ docs' = D
  BY <1>1 DEF Traced
<1>3. Known(D)'
  BY <1>2, StillUsed DEF Known
<1> QED BY <1>2, <1>3 DEF Known

\* A gate writes into new files.
LEMMA KnownChange ==
    ASSUME CampaignInvariant, NEW r \in Runs, Change(r)
    PROVE  Known(docs)'
<1> USE DEF CampaignInvariant
<1>0. RunTypeOK /\ gate[r] \in Mutating /\ edits \in Nat
  BY TypeParts DEF Change, Ledger, Placed, Pending, RunTypeOK
<1>1. /\ docs' = Effect(r) /\ mutated' = mutated \cup {r} /\ edits' = edits
  BY DEF Change
<1>2. r # NoFile /\ Used(r)'
  BY <1>0, <1>1, RunsNat DEF Used
<1>3. \A f : Used(f) => Used(f)'
  BY <1>0, <1>1, StillUsed
<1>4. \A d \in {"canary", "source", "target"} :
          \/ docs'[d] = docs[d] \/ docs'[d] = Gone
          \/ docs'[d].file = r
  <2>1. CASE gate[r] \in {"Q", "R"}
    <3>1. /\ \/ docs'.canary = [bytes |-> "after", file |-> r]
             \/ docs'.canary = [bytes |-> "before", file |-> r]
          /\ docs'.source = docs.source /\ docs'.target = docs.target
      BY <1>0, <1>1, <2>1, Effects
    <3> QED BY <3>1
  <2>2. CASE gate[r] = "T"
    <3>1. /\ docs'.target = [bytes |-> "frozen", file |-> r]
          /\ docs'.canary = docs.canary /\ docs'.source = Gone
      BY <1>0, <1>1, <2>2, Effects
    <3> QED BY <3>1
  <2>3. CASE gate[r] = "U"
    <3>1. /\ docs'.source = [bytes |-> "frozen", file |-> r]
          /\ docs'.canary = docs.canary /\ docs'.target = docs.target
      BY <1>0, <1>1, <2>3, Effects
    <3> QED BY <3>1
  <2>4. CASE gate[r] = "X"
    <3>1. /\ docs'.target = Gone
          /\ docs'.canary = docs.canary /\ docs'.source = docs.source
      BY <1>0, <1>1, <2>4, Effects
    <3> QED BY <3>1
  <2> QED BY <1>0, <2>1, <2>2, <2>3, <2>4 DEF Mutating
<1>5. Known(docs) /\ Used(NoFile)
  BY <1>0, UsedConstants DEF Files, Traced, RunTypeOK
<1>6. \A d \in {"canary", "source", "target"} :
          \E f : docs'[d].file = f /\ Used(f)'
  BY <1>2, <1>3, <1>4, <1>5 DEF Known, Gone
<1>7. \A d \in {"canary", "source", "target"} :
          docs'[d] = Gone \/ docs'[d].file # NoFile
  BY <1>2, <1>4, <1>5 DEF Known
<1> QED BY <1>6, <1>7 DEF Known, Used

LEMMA KnownEdit ==
    ASSUME CampaignInvariant, NEW d \in DOMAIN docs, OwnerEdit(d)
    PROVE  Known(docs)'
<1> USE DEF CampaignInvariant
<1>0. RunTypeOK /\ edits \in Nat
  BY TypeParts DEF RunTypeOK
<1>1. /\ edits' = edits + 1 /\ mutated' = mutated
  BY DEF OwnerEdit
<1>2. \A f : Used(f) => Used(f)'
  BY <1>0, <1>1, StillUsed
<1>3. Known(docs) /\ Used(NoFile)
  BY <1>0, UsedConstants DEF Files, Traced, RunTypeOK
<1>4. \A c \in {"canary", "source", "target"} :
          \/ docs'[c] = docs[c] \/ docs'[c] = Gone
          \/ docs'[c].file \in {docs[c].file, OwnerFile} \ {NoFile}
  BY <1>0, Edited
<1>5. PICK f : f = OwnerFile
  OBVIOUS
<1>6. Used(f)'
  BY <1>0, <1>1, <1>5, RunsNat DEF Used, OwnerFile, FixtureFile, NoFile
<1>7. \A c \in {"canary", "source", "target"} :
          \E k : docs'[c].file = k /\ Used(k)'
  BY <1>2, <1>3, <1>4, <1>5, <1>6 DEF Known, Gone
<1>8. \A c \in {"canary", "source", "target"} :
          docs'[c] = Gone \/ docs'[c].file # NoFile
  BY <1>3, <1>4 DEF Known
<1> QED BY <1>7, <1>8 DEF Known, Used

-----------------------------------------------------------------------------
(* A spent file stops a second run.                                        *)

\* A waiting run whose documents are as planned finds no run that acted for
\* its gate or for one after it, unless it is a U and the owner was there.
LEMMA SpentStops ==
    ASSUME CampaignInvariant, NEW r \in Runs, pc[r] \in Pending, Untouched(r),
           NEW p \in mutated, gate[p] = gate[r] \/ Before(gate[r], gate[p])
    PROVE  gate[r] = "U" /\ edits > 0
<1> USE DEF CampaignInvariant, Ledger, Files
<1>0. /\ RunTypeOK /\ gate[r] \in Mutating /\ p \in Runs /\ gate[p] \in Mutating
      /\ edits \in Nat
  BY TypeParts DEF Placed, Changed, RunTypeOK
<1>1. \E q \in mutated : gate[q] = gate[r]
  <2>1. CASE gate[p] = gate[r]
    BY <2>1
  <2>2. CASE Before(gate[r], gate[p])
    BY <1>0, <2>2 DEF Follows, Printed
  <2> QED BY <2>1, <2>2
<1>2. PICK q \in mutated : gate[q] = gate[r]
  BY <1>1
<1>3. Spent(q) /\ Bound(r)
  OBVIOUS
<1>4. CASE gate[r] = "Q"
  BY <1>2, <1>3, <1>4 DEF Spent, Bound, Untouched
<1>5. CASE gate[r] = "R"
  BY <1>2, <1>3, <1>5 DEF Spent, Bound, Untouched
<1>6. CASE gate[r] = "T"
  BY <1>2, <1>3, <1>6 DEF Spent, Bound, Untouched
<1>7. CASE gate[r] = "U"
  BY <1>0, <1>2, <1>3, <1>7 DEF Spent, Bound, Untouched
<1>8. CASE gate[r] = "X"
  BY <1>2, <1>3, <1>8 DEF Spent, Bound, Untouched
<1> QED BY <1>0, <1>4, <1>5, <1>6, <1>7, <1>8 DEF Mutating

\* After a run of X the inventory X starts from is never there again.
LEMMA NoSecondX ==
    ASSUME CampaignInvariant, NEW p \in mutated, gate[p] = "X",
           Matches(FrozenX)
    PROVE  FALSE
<1> USE DEF CampaignInvariant, Ledger
<1>0. RunTypeOK /\ p \in Runs
  BY TypeParts DEF RunTypeOK
<1>1. /\ Present = {accepted.Q, accepted.R, accepted.T, accepted.U}
      /\ Attention = {} /\ \A i \in Present : ~Touched(i)
  BY Inventories, Matched
<1>2. /\ gate[accepted.Q] = "Q" /\ gate[accepted.R] = "R"
      /\ gate[accepted.T] = "T" /\ gate[accepted.U] = "U"
  BY <1>1, RunsNat DEF Present, Printed, Mutating
<1>3. p \notin Present
  BY <1>1, <1>2
<1>4. records[p] = "removed"
  BY <1>0, <1>3 DEF Changed, Present, RunTypeOK
<1>5. PICK g \in Mutating : p = accepted[g]
  BY <1>0, <1>4 DEF Changed, Touched, Approved
<1>6. accepted[g] # NoRun /\ g = "X"
  BY <1>0, <1>5, RunsNat DEF Printed
<1>7. Journaled(accepted.Q)
  BY <1>4, <1>5, <1>6, Ranks DEF Cleanup, Ordered, Mutating, Touched
<1> QED BY <1>1, <1>7 DEF Journaled, Cleanup, Journal1, Touched

\* A run that has acted keeps its script and its record.
LEMMA ActedKeeps ==
    ASSUME CampaignInvariant, CampaignStep, NEW p \in mutated
    PROVE  gate'[p] = gate[p] /\ p \in mutated'
<1> USE DEF CampaignInvariant, Ledger
<1>0. RunTypeOK /\ p \in Runs /\ Placed(p) /\ Changed(p)
  BY TypeParts DEF RunTypeOK
<1>1. CASE QualifyCanary \/ QualifyMove \/ \E d \in DOMAIN docs : OwnerEdit(d)
  BY <1>1 DEF QualifyCanary, QualifyMove, OwnerEdit
<1>2. ASSUME NEW r \in Runs, Tear(r) \/ Remove(r)
      PROVE  gate'[p] = gate[p] /\ p \in mutated'
  BY <1>2 DEF Tear, Remove
<1>3. ASSUME NEW r \in Runs, OwnStep(r), r # p
      PROVE  gate'[p] = gate[p] /\ p \in mutated'
  BY <1>0, <1>3, OwnLocal DEF OnlyRun, SamePlace
<1>4. CASE OwnStep(p)
  <2>1. pc[p] # "idle" /\ ~LeftNothing(p)
    BY <1>0 DEF Changed, LeftNothing
  <2> QED BY <1>0, <1>4, <2>1 DEF OwnStep, CanLaunch, Preview, Dispatch, Admit,
        Prepare, Change, Commit, Accept, Stop, PrepareAudit, Journal, Finalize,
        RunTypeOK
<1> QED BY <1>1, <1>2, <1>3, <1>4 DEF CampaignStep, RunStep, OwnStep

\* A step adds to the runs that acted only the one that changes a document.
LEMMA NewlyActed ==
    ASSUME CampaignStep, NEW p \in mutated', p \notin mutated
    PROVE  p \in Runs /\ Change(p)
  BY DEF CampaignStep, RunStep, QualifyCanary, QualifyMove, OwnerEdit,
     StartCleanup, Start, Preview, Dispatch, Admit, Prepare, Change, Commit,
     Accept, Stop, PrepareAudit, Tear, Remove, Journal, Finalize

LEMMA EditsGrow ==
    ASSUME CampaignInvariant, CampaignStep
    PROVE  edits \in Nat /\ edits' \in Nat /\ edits <= edits'
<1>1. edits \in Nat
  BY TypeParts DEF CampaignInvariant, RunTypeOK
<1>2. edits' = edits \/ edits' = edits + 1
  BY DEF CampaignStep, RunStep, QualifyCanary, QualifyMove, OwnerEdit,
     StartCleanup, Start, Preview, Dispatch, Admit, Prepare, Change, Commit,
     Accept, Stop, PrepareAudit, Tear, Remove, Journal, Finalize
<1> QED BY <1>1, <1>2

LEMMA OnceNext ==
    ASSUME CampaignInvariant, CampaignStep
    PROVE  EachGateOnce'
<1> USE DEF CampaignInvariant
<1>1. ASSUME NEW p \in mutated', NEW q \in mutated', gate'[p] = gate'[q],
             p # q
      PROVE  gate'[p] = "U" /\ edits' > 0
  <2>1. CASE p \in mutated /\ q \in mutated
    BY <1>1, <2>1, ActedKeeps, EditsGrow DEF Files, EachGateOnce
  <2>2. ASSUME NEW r \in mutated', NEW s \in mutated, r \notin mutated,
               gate'[r] = gate'[s]
        PROVE  gate'[r] = "U" /\ edits' > 0
    <3>1. r \in Runs /\ Change(r)
      BY <2>2, NewlyActed
    <3>2. gate' = gate /\ edits' = edits /\ pc[r] = "recorded" /\ Untouched(r)
      BY <3>1 DEF Change
    <3> QED BY <2>2, <3>1, <3>2, SpentStops DEF Pending
  <2>3. p \in mutated \/ q \in mutated
    <3>1. ASSUME p \notin mutated, q \notin mutated
          PROVE  FALSE
      <4>1. Change(p) /\ p \in Runs
        BY <3>1, NewlyActed
      <4> QED BY <1>1, <3>1, <4>1 DEF Change
    <3> QED BY <3>1
  <2> QED BY <1>1, <2>1, <2>2, <2>3
<1> QED BY <1>1 DEF EachGateOnce

\* What binds a waiting run does not move under it.
LEMMA BoundFrame ==
    ASSUME CampaignInvariant, Kept, NEW q \in Runs, gate'[q] = gate[q],
           plan'[q] = plan[q], pc'[q] \in Pending => pc[q] \in Pending
    PROVE  Bound(q)'
<1>1. Bound(q) /\ Follows(q)
  BY DEF CampaignInvariant, Files, Ledger
<1>2. gate[q] = "R" => accepted.Q # NoRun
  BY <1>1, Ranks DEF Follows, Mutating
<1> QED BY <1>1, <1>2 DEF Bound, Kept, Follows, Mutating

LEMMA BoundOwn ==
    ASSUME CampaignInvariant, Kept, NEW r \in Runs, OwnStep(r)
    PROVE  Bound(r)'
<1>0. RunTypeOK /\ Known(docs)
  BY TypeParts DEF CampaignInvariant, Files, Traced
<1>1. CASE Preview(r)
  <2>1. plan'[r] = docs /\ UNCHANGED <<gate, fixture, accepted>>
    BY <1>0, <1>1 DEF Preview, RunTypeOK
  <2>2. CASE gate[r] = "X"
    BY <1>0, <1>1, <2>1, <2>2 DEF Preview, Previewed, PreviewedX, ReadyX,
       Known, Gone, Bound
  <2>3. CASE gate[r] = "Q"
    BY <1>1, <2>1, <2>3 DEF Preview, Previewed, PreviewedQ, CanaryIsFixture,
       Bound
  <2>4. CASE gate[r] = "R"
    BY <1>1, <2>1, <2>4 DEF Preview, Previewed, PreviewedR, Bound
  <2>5. CASE gate[r] = "T"
    BY <1>1, <2>1, <2>5 DEF Preview, Previewed, PreviewedT, ReadyT, Bound
  <2>6. CASE gate[r] \notin {"Q", "R", "T", "X"}
    BY <2>1, <2>6 DEF Bound
  <2> QED BY <2>2, <2>3, <2>4, <2>5, <2>6
<1>2. CASE Dispatch(r) \/ Admit(r) \/ Prepare(r)
  <2>1. gate' = gate /\ plan' = plan /\ pc[r] \in Pending
    BY <1>2 DEF Dispatch, Admit, Prepare, Pending
  <2> QED BY <2>1, BoundFrame
<1>3. CASE ~(Preview(r) \/ Dispatch(r) \/ Admit(r) \/ Prepare(r))
  <2>1. pc'[r] \notin Pending
    BY <1>0, <1>3 DEF OwnStep, StartCleanup, Start, Change, Commit, Accept,
       Stop, PrepareAudit, Journal, Finalize, Goto, RunTypeOK, Pending
  <2> QED BY <2>1 DEF Bound
<1> QED BY <1>1, <1>2, <1>3

\* Spent after a step that leaves the documents alone.
LEMMA SpentFrame ==
    ASSUME CampaignInvariant, CampaignStep, Kept, NEW p \in mutated, docs' = docs
    PROVE  Spent(p)'
<1> USE DEF CampaignInvariant
<1>0. /\ RunTypeOK /\ p \in Runs /\ gate'[p] = gate[p] /\ Spent(p) /\ Follows(p)
      /\ edits \in Nat /\ edits' \in Nat /\ edits <= edits'
  BY TypeParts, ActedKeeps, EditsGrow DEF RunTypeOK, Files, Ledger
<1>1. gate[p] = "Q" => docs.canary.file # fixture'.canary
  BY <1>0 DEF Spent, Follows, Kept
<1>2. gate[p] = "R" => docs.canary.file # accepted'.Q
  BY <1>0, Ranks DEF Spent, Follows, Kept, Mutating
<1>3. gate[p] = "T" => docs.source.file # fixture'.source
  BY <1>0 DEF Spent, Follows, Kept
<1>4. gate[p] = "U" /\ edits' = 0 => docs.source # Gone
  BY <1>0 DEF Spent
<1>5. ASSUME gate[p] = "X", NEW q \in Runs, pc'[q] \in Pending,
             gate'[q] = "X"
      PROVE  docs.target.file # plan'[q].target.file
  <2>1. CASE pc[q] \in Pending /\ gate[q] = "X" /\ plan'[q] = plan[q]
    BY <1>0, <1>5, <2>1 DEF Spent
  <2>2. CASE Preview(q)
    <3>1. Matches(FrozenX)
      BY <1>5, <2>2 DEF Preview, Previewed, PreviewedX, ReadyX
    <3> QED BY <1>5, <3>1, NoSecondX
  <2>3. ASSUME NEW r \in Runs, OwnStep(r), r # q
        PROVE  pc[q] \in Pending /\ gate[q] = "X" /\ plan'[q] = plan[q]
    BY <1>0, <1>5, <2>3, OwnLocal DEF OnlyRun, SamePlace
  <2>4. ASSUME NEW r \in Runs, Tear(r) \/ Remove(r)
        PROVE  pc[q] \in Pending /\ gate[q] = "X" /\ plan'[q] = plan[q]
    <3>1. pc'[q] = pc[q]
      BY <1>0, <1>5, <2>4 DEF Tear, Remove, Goto, Pending, RunTypeOK
    <3> QED BY <1>5, <2>4, <3>1 DEF Tear, Remove
  <2>5. CASE QualifyCanary \/ QualifyMove \/ \E d \in DOMAIN docs : OwnerEdit(d)
    BY <1>5, <2>1, <2>5 DEF QualifyCanary, QualifyMove, OwnerEdit
  <2>6. CASE Dispatch(q) \/ Admit(q) \/ Prepare(q)
    BY <1>5, <2>1, <2>6 DEF Dispatch, Admit, Prepare, Pending
  <2>7. CASE OwnStep(q) /\ ~(Preview(q) \/ Dispatch(q) \/ Admit(q) \/ Prepare(q))
    BY <1>0, <1>5, <2>7 DEF OwnStep, StartCleanup, Start, Change, Commit,
       Accept, Stop, PrepareAudit, Journal, Finalize, Goto, RunTypeOK, Pending
  <2> QED BY <2>1, <2>2, <2>3, <2>4, <2>5, <2>6, <2>7
          DEF CampaignStep, RunStep, OwnStep
<1> QED BY <1>0, <1>1, <1>2, <1>3, <1>4, <1>5 DEF Spent

\* A write leaves no document in a spent file: not those of other gates
\* before it, and not the one it was itself approved for.
LEMMA SpentChange ==
    ASSUME CampaignInvariant, Kept, NEW r \in Runs, Change(r),
           NEW p \in mutated \cup {r}
    PROVE  Spent(p)'
<1> USE DEF CampaignInvariant
<1>0. /\ RunTypeOK /\ r \notin mutated /\ p \in Runs /\ edits \in Nat
      /\ gate[r] \in Mutating /\ pc[r] = "recorded" /\ Untouched(r)
      /\ docs' = Effect(r) /\ gate' = gate /\ edits' = edits /\ plan' = plan
      /\ fixture' = fixture /\ accepted' = accepted
      /\ pc' = [pc EXCEPT ![r] = "changed"]
  BY TypeParts DEF Change, Goto, Ledger, Placed, Changed, Pending, RunTypeOK
<1>1. /\ r # fixture.canary /\ r # fixture.source /\ r # NoFile
      /\ \A q \in Runs : plan[q].target.file # r
      /\ r # accepted.Q
  <2>1. ~Used(r)
    BY <1>0, UsedConstants DEF RunTypeOK
  <2>2. /\ Used(fixture.canary) /\ Used(fixture.source)
        /\ \A q \in Runs : Used(plan[q].target.file)
    BY DEF Files, Traced, Known
  <2>3. r # accepted.Q
    BY <1>0, RunsNat DEF Ledger, Printed, Mutating
  <2> QED BY <2>1, <2>2, <2>3, RunsNat
<1>2. /\ Follows(p)
      /\ p \in mutated => Spent(p)
      /\ \A q \in Runs : Bound(q)
  BY <1>0 DEF Files, Ledger
<1>3. ASSUME NEW q \in Runs, pc'[q] \in Pending, gate[q] = "X"
      PROVE  /\ plan[q].target.file # NoFile /\ plan[q].target.file # r
             /\ p \in mutated /\ gate[p] = "X" =>
                    docs.target.file # plan[q].target.file
  <2>1. pc[q] \in Pending
    BY <1>0, <1>3 DEF Pending, RunTypeOK
  <2> QED BY <1>1, <1>2, <1>3, <2>1 DEF Bound, Spent
<1>4. CASE gate[r] \in {"Q", "R"}
  <2>1. /\ \/ docs'.canary = [bytes |-> "after", file |-> r]
           \/ docs'.canary = [bytes |-> "before", file |-> r]
        /\ docs'.source = docs.source /\ docs'.target = docs.target
    BY <1>0, <1>4, Effects
  <2>2. docs'.canary.file = r
    BY <2>1
  <2> QED BY <1>0, <1>1, <1>2, <1>3, <1>4, <2>1, <2>2 DEF Spent
<1>5. CASE gate[r] = "T"
  <2>1. /\ docs'.target = [bytes |-> "frozen", file |-> r]
        /\ docs'.canary = docs.canary /\ docs'.source = Gone
    BY <1>0, <1>5, Effects
  <2>2. docs'.target.file = r /\ docs'.source.file = NoFile
    BY <2>1 DEF Gone
  <2>3. p = r \/ gate[p] \notin {"T", "U"}
    <3>1. ASSUME p \in mutated, gate[p] \in {"T", "U"}
          PROVE  FALSE
      <4>1. gate[p] = gate[r] \/ Before(gate[r], gate[p])
        BY <1>5, <3>1 DEF Before, Rank
      <4> QED BY <1>0, <1>5, <3>1, <4>1, SpentStops DEF Pending
    <3> QED BY <3>1
  <2>4. gate[p] = "T" => fixture.source # NoFile
    BY <1>2 DEF Follows
  <2> QED BY <1>0, <1>1, <1>2, <1>3, <1>5, <2>1, <2>2, <2>3, <2>4 DEF Spent
<1>6. CASE gate[r] = "U"
  <2>1. /\ docs'.source = [bytes |-> "frozen", file |-> r]
        /\ docs'.canary = docs.canary /\ docs'.target = docs.target
    BY <1>0, <1>6, Effects
  <2>2. docs'.source.file = r /\ docs'.source # Gone
    BY <2>1 DEF Gone
  <2> QED BY <1>0, <1>1, <1>2, <1>3, <1>6, <2>1, <2>2 DEF Spent
<1>7. CASE gate[r] = "X"
  <2>1. /\ docs'.target = Gone
        /\ docs'.canary = docs.canary /\ docs'.source = docs.source
    BY <1>0, <1>7, Effects
  <2>2. docs'.target.file = NoFile
    BY <2>1 DEF Gone
  <2> QED BY <1>0, <1>1, <1>2, <1>3, <1>7, <2>1, <2>2 DEF Spent
<1> QED BY <1>0, <1>4, <1>5, <1>6, <1>7 DEF Mutating

\* What the owner creates is in a file no script was approved for.
LEMMA SpentEdit ==
    ASSUME CampaignInvariant, NEW d \in DOMAIN docs, OwnerEdit(d),
           NEW p \in mutated
    PROVE  Spent(p)'
<1> USE DEF CampaignInvariant
<1>0. /\ RunTypeOK /\ p \in Runs /\ edits \in Nat /\ edits' = edits + 1
      /\ UNCHANGED <<fixture, accepted, gate, pc, plan>>
  BY TypeParts DEF OwnerEdit, RunTypeOK
<1>1. /\ Spent(p) /\ Follows(p) /\ \A q \in Runs : Bound(q)
  BY <1>0 DEF Files, Ledger
<1>2. /\ OwnerFile # fixture.canary /\ OwnerFile # fixture.source
      /\ OwnerFile # accepted.Q
      /\ \A q \in Runs : OwnerFile # plan[q].target.file
  <2>1. ~Used(OwnerFile)
    BY <1>0, UsedConstants DEF RunTypeOK
  <2>2. /\ Used(fixture.canary) /\ Used(fixture.source)
        /\ \A q \in Runs : Used(plan[q].target.file)
    BY DEF Files, Traced, Known
  <2>3. OwnerFile # accepted.Q
    BY <1>0, BoundAssumption
       DEF RunTypeOK, Mutating, Runs, NoRun, OwnerFile, NoFile
  <2> QED BY <2>1, <2>2, <2>3
<1>3. \A c \in {"canary", "source", "target"} :
          \/ docs'[c] = docs[c] \/ docs'[c] = Gone
          \/ docs'[c].file \in {docs[c].file, OwnerFile}
  BY <1>0, Edited
<1>4. \A c \in {"canary", "source", "target"} :
          docs'[c].file \in {docs[c].file, OwnerFile, NoFile}
  BY <1>3 DEF Gone
<1>5. accepted.Q # NoFile
  BY <1>0, BoundAssumption DEF RunTypeOK, Mutating, Runs, NoRun, NoFile
<1>6. gate[p] = "Q" => docs'.canary.file # fixture.canary
  BY <1>1, <1>2, <1>4 DEF Spent, Follows
<1>7. gate[p] = "R" => docs'.canary.file # accepted.Q
  BY <1>1, <1>2, <1>4, <1>5 DEF Spent, Follows
<1>8. gate[p] = "T" => docs'.source.file # fixture.source
  BY <1>1, <1>2, <1>4 DEF Spent, Follows
<1>9. ASSUME gate[p] = "X", NEW q \in Runs, pc[q] \in Pending, gate[q] = "X"
      PROVE  docs'.target.file # plan[q].target.file
  BY <1>1, <1>2, <1>4, <1>9 DEF Spent, Bound
<1> QED BY <1>0, <1>6, <1>7, <1>8, <1>9 DEF Spent

-----------------------------------------------------------------------------
(* The cleanup.                                                            *)

\* A run with a record keeps its script.
LEMMA RecordedKeeps ==
    ASSUME CampaignInvariant, CampaignStep, NEW q \in Runs, records[q] # "none"
    PROVE  gate'[q] = gate[q]
<1> USE DEF CampaignInvariant, Ledger
<1>0. RunTypeOK /\ Placed(q) /\ Changed(q)
  BY TypeParts DEF RunTypeOK
<1>1. CASE QualifyCanary \/ QualifyMove \/ \E d \in DOMAIN docs : OwnerEdit(d)
  BY <1>1 DEF QualifyCanary, QualifyMove, OwnerEdit
<1>2. ASSUME NEW r \in Runs, Tear(r) \/ Remove(r)
      PROVE  gate'[q] = gate[q]
  BY <1>2 DEF Tear, Remove
<1>3. ASSUME NEW r \in Runs, OwnStep(r), r # q
      PROVE  gate'[q] = gate[q]
  BY <1>0, <1>3, OwnLocal DEF OnlyRun, SamePlace
<1>4. CASE OwnStep(q)
  <2>1. pc[q] # "idle" /\ ~LeftNothing(q)
    BY <1>0 DEF Placed, LeftNothing
  <2> QED BY <1>0, <1>4, <2>1 DEF OwnStep, CanLaunch, Preview, Dispatch, Admit,
        Prepare, Change, Commit, Accept, Stop, PrepareAudit, Journal, Finalize,
        RunTypeOK
<1> QED BY <1>1, <1>2, <1>3, <1>4 DEF CampaignStep, RunStep, OwnStep

\* Which records a step writes.
LEMMA RecordSteps ==
    ASSUME CampaignInvariant, CampaignStep
    PROVE  \/ records' = records
           \/ \E r \in Runs : /\ Prepare(r) /\ pc[r] = "admitted"
                              /\ records[r] = "none"
                              /\ records' = [records EXCEPT ![r] = "open"]
           \/ \E r \in Runs : /\ Commit(r) /\ pc[r] = "changed"
                              /\ records[r] = "open"
                              /\ records' = [records EXCEPT ![r] = "committed"]
           \/ \E r \in Runs, g \in Mutating :
                  (Tear(r) \/ Remove(r)) /\ TakesAway(r, g)
<1>1. CASE QualifyCanary \/ QualifyMove \/ \E d \in DOMAIN docs : OwnerEdit(d)
  BY <1>1 DEF QualifyCanary, QualifyMove, OwnerEdit
<1>2. ASSUME NEW r \in Runs, Tear(r) \/ Remove(r)
      PROVE  \E g \in Mutating : TakesAway(r, g)
  BY <1>2, TearOrRemove
<1>3. ASSUME NEW r \in Runs, Prepare(r)
      PROVE  /\ pc[r] = "admitted" /\ records[r] = "none"
             /\ records' = [records EXCEPT ![r] = "open"]
  BY <1>3 DEF Prepare, CampaignInvariant, Ledger, Placed
<1>4. ASSUME NEW r \in Runs, Commit(r)
      PROVE  /\ pc[r] = "changed" /\ records[r] = "open"
             /\ records' = [records EXCEPT ![r] = "committed"]
  BY <1>4 DEF Commit, CampaignInvariant, Ledger, Placed
<1>5. ASSUME NEW r \in Runs, OwnStep(r), ~Prepare(r), ~Commit(r)
      PROVE  records' = records
  BY <1>5 DEF OwnStep, StartCleanup, Start, Preview, Dispatch, Admit,
     Change, Accept, Stop, PrepareAudit, Journal, Finalize
<1> QED BY <1>1, <1>2, <1>3, <1>4, <1>5 DEF CampaignStep, RunStep, OwnStep

\* A directory that was taken away does not come back.
LEMMA TouchedStays ==
    ASSUME CampaignInvariant, CampaignStep, NEW q \in Approved, q \in Runs
    PROVE  /\ records[q] = "removed" => records'[q] = "removed"
           /\ Touched(q) => Touched(q)'
<1>0. RunTypeOK /\ pc[q] = "passed"
  BY TypeParts, RunsNat DEF CampaignInvariant, Ledger, Printed, Approved
<1>1. ASSUME NEW r \in Runs, NEW g \in Mutating, TakesAway(r, g)
      PROVE  /\ records[q] = "removed" => records'[q] = "removed"
             /\ Touched(q) => Touched(q)'
  BY <1>0, <1>1 DEF TakesAway, Touched, RunTypeOK, Present
<1>2. ASSUME NEW r \in Runs, pc[r] # "passed",
             \E s : records' = [records EXCEPT ![r] = s]
      PROVE  records'[q] = records[q]
  BY <1>0, <1>2 DEF RunTypeOK
<1> QED BY <1>1, <1>2, RecordSteps DEF Touched

\* Only Prepare adds a record to the inventory.
LEMMA PresentNew ==
    ASSUME CampaignInvariant, CampaignStep, NEW q \in Present', q \notin Present
    PROVE  Prepare(q) /\ q \in Runs /\ pc[q] = "admitted"
<1>0. RunTypeOK /\ q \in Runs
  BY TypeParts DEF CampaignInvariant, Present
<1>1. ASSUME NEW r \in Runs, NEW g \in Mutating, TakesAway(r, g)
      PROVE  FALSE
  BY <1>0, <1>1 DEF TakesAway, RunTypeOK, Present
<1>2. ASSUME NEW r \in Runs, records[r] = "open",
             records' = [records EXCEPT ![r] = "committed"]
      PROVE  FALSE
  BY <1>0, <1>2 DEF RunTypeOK, Present
<1>3. records' # records
  BY <1>0 DEF Present
<1>4. PICK r \in Runs : /\ Prepare(r) /\ pc[r] = "admitted"
                        /\ records' = [records EXCEPT ![r] = "open"]
  BY <1>1, <1>2, <1>3, RecordSteps
<1>5. q = r
  BY <1>0, <1>4 DEF RunTypeOK, Present
<1> QED BY <1>4, <1>5

\* An audit a step leaves alone stays as Cleanup says.
LEMMA JournalFrame ==
    ASSUME CampaignInvariant, CampaignStep, Kept, RunTypeOK', NEW a \in Runs,
           audits'[a] = audits[a],
           pc'[a] = pc[a] \/ pc'[a] \notin {"tearing", "removed"}
    PROVE  Journal1(a)'
<1> USE DEF CampaignInvariant, Cleanup
<1>0. Journal1(a) /\ Placed(a)
  BY DEF Ledger
<1>1. CASE audits[a].status = "none"
  <2>1. audits[a] = NoAudit
    BY <1>0, <1>1 DEF Journal1
  <2>2. pc'[a] \notin {"tearing", "removed"}
    BY <1>0, <1>1 DEF Placed
  <2> QED BY <2>1, <2>2 DEF Journal1, NoAudit
<1>2. CASE audits[a].status # "none"
  <2>1. /\ accepted' = accepted /\ Approved' = Approved /\ Approved \subseteq Runs
    BY <1>2, KeptIds DEF Audited, RunTypeOK
  <2>2. \A q \in Approved : /\ records[q] = "removed" => records'[q] = "removed"
                            /\ Touched(q) => Touched(q)'
    BY <2>1, TouchedStays
  <2>3. \A g \in Mutating : /\ accepted[g] \in Approved
                            /\ IsNext(a, g)' <=> IsNext(a, g)
    BY <2>1 DEF Approved, IsNext, Before
  <2>4. \A j \in audits'[a].removed : records'[j] = "removed"
    BY <1>0, <2>2 DEF Journal1
  <2>5. ASSUME pc'[a] \in {"tearing", "removed"}
        PROVE  /\ \E g \in Mutating : IsNext(a, g)'
               /\ \A g \in Mutating : IsNext(a, g)' =>
                      /\ Touched(accepted[g])'
                      /\ pc'[a] = "removed" => records'[accepted[g]] = "removed"
    <3>1. pc'[a] = pc[a]
      BY <2>5
    <3>2. PICK g \in Mutating : IsNext(a, g)
      BY <1>0, <2>5, <3>1 DEF Journal1
    <3>3. \E h \in Mutating : IsNext(a, h)'
      BY <2>3, <3>2
    <3>4. ASSUME NEW h \in Mutating, IsNext(a, h)'
          PROVE  /\ Touched(accepted[h])'
                 /\ pc'[a] = "removed" => records'[accepted[h]] = "removed"
      <4>1. IsNext(a, h) /\ accepted[h] \in Approved
        BY <2>3, <3>4
      <4>2. /\ Touched(accepted[h])
            /\ pc[a] = "removed" => records[accepted[h]] = "removed"
        BY <1>0, <2>5, <3>1, <4>1 DEF Journal1
      <4>3. Touched(accepted[h])'
        BY <2>1, <2>2, <4>1, <4>2 DEF Touched
      <4> QED BY <2>2, <3>1, <4>1, <4>2, <4>3
    <3> QED BY <3>3, <3>4
  <2> QED BY <1>0, <1>2, <2>1, <2>4, <2>5 DEF Journal1, Before, Touched
<1> QED BY <1>1, <1>2

LEMMA JournalTake ==
    ASSUME CampaignInvariant, RunTypeOK', NEW r \in Runs, NEW g \in Mutating,
           TakesAway(r, g)
    PROVE  Journal1(r)'
<1> USE DEF CampaignInvariant, Cleanup, TakesAway
<1>0. Journal1(r) /\ RunTypeOK
  BY TypeParts
<1>1. /\ \A h \in Mutating : IsNext(r, h)' <=> IsNext(r, h)
      /\ Approved' = Approved
  BY DEF IsNext, Before, Approved
<1>2. \A j \in audits[r].removed : records'[j] = "removed"
  BY <1>0 DEF Journal1, IsNext, RunTypeOK, Audit
<1>3. \A h \in Mutating : IsNext(r, h) => h = g
  BY NextUnique
<1>4. /\ records'[accepted[g]] \in {"torn", "removed"}
      /\ pc'[r] = "removed" => records'[accepted[g]] = "removed"
  BY <1>0 DEF RunTypeOK
<1> QED BY <1>0, <1>1, <1>2, <1>3, <1>4 DEF Journal1, Touched, Before

\* The three steps that write an audit.
LEMMA JournalOwn ==
    ASSUME CampaignInvariant, NEW r \in Runs,
           PrepareAudit(r) \/ Journal(r) \/ Finalize(r)
    PROVE  Journal1(r)'
<1> USE DEF CampaignInvariant, Cleanup
<1>0. Journal1(r) /\ Placed(r) /\ Follows(r) /\ RunTypeOK /\ audits[r] \in Audit
  BY TypeParts DEF Ledger, RunTypeOK
<1>1. UNCHANGED <<accepted, records>> /\ Approved' = Approved
  BY DEF PrepareAudit, Journal, Finalize, Approved
<1>2. CASE PrepareAudit(r)
  <2>1. /\ audits'[r] = [status |-> "prepared", listed |-> Present,
                         removed |-> audits[r].removed]
        /\ pc'[r] = "pruning" /\ Present = Approved
    BY <1>0, <1>2, Inventories DEF PrepareAudit, Goto, RunTypeOK, Audit
  <2>2. audits[r] = NoAudit
    BY <1>0, <1>2 DEF PrepareAudit, Placed
  <2> QED BY <1>1, <2>1, <2>2 DEF Journal1, NoAudit
<1>3. CASE Journal(r)
  <2>1. PICK g \in Mutating : IsNext(r, g) /\ records[accepted[g]] = "removed"
    BY <1>0, <1>3 DEF Journal, Journal1
  <2>2. NextId(r) = accepted[g] /\ audits[r].status = "prepared"
    BY <1>0, <1>3, <2>1, NextIs DEF Journal, Placed
  <2>3. /\ audits'[r].removed = audits[r].removed \cup {accepted[g]}
        /\ audits'[r].status = "prepared"
        /\ audits'[r].listed = audits[r].listed
        /\ pc'[r] = "pruning"
    BY <1>0, <1>3, <2>2 DEF Journal, Goto, RunTypeOK, Audit
  <2>4. accepted[g] \in Approved
    BY DEF Approved
  <2>5. \A h \in Mutating : accepted[h] = accepted[g] => h = g
    BY <1>0, <2>2 DEF Follows, Ledger, Printed
  <2>6. \A k, h \in Mutating : Before(h, k) /\ accepted[k] \in audits'[r].removed
                                  => accepted[h] \in audits'[r].removed
    BY <1>0, <2>1, <2>3, <2>5 DEF Journal1, IsNext
  <2> QED BY <1>0, <1>1, <2>1, <2>2, <2>3, <2>4, <2>6 DEF Journal1, Before
<1>4. CASE Finalize(r)
  <2>1. /\ audits'[r].removed = audits[r].removed
        /\ audits'[r].status = "committed" /\ audits[r].status = "prepared"
        /\ audits'[r].listed = audits[r].listed
        /\ pc'[r] = "passed" /\ audits[r].removed = Approved
    BY <1>0, <1>4 DEF Finalize, Goto, RunTypeOK, Audit, Placed
  <2> QED BY <1>0, <1>1, <2>1 DEF Journal1, Before
<1> QED BY <1>2, <1>3, <1>4

\* Journals only grow.
LEMMA JournalGrows ==
    ASSUME CampaignInvariant, CampaignStep, NEW j, Journaled(j)
    PROVE  Journaled(j)'
<1>0. RunTypeOK
  BY TypeParts DEF CampaignInvariant
<1>1. PICK a \in Runs : j \in audits[a].removed
  BY DEF Journaled
<1>2. CASE audits' = audits
  BY <1>1, <1>2 DEF Journaled
<1>3. ASSUME NEW r \in Runs, PrepareAudit(r) \/ Journal(r) \/ Finalize(r)
      PROVE  Journaled(j)'
  <2>1. audits[r] \in Audit
    BY <1>0 DEF RunTypeOK
  <2>2. audits[a].removed \subseteq audits'[a].removed
    <3>1. CASE PrepareAudit(r)
      BY <1>0, <2>1, <3>1 DEF PrepareAudit, RunTypeOK, Audit
    <3>2. CASE Journal(r)
      BY <1>0, <2>1, <3>2 DEF Journal, RunTypeOK, Audit
    <3>3. CASE Finalize(r)
      BY <1>0, <2>1, <3>3 DEF Finalize, RunTypeOK, Audit
    <3> QED BY <1>3, <3>1, <3>2, <3>3
  <2> QED BY <1>1, <2>2 DEF Journaled
<1> QED BY <1>2, <1>3 DEF CampaignStep, RunStep, QualifyCanary, QualifyMove,
      OwnerEdit, StartCleanup, Start, Preview, Dispatch, Admit, Prepare, Change,
      Commit, Accept, Stop, Tear, Remove

LEMMA OrderedNext ==
    ASSUME CampaignInvariant, CampaignStep, Kept, RunTypeOK'
    PROVE  Ordered'
<1> USE DEF CampaignInvariant
<1>0. RunTypeOK /\ accepted' \in [Mutating -> Runs \cup {NoRun}]
  BY TypeParts DEF RunTypeOK
<1>1. SUFFICES ASSUME NEW g \in Mutating, NEW h \in Mutating, Before(h, g),
                      NEW x, NEW y, x = accepted'[g], y = accepted'[h],
                      x # NoRun, records'[x] \in {"torn", "removed"}
               PROVE  Journaled(y)'
  BY DEF Ordered, Before, Touched, Journaled
<1>2. x \in Runs
  BY <1>0, <1>1
<1>3. CASE Touched(x)
  <2>1. Audited
    BY <1>2, <1>3 DEF Ledger, Changed
  <2>2. accepted' = accepted
    BY <1>0, <2>1, KeptIds
  <2>3. Journaled(y)
    BY <1>1, <1>3, <2>2 DEF Cleanup, Ordered
  <2> QED BY <2>3, JournalGrows
<1>4. CASE ~Touched(x)
  <2>1. PICK r \in Runs, k \in Mutating : TakesAway(r, k)
    <3>1. ASSUME NEW r \in Runs, NEW s \in {"open", "committed"},
                 records' = [records EXCEPT ![r] = s]
          PROVE  FALSE
      BY <1>0, <1>1, <1>2, <1>4, <3>1 DEF Touched, RunTypeOK
    <3> QED BY <1>1, <1>4, <3>1, RecordSteps DEF Touched
  <2>2. x = accepted[k] /\ accepted' = accepted
    BY <1>0, <1>1, <1>2, <1>4, <2>1 DEF TakesAway, Touched, RunTypeOK
  <2>3. g = k
    <3>1. x = accepted[g] /\ x = accepted[k] /\ x # NoRun
      BY <1>1, <2>2
    <3>2. Printed(g) /\ Printed(k)
      BY DEF Ledger
    <3> QED BY <3>1, <3>2 DEF Printed
  <2>4. y \in audits[r].removed
    BY <1>1, <2>1, <2>2, <2>3 DEF TakesAway, IsNext
  <2> QED BY <2>4, JournalGrows DEF Journaled
<1> QED BY <1>3, <1>4

\* A run that would write a record into the closed root is a U the owner made
\* room for.
LEMMA OnlyU ==
    ASSUME CampaignInvariant, Closed, NEW q \in Runs, pc[q] \in Pending,
           Untouched(q)
    PROVE  gate[q] = "U" /\ edits > 0
<1> USE DEF CampaignInvariant, Ledger
<1>1. \A g \in Mutating : accepted[g] # NoRun
  BY DEF Closed, Follows
<1>2. gate[q] \in Mutating
  BY DEF Placed
<1>3. accepted[gate[q]] \in mutated /\ gate[accepted[gate[q]]] = gate[q]
  BY <1>1, <1>2 DEF Printed
<1> QED BY <1>3, SpentStops

LEMMA ShutNext ==
    ASSUME CampaignInvariant, CampaignStep
    PROVE  Shut'
<1> USE DEF CampaignInvariant
<1>0. RunTypeOK /\ edits \in Nat /\ edits' \in Nat /\ edits <= edits'
  BY TypeParts, EditsGrow
<1>1. CASE Closed
  <2>1. ASSUME NEW q \in Present', q \in Present
        PROVE  gate'[q] = "U" /\ edits' > 0
    <3>1. q \in Runs /\ records[q] # "none"
      BY <2>1 DEF Present
    <3>2. gate[q] = "U" /\ edits > 0
      BY <1>1, <2>1 DEF Cleanup, Shut
    <3> QED BY <1>0, <3>1, <3>2, RecordedKeeps
  <2>2. ASSUME NEW q \in Present', q \notin Present
        PROVE  gate'[q] = "U" /\ edits' > 0
    <3>1. Prepare(q) /\ q \in Runs /\ pc[q] = "admitted"
      BY <2>2, PresentNew
    <3>2. Untouched(q) /\ gate' = gate /\ edits' = edits
      BY <3>1 DEF Prepare
    <3> QED BY <1>1, <3>1, <3>2, OnlyU DEF Pending
  <2> QED BY <2>1, <2>2 DEF Shut
<1>2. ASSUME ~Closed, Closed'
      PROVE  Present' = {}
  <2>1. PICK a \in Runs : audits'[a].status = "committed"
    BY <1>2 DEF Closed
  <2>2. audits' # audits
    BY <1>2, <2>1 DEF Closed
  <2>3. PICK r \in Runs : PrepareAudit(r) \/ Journal(r) \/ Finalize(r)
    BY <2>2 DEF CampaignStep, RunStep, QualifyCanary, QualifyMove,
      OwnerEdit, StartCleanup, Start, Preview, Dispatch, Admit, Prepare, Change,
      Commit, Accept, Stop, Tear, Remove
  <2>4. audits[r] \in Audit /\ audits[a].status # "committed"
    BY <1>0, <1>2 DEF RunTypeOK, Closed
  <2>5. CASE PrepareAudit(r)
    BY <1>0, <2>1, <2>4, <2>5 DEF PrepareAudit, RunTypeOK, Audit
  <2>6. CASE Journal(r)
    BY <1>0, <2>1, <2>4, <2>6 DEF Journal, RunTypeOK, Audit
  <2>7. CASE Finalize(r)
    BY <2>7 DEF Finalize, Present
  <2> QED BY <2>3, <2>5, <2>6, <2>7
<1> QED BY <1>1, <1>2 DEF Shut

-----------------------------------------------------------------------------
(* The invariant.                                                          *)

LEMMA CampaignOwn ==
    ASSUME CampaignInvariant, CampaignStep, NEW r \in Runs, OwnStep(r)
    PROVE  CampaignInvariant'
<1>0. RunTypeOK /\ Kept /\ OnlyRun(r) /\ edits \in Nat /\ edits' \in Nat
      /\ edits <= edits' /\ SetupTypeOK /\ Bracketed
  BY TypeParts, StepKept, OwnLocal, EditsGrow DEF CampaignInvariant
<1>1. RunTypeOK'
  <2>1. pc[r] \in Pending \cup {"changed", "applied"} => gate[r] \in Mutating
    BY DEF CampaignInvariant, Ledger, Placed
  <2>2. ASSUME pc[r] = "removed"
        PROVE  NextId(r) \in Runs
    <3>1. PICK g \in Mutating : IsNext(r, g)
      BY <2>2 DEF CampaignInvariant, Cleanup, Journal1
    <3>2. audits[r].status = "prepared"
      BY <2>2 DEF CampaignInvariant, Ledger, Placed
    <3>3. accepted[g] \in Runs
      BY <1>0, <3>2 DEF CampaignInvariant, Ledger, Follows, RunTypeOK
    <3> QED BY <3>1, <3>3, NextIs
  <2> QED BY <1>0, <2>1, <2>2, OwnType
<1>2. Bracketed' /\ SetupTypeOK'
  BY <1>0, OwnBracket DEF CampaignStep, setupVars, SetupTypeOK
<1>3. Ledger'
  BY <1>0, <1>1, LedgerOwnStep
<1>4. mutated \subseteq mutated' /\ mutated \subseteq Runs
  BY <1>0, ActedKeeps DEF RunTypeOK
<1>5. Traced'
  <2>1. Traced /\ fixture' = fixture
    BY <1>0 DEF CampaignInvariant, Files, OnlyRun
  <2>2. Known(docs)'
    <3>1. CASE Change(r)
      BY <3>1, KnownChange
    <3>2. CASE docs' = docs
      BY <1>0, <1>4, <2>1, <3>2, KnownSame
    <3> QED BY <3>1, <3>2 DEF OwnStep, StartCleanup, Start, Preview, Dispatch,
          Admit, Prepare, Commit, Accept, Stop, PrepareAudit, Journal, Finalize
  <2>3. \A q \in Runs \ {r} : plan'[q] = plan[q]
    BY <1>0 DEF OnlyRun, SamePlace
  <2>4. plan'[r] = plan[r] \/ plan'[r] = docs \/ plan'[r] = NoPlan
    BY <1>0 DEF OwnStep, StartCleanup, Start, Preview, Dispatch, Change,
          Admit, Prepare, Commit, Accept, Stop, PrepareAudit, Journal, Finalize,
          RunTypeOK
  <2> QED BY <1>0, <1>4, <2>1, <2>2, <2>3, <2>4, TracedFrame
<1>6. ASSUME NEW q \in Runs
      PROVE  Bound(q)'
  <2>1. CASE q = r
    BY <1>0, <2>1, BoundOwn
  <2>2. CASE q # r
    BY <1>0, <2>2, BoundFrame DEF OnlyRun, SamePlace
  <2> QED BY <2>1, <2>2
<1>7. ASSUME NEW p \in mutated'
      PROVE  Spent(p)'
  <2>1. CASE Change(r)
    <3>1. mutated' = mutated \cup {r}
      BY <2>1 DEF Change
    <3> QED BY <1>0, <1>7, <2>1, <3>1, SpentChange
  <2>2. CASE ~Change(r)
    <3>1. docs' = docs /\ mutated' = mutated
      BY <2>2 DEF OwnStep, StartCleanup, Start, Preview, Dispatch,
          Admit, Prepare, Commit, Accept, Stop, PrepareAudit, Journal, Finalize
    <3> QED BY <1>0, <1>7, <3>1, SpentFrame
  <2> QED BY <2>1, <2>2
<1>8. ASSUME NEW a \in Runs
      PROVE  Journal1(a)'
  <2>1. CASE PrepareAudit(r) \/ Journal(r) \/ Finalize(r)
    <3>1. CASE a = r
      BY <2>1, <3>1, JournalOwn
    <3>2. CASE a # r
      BY <1>0, <1>1, <3>2, JournalFrame DEF OnlyRun, SamePlace
    <3> QED BY <3>1, <3>2
  <2>2. CASE ~(PrepareAudit(r) \/ Journal(r) \/ Finalize(r))
    <3>1. audits' = audits
      BY <2>2 DEF OwnStep, StartCleanup, Start, Preview, Dispatch, Change,
          Admit, Prepare, Commit, Accept, Stop
    <3>2. pc'[r] \notin {"tearing", "removed"}
      BY <1>0, <2>2 DEF OwnStep, StartCleanup, Start, Preview, Dispatch, Change,
          Admit, Prepare, Commit, Accept, Stop, Goto, RunTypeOK
    <3>3. pc'[a] = pc[a] \/ pc'[a] \notin {"tearing", "removed"}
      BY <1>0, <3>2 DEF OnlyRun, SamePlace
    <3> QED BY <1>0, <1>1, <3>1, <3>3, JournalFrame
  <2> QED BY <2>1, <2>2
<1>9. Ordered' /\ Shut' /\ EachGateOnce'
  BY <1>0, <1>1, OrderedNext, ShutNext, OnceNext
<1>10. CampaignTypeOK'
  BY <1>1, <1>2, TypeParts, PTL
<1> QED BY <1>3, <1>5, <1>6, <1>7, <1>8, <1>9, <1>10
        DEF CampaignInvariant, Files, Cleanup

LEMMA CampaignTake ==
    ASSUME CampaignInvariant, CampaignStep, NEW r \in Runs, Tear(r) \/ Remove(r)
    PROVE  CampaignInvariant'
<1>0. RunTypeOK /\ Kept /\ edits \in Nat /\ edits' \in Nat
      /\ edits <= edits' /\ SetupTypeOK /\ Bracketed
  BY TypeParts, StepKept, EditsGrow DEF CampaignInvariant
<1>1. PICK g \in Mutating : TakesAway(r, g)
  BY TearOrRemove
<1>2. RunTypeOK' /\ Bracketed' /\ SetupTypeOK'
  BY <1>0, <1>1, TakeType DEF CampaignStep, setupVars, SetupTypeOK
<1>3. Ledger'
  BY <1>0, <1>1, <1>2, LedgerTake
<1>4. /\ UNCHANGED <<docs, fixture, plan, gate, audits, mutated, edits>>
      /\ mutated \subseteq Runs
      /\ \A q \in Runs \ {r} : pc'[q] = pc[q]
      /\ pc'[r] \notin Pending
  BY <1>0, <1>1 DEF TakesAway, Pending, RunTypeOK
<1>5. Traced'
  <2>1. Traced
    BY DEF CampaignInvariant, Files
  <2>2. Known(docs)'
    BY <1>0, <1>4, <2>1, KnownSame
  <2> QED BY <1>0, <1>4, <2>1, <2>2, TracedFrame
<1>6. ASSUME NEW q \in Runs
      PROVE  Bound(q)'
  BY <1>0, <1>4, BoundFrame
<1>7. ASSUME NEW p \in mutated'
      PROVE  Spent(p)'
  BY <1>0, <1>4, SpentFrame
<1>8. ASSUME NEW a \in Runs
      PROVE  Journal1(a)'
  <2>1. CASE a = r
    BY <1>1, <1>2, <2>1, JournalTake
  <2>2. CASE a # r
    BY <1>0, <1>2, <1>4, <2>2, JournalFrame
  <2> QED BY <2>1, <2>2
<1>9. Ordered' /\ Shut' /\ EachGateOnce'
  BY <1>0, <1>2, OrderedNext, ShutNext, OnceNext
<1>10. CampaignTypeOK'
  BY <1>2, TypeParts, PTL
<1> QED BY <1>3, <1>5, <1>6, <1>7, <1>8, <1>9, <1>10
        DEF CampaignInvariant, Files, Cleanup

\* The readiness gates and the owner.
LEMMA CampaignOther ==
    ASSUME CampaignInvariant, CampaignStep,
           QualifyCanary \/ QualifyMove \/ \E d \in DOMAIN docs : OwnerEdit(d)
    PROVE  CampaignInvariant'
<1>0. RunTypeOK /\ Kept /\ edits \in Nat /\ edits' \in Nat
      /\ edits <= edits' /\ SetupTypeOK /\ Bracketed
      /\ Traced
  BY TypeParts, StepKept, EditsGrow DEF CampaignInvariant, Files
<1>1. /\ UNCHANGED <<records, accepted, gate, pc, plan, enabled, audits,
                     mutated>>
      /\ mutated \subseteq Runs
  BY <1>0 DEF QualifyCanary, QualifyMove, OwnerEdit, RunTypeOK
<1>2. /\ docs' \in Documents /\ edits' \in 0 .. MaxEdits /\ Known(docs)'
      /\ fixture' \in [canary : Nat, source : Nat]
      /\ fixture'.canary \in {fixture.canary, docs.canary.file}
      /\ fixture'.source \in {fixture.source, docs.source.file}
  <2>1. CASE \E d \in DOMAIN docs : OwnerEdit(d)
    <3>1. PICK d \in DOMAIN docs : OwnerEdit(d)
      BY <2>1
    <3> QED BY <1>0, <3>1, Edited, KnownEdit DEF OwnerEdit, RunTypeOK
  <2>2. CASE QualifyCanary \/ QualifyMove
    <3>1. docs' = docs /\ edits' = edits
      BY <2>2 DEF QualifyCanary, QualifyMove
    <3>2. Known(docs)'
      BY <1>0, <1>1, <3>1, KnownSame
    <3>3. docs.canary.file \in Nat /\ docs.source.file \in Nat
      BY <1>0, DocumentFile DEF RunTypeOK, Documents
    <3>4. /\ fixture' \in [canary : Nat, source : Nat]
          /\ fixture'.canary \in {fixture.canary, docs.canary.file}
          /\ fixture'.source \in {fixture.source, docs.source.file}
      BY <1>0, <2>2, <3>3 DEF QualifyCanary, QualifyMove, RunTypeOK
    <3> QED BY <1>0, <3>1, <3>2, <3>4 DEF RunTypeOK
  <2> QED BY <2>1, <2>2
<1>3. RunTypeOK' /\ Bracketed' /\ SetupTypeOK'
  BY <1>0, <1>1, <1>2
     DEF RunTypeOK, Bracketed, CampaignStep, setupVars, SetupTypeOK
<1>4. Ledger'
  BY <1>0, <1>1, <1>3, LedgerOther
<1>5. Traced'
  BY <1>0, <1>1, <1>2, TracedFrame
<1>6. ASSUME NEW q \in Runs
      PROVE  Bound(q)'
  BY <1>0, <1>1, BoundFrame
<1>7. ASSUME NEW p \in mutated'
      PROVE  Spent(p)'
  <2>1. CASE \E d \in DOMAIN docs : OwnerEdit(d)
    BY <1>1, <1>7, <2>1, SpentEdit
  <2>2. CASE QualifyCanary \/ QualifyMove
    <3>1. docs' = docs
      BY <2>2 DEF QualifyCanary, QualifyMove
    <3> QED BY <1>0, <1>1, <1>7, <3>1, SpentFrame
  <2> QED BY <2>1, <2>2
<1>8. ASSUME NEW a \in Runs
      PROVE  Journal1(a)'
  BY <1>0, <1>1, <1>3, JournalFrame
<1>9. Ordered' /\ Shut' /\ EachGateOnce'
  BY <1>0, <1>3, OrderedNext, ShutNext, OnceNext
<1>10. CampaignTypeOK'
  BY <1>3, TypeParts, PTL
<1> QED BY <1>4, <1>5, <1>6, <1>7, <1>8, <1>9, <1>10
        DEF CampaignInvariant, Files, Cleanup

\* The setup gates change nothing Ledger, Files and Cleanup speak of.
LEMMA CampaignFrame ==
    ASSUME CampaignInvariant, UNCHANGED campaignVars, SetupTypeOK'
    PROVE  CampaignInvariant'
<1> USE DEF campaignVars
<1>1. RunTypeOK' /\ Bracketed'
  BY TypeParts DEF CampaignInvariant, RunTypeOK, Bracketed
<1>2. CampaignTypeOK'
  BY <1>1, TypeParts, PTL
<1>3. Ledger'
  BY DEF CampaignInvariant, Ledger, Placed, Changed, Follows, Printed, Touched,
         Approved, Audited, Before
<1>4. Files'
  BY DEF CampaignInvariant, Files, Traced, Known, Used, EachGateOnce, Bound,
         Spent
<1>5. Cleanup'
  BY DEF CampaignInvariant, Cleanup, Journal1, Ordered, Shut, Closed, Present,
         Approved, IsNext, Before, Touched, Journaled
<1> QED BY <1>2, <1>3, <1>4, <1>5 DEF CampaignInvariant

LEMMA CampaignNext == CampaignInvariant /\ [Next]_vars => CampaignInvariant'
<1> SUFFICES ASSUME CampaignInvariant, [Next]_vars PROVE CampaignInvariant'
  OBVIOUS
<1>1. ASSUME CampaignStep
      PROVE  CampaignInvariant'
  <2>1. ASSUME NEW r \in Runs, RunStep(r)
        PROVE  CampaignInvariant'
    <3>1. OwnStep(r) \/ Tear(r) \/ Remove(r)
      BY <2>1 DEF RunStep, OwnStep
    <3> QED BY <1>1, <3>1, CampaignOwn, CampaignTake
  <2>2. CASE QualifyCanary \/ QualifyMove \/ \E d \in DOMAIN docs : OwnerEdit(d)
    BY <1>1, <2>2, CampaignOther
  <2> QED BY <1>1, <2>1, <2>2 DEF CampaignStep
<1>2. ASSUME SetupGate
      PROVE  CampaignInvariant'
  <2>1. SetupTypeOK'
    BY <1>2, TypeParts, SetupType DEF CampaignInvariant
  <2> QED BY <1>2, <2>1, CampaignFrame DEF SetupGate
<1>3. ASSUME UNCHANGED vars
      PROVE  CampaignInvariant'
  <2>1. SetupTypeOK'
    BY <1>3, TypeParts DEF CampaignInvariant, vars, setupVars, SetupTypeOK
  <2> QED BY <1>3, <2>1, CampaignFrame DEF vars
<1> QED BY <1>1, <1>2, <1>3 DEF Next

LEMMA CampaignInit == Init => CampaignInvariant
<1> SUFFICES ASSUME Init PROVE CampaignInvariant
  OBVIOUS
<1> USE DEF Init
<1>1. SetupTypeOK
  BY DEF SetupInit, SetupTypeOK, Setups
<1>2. RunTypeOK
  <2>1. docs \in Documents
    <3>1. FixtureFile \in Nat
      BY BoundAssumption DEF FixtureFile
    <3> QED BY <3>1, Shapes DEF Documents
  <2>2. NoAudit \in Audit
    BY DEF NoAudit, Audit
  <2> QED BY <2>1, <2>2, Shapes, RunsNat DEF RunTypeOK
<1>3. Bracketed
  BY DEF Bracketed
<1>4. Ledger
  BY DEF Ledger, Placed, Changed, Follows, Printed, Touched, NoAudit, Pending,
         Mutating
<1>5. Files
  <2>1. /\ Used(NoFile) /\ Used(FixtureFile) /\ FixtureFile # NoFile
    BY RunsNat, BoundAssumption DEF Used, FixtureFile, NoFile
  <2>2. Known(docs)
    BY <2>1 DEF Known, Gone
  <2>3. \A r \in Runs : Known(plan[r])
    BY UsedConstants
  <2> QED BY <2>1, <2>2, <2>3
          DEF Files, Traced, EachGateOnce, Bound, Pending
<1>6. Cleanup
  BY DEF Cleanup, Journal1, Ordered, Shut, Closed, NoAudit
<1>7. CampaignTypeOK
  BY <1>1, <1>2, <1>3, TypeParts
<1> QED BY <1>4, <1>5, <1>6, <1>7 DEF CampaignInvariant

-----------------------------------------------------------------------------
(* The theorems.                                                           *)

\* The invariant of the campaign: what the place of every run, every file
\* identity and every journal say of the rest.
THEOREM CampaignInvariance == Spec => []CampaignInvariant
  BY CampaignInit, CampaignNext, PTL DEF Spec

\* Types; and mutation is enabled in a process only around its one call of
\* the executor, however that ends.
THEOREM CampaignTypeHolds == Spec => []CampaignTypeOK
<1>1. CampaignInvariant => CampaignTypeOK
  BY DEF CampaignInvariant
<1> QED BY <1>1, CampaignInvariance, PTL

\* No script changes its documents twice, in however many terminals it is
\* started and whatever the owner does, but for U after the owner was there.
THEOREM EachGateOnceHolds == Spec => []EachGateOnce
<1>1. CampaignInvariant => EachGateOnce
  BY DEF CampaignInvariant, Files
<1> QED BY <1>1, CampaignInvariance, PTL

\* A change to a document stays accounted for: its record is whole or an
\* audit lists it.
THEOREM EvidenceListedHolds == Spec => []EvidenceListed
<1>1. ASSUME CampaignInvariant
      PROVE  EvidenceListed
  <2>1. SUFFICES ASSUME NEW r \in mutated, records[r] \notin {"open", "committed"}
                 PROVE  \E a \in Runs : r \in audits[a].listed
    BY DEF EvidenceListed
  <2>2. r \in Runs /\ Touched(r)
    BY <1>1, <2>1, TypeParts
       DEF CampaignInvariant, Ledger, Changed, Touched, RunTypeOK
  <2>3. r \in Approved /\ Audited
    BY <1>1, <2>2 DEF CampaignInvariant, Ledger, Changed
  <2> QED BY <1>1, <2>3 DEF CampaignInvariant, Cleanup, Journal1, Audited
<1> QED BY <1>1, CampaignInvariance, PTL

\* The journals are true, and at most one directory is touched without an
\* entry, at every step of any number of cleanups.
THEOREM AuditExactHolds == Spec => []AuditExact
<1>1. ASSUME CampaignInvariant
      PROVE  AuditExact
  <2> DEFINE journaled == UNION {audits[a].removed : a \in Runs}
             touched == {r \in Runs : records[r] \in {"torn", "removed"}}
  <2>1. \A j : j \in journaled <=> Journaled(j)
    BY DEF Journaled
  <2>2. \A j \in journaled : records[j] = "removed"
    BY <1>1, <2>1 DEF CampaignInvariant, Cleanup, Journal1, Journaled
  <2>3. ASSUME NEW x \in touched \ journaled, NEW y \in touched \ journaled
        PROVE  x = y
    <3>1. PICK g \in Mutating : x = accepted[g]
      BY <1>1 DEF CampaignInvariant, Ledger, Changed, Touched, Approved
    <3>2. PICK h \in Mutating : y = accepted[h]
      BY <1>1 DEF CampaignInvariant, Ledger, Changed, Touched, Approved
    <3>3. accepted[g] # NoRun /\ accepted[h] # NoRun
      BY <3>1, <3>2, RunsNat
    <3>4. ~Before(g, h) /\ ~Before(h, g)
      BY <1>1, <2>1, <3>1, <3>2, <3>3
         DEF CampaignInvariant, Cleanup, Ordered, Touched
    <3> QED BY <3>1, <3>2, <3>4, Ranks
  <2>4. Cardinality(touched \ journaled) <= 1
    <3>1. CASE touched \ journaled = {}
      BY <3>1, FS_EmptySet
    <3>2. CASE touched \ journaled # {}
      <4>1. PICK x : x \in touched \ journaled
        BY <3>2
      <4>2. touched \ journaled = {x}
        BY <2>3, <4>1
      <4>3. Cardinality({x}) = 1
        BY FS_Singleton
      <4> HIDE DEF touched, journaled
      <4> QED BY <4>2, <4>3
    <3> QED BY <3>1, <3>2
  <2> QED BY <2>2, <2>4 DEF AuditExact
<1> QED BY <1>1, CampaignInvariance, PTL

\* A run that ended badly keeps its record, and lets nobody who waits for an
\* answer through any more, but for the U of EachGateOnce or after it.
THEOREM FailureFreezesHolds == Spec => FailureFreezes
<1> DEFINE Frozen(r) ==
        /\ records'[r] = records[r]
        /\ \A q \in Runs : pc[q] = "asked" /\ pc'[q] = "admitted" =>
               edits > 0 /\ "U" \in {gate[q], gate[r]}
<1>1. ASSUME CampaignInvariant, [Next]_vars, NEW r \in Runs, Unresolved(r)
      PROVE  Frozen(r)
  <2>0. RunTypeOK
    BY <1>1, TypeParts DEF CampaignInvariant
  <2>1. CASE CampaignStep
    <3>1. ASSUME NEW q \in Runs, pc[q] # "stopped",
                 \E s : records' = [records EXCEPT ![q] = s]
          PROVE  records'[r] = records[r]
      BY <1>1, <2>0, <3>1 DEF Unresolved, RunTypeOK
    <3>2. records'[r] = records[r]
      BY <1>1, <2>1, <3>1, RecordSteps DEF TakesAway
    <3>3. ASSUME NEW q \in Runs, pc[q] = "asked", pc'[q] = "admitted"
          PROVE  edits > 0 /\ "U" \in {gate[q], gate[r]}
      <4>1. Untouched(q) /\ Attention = {}
        <5>1. ASSUME NEW s \in Runs, OwnStep(s), s # q
              PROVE  FALSE
          BY <2>0, <3>3, <5>1, OwnLocal DEF OnlyRun, SamePlace
        <5>2. ASSUME NEW s \in Runs, Tear(s) \/ Remove(s)
              PROVE  FALSE
          BY <2>0, <3>3, <5>2 DEF Tear, Remove, Goto, RunTypeOK
        <5>3. pc' # pc
          BY <3>3
        <5>4. OwnStep(q)
          BY <2>1, <5>1, <5>2, <5>3 DEF CampaignStep, RunStep, OwnStep,
             QualifyCanary, QualifyMove, OwnerEdit
        <5>5. Admit(q) \/ Stop(q)
          BY <3>3, <5>4 DEF OwnStep, CanLaunch, Preview, Dispatch, Prepare,
             Change, Commit, Accept, PrepareAudit, Journal, Finalize
        <5>6. ~Stop(q)
          BY <2>0, <3>3 DEF Stop, Goto, RunTypeOK
        <5> QED BY <5>5, <5>6 DEF Admit, InventoryClear
      <4>2. r \in mutated /\ pc[r] = "stopped" /\ gate[r] \in Mutating
        BY <1>1, <4>1 DEF Attention, Present, Unresolved, CampaignInvariant,
           Ledger, Changed
      <4>3. gate[q] \in Mutating /\ Follows(q)
        BY <1>1, <3>3 DEF CampaignInvariant, Ledger, Placed, Pending
      <4>4. CASE gate[r] = gate[q] \/ Before(gate[q], gate[r])
        BY <1>1, <3>3, <4>1, <4>2, <4>4, SpentStops DEF Pending
      <4>5. CASE Before(gate[r], gate[q])
        <5>1. accepted[gate[r]] # NoRun
          BY <4>2, <4>3, <4>5 DEF Follows
        <5>2. /\ accepted[gate[r]] \in mutated /\ accepted[gate[r]] # r
              /\ gate[accepted[gate[r]]] = gate[r]
          BY <1>1, <4>2, <5>1 DEF CampaignInvariant, Ledger, Printed
        <5> QED BY <1>1, <4>2, <5>2 DEF CampaignInvariant, Files, EachGateOnce
      <4> QED BY <4>2, <4>3, <4>4, <4>5, Ranks
    <3> QED BY <3>2, <3>3
  <2>2. CASE UNCHANGED campaignVars
    BY <2>2 DEF campaignVars
  <2> QED BY <1>1, <2>1, <2>2 DEF Next, SetupGate, vars
<1> DEFINE Body == \A r \in Runs : Unresolved(r) => Frozen(r)
<1>2. CampaignInvariant /\ [Next]_vars => Body
  BY <1>1
<1>3. FailureFreezes <=> [][Body]_vars
  BY DEF FailureFreezes
<1> HIDE DEF Body
<1> QED BY <1>2, <1>3, CampaignInvariance, PTL DEF Spec

\* Once an audit is committed the recovery root stays empty and no document
\* is changed, but by a U the owner made room for.
THEOREM ClosedForGoodHolds == Spec => ClosedForGood
<1> DEFINE Body == (\E a \in Runs : audits[a].status = "committed") =>
          \A r \in Present' \cup (mutated' \ mutated) :
              gate[r] = "U" /\ edits > 0
<1>1. ASSUME CampaignInvariant, [Next]_vars, Closed,
             NEW r \in Present' \cup (mutated' \ mutated)
      PROVE  gate[r] = "U" /\ edits > 0
  <2>1. CASE r \in Present
    BY <1>1, <2>1 DEF CampaignInvariant, Cleanup, Shut
  <2>2. CASE CampaignStep /\ r \in Present' /\ r \notin Present
    <3>1. Prepare(r) /\ r \in Runs /\ pc[r] = "admitted"
      BY <1>1, <2>2, PresentNew
    <3> QED BY <1>1, <3>1, OnlyU DEF Prepare, Pending
  <2>3. CASE CampaignStep /\ r \in mutated' /\ r \notin mutated
    <3>1. Change(r) /\ r \in Runs
      BY <2>3, NewlyActed
    <3> QED BY <1>1, <3>1, OnlyU DEF Change, Pending
  <2>4. CASE UNCHANGED campaignVars
    BY <1>1, <2>1, <2>4 DEF campaignVars, Present
  <2> QED BY <1>1, <2>1, <2>2, <2>3, <2>4 DEF Next, SetupGate, vars
<1>2. CampaignInvariant /\ [Next]_vars => Body
  BY <1>1 DEF Closed
<1>3. ClosedForGood <=> [][Body]_vars
  BY DEF ClosedForGood
<1> HIDE DEF Body
<1> QED BY <1>2, <1>3, CampaignInvariance, PTL DEF Spec
=============================================================================
