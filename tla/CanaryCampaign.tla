--------------------------- MODULE CanaryCampaign ---------------------------
(***************************************************************************)
(* The Phase 5 canary campaign: the operator's scripts that used the       *)
(* production executor for the first time, each authorized for one exact   *)
(* transaction, and the audited cleanup that closed it.                    *)
(*                                                                         *)
(*   Q  edit the canary note          U  restore the removed inbox source  *)
(*   R  restore the canary            X  delete the moved note             *)
(*   T  move the inbox draft          Y  remove the five recovery records  *)
(*                                                                         *)
(* A script is written after the gate before it passed: it quotes the      *)
(* recovery ids and file identities that gate printed.  It compares the    *)
(* whole recovery inventory and its documents with what it quotes, enables *)
(* mutation in its own process only around one call of the executor, and   *)
(* checks the outcome.  No script follows up or cleans up after a failure. *)
(*                                                                         *)
(* A run of a script is a process of its own; it can stop at any step, by  *)
(* a refusal, an exception or a crash.  The executor's own steps are in    *)
(* module VaultTransaction; here a call is admitted, writes its record,    *)
(* changes the document and commits.                                       *)
(***************************************************************************)
EXTENDS CampaignSetup, Naturals, FiniteSets

CONSTANTS
    MaxRuns,    \* bound: processes that run or have left something
    Terminals,  \* bound: processes that run at once
    MaxEdits    \* bound: changes the owner makes to the documents

ASSUME BoundAssumption == {MaxRuns, Terminals, MaxEdits} \subseteq Nat

VARIABLES
    docs,       \* canary, source, target: bytes and Windows file identity
    fixture,    \* the identities the readiness gates printed
    records,    \* run -> its directory under the recovery root
    accepted,   \* gate -> the recovery id of its PASS, quoted from then on
    gate,       \* run -> the script it runs
    pc,         \* run -> where it stands
    plan,       \* run -> the documents its previewed plan binds
    enabled,    \* run -> mutation mode of its process
    audits,     \* run of Y -> its audit file
    mutated,    \* history: runs whose executor call changed a document
    edits       \* how often the owner changed a document

campaignVars == <<docs, fixture, records, accepted, gate, pc, plan, enabled,
                  audits, mutated, edits>>

vars == <<campaignVars, setupVars>>

Runs == 1 .. MaxRuns
NoRun == 0
FixtureFile == MaxRuns + 1      \* the files the fixtures were created as
NoFile == MaxRuns + 2
OwnerFile == NoFile + edits + 1 \* the next file another program creates

Mutating == {"Q", "R", "T", "U", "X"}
Gone == [bytes |-> "absent", file |-> NoFile]
Bytes == [canary |-> {"before", "after", "foreign"},
          source |-> {"frozen", "foreign"}, target |-> {"frozen", "foreign"}]

Document(d) == {Gone} \cup [bytes : Bytes[d], file : Nat]
Documents == [canary : Document("canary"), source : Document("source"),
              target : Document("target")]
NoPlan == [canary |-> Gone, source |-> Gone, target |-> Gone]

Audit == [status : {"none", "prepared", "committed"},
          listed : SUBSET Runs, removed : SUBSET Runs]
NoAudit == [status |-> "none", listed |-> {}, removed |-> {}]

-----------------------------------------------------------------------------
(* The recovery inventory.  Reading it begins with the check of the root.  *)

Present == {r \in Runs : records[r] \in {"open", "committed", "torn"}}

\* A record that is not final, or has lost a file, needs attention.
Attention == {r \in Present : records[r] # "committed"}

\* The documents show what gate g did.
Holds(g) ==
    /\ g = "Q" => docs.canary.bytes = "after"
    /\ g = "R" => docs.canary.bytes = "before"
    /\ g = "T" => docs.source = Gone /\ docs.target.bytes = "frozen"
    /\ g = "U" => docs.source.bytes = "frozen"
    /\ g = "X" => docs.target = Gone

Class(r) == IF Holds(gate[r]) THEN "committed" ELSE "committed_then_changed"

\* The inventory is exactly these ids, all final, classified like this.
Matches(expected) ==
    /\ RootUsable /\ Attention = {}
    /\ {<<r, Class(r)>> : r \in Present} = expected

\* What each script quotes: an id that was never printed matches no record.
FrozenQ == {}
FrozenR == {<<accepted.Q, "committed">>}
FrozenT == {<<accepted.Q, "committed_then_changed">>,
            <<accepted.R, "committed">>}
FrozenU == FrozenT \cup {<<accepted.T, "committed">>}
FrozenX == FrozenT \cup {<<accepted.T, "committed_then_changed">>,
                         <<accepted.U, "committed">>}
FrozenY == FrozenX \cup {<<accepted.X, "committed">>}

Approved == {accepted[g] : g \in Mutating}

\* What W installs over: the directories and documents U left, then also
\* how the verifier classifies them.
FourThere ==
    /\ Present = {accepted[g] : g \in {"Q", "R", "T", "U"}}
    /\ docs.source.bytes = "frozen" /\ docs.target.bytes = "frozen"
    /\ docs.canary.bytes = "before"

FourFinal == FourThere /\ Matches(FrozenX)

-----------------------------------------------------------------------------
(* What each gate requires of inventory and documents before its preview.  *)

\* Mutant: the canary is known by its bytes alone.
CanaryByBytes == docs.canary.bytes = "before" /\ fixture.canary # NoFile

CanaryIsFixture == docs.canary = [bytes |-> "before", file |-> fixture.canary]

ReadyQ == Matches(FrozenQ) /\ CanaryIsFixture

ReadyR == /\ Matches(FrozenR)
          /\ docs.canary = [bytes |-> "after", file |-> accepted.Q]

ReadyT == /\ Matches(FrozenT)
          /\ docs.source = [bytes |-> "frozen", file |-> fixture.source]
          /\ docs.target = Gone

ReadyU == /\ Matches(FrozenU)
          /\ docs.source = Gone /\ docs.target.bytes = "frozen"

ReadyX == /\ Matches(FrozenX)
          /\ docs.source = [bytes |-> "frozen", file |-> accepted.U]
          /\ docs.target.bytes = "frozen"

Ready(g) == /\ g = "Q" => ReadyQ
            /\ g = "R" => ReadyR
            /\ g = "T" => ReadyT
            /\ g = "U" => ReadyU
            /\ g = "X" => ReadyX

\* Q and R read only the canary again after the preview, the others all of it.
PreviewedQ == CanaryIsFixture
PreviewedR == docs.canary = [bytes |-> "after", file |-> accepted.Q]
PreviewedT == ReadyT
PreviewedU == ReadyU
PreviewedX == ReadyX

Previewed(g) == /\ g = "Q" => PreviewedQ
                /\ g = "R" => PreviewedR
                /\ g = "T" => PreviewedT
                /\ g = "U" => PreviewedU
                /\ g = "X" => PreviewedX

\* What each gate requires before it prints PASS for run r.
LandedQ(r) == docs.canary.bytes = "after" /\ Matches({<<r, "committed">>})
LandedR(r) == /\ docs.canary.bytes = "before"
              /\ Matches({<<accepted.Q, "committed_then_changed">>,
                          <<r, "committed">>})
LandedT(r) == /\ docs.source = Gone /\ docs.target.bytes = "frozen"
              /\ Matches(FrozenT \cup {<<r, "committed">>})
LandedU(r) == /\ docs.source.bytes = "frozen" /\ docs.target.bytes = "frozen"
              /\ Matches(FrozenT \cup {<<accepted.T, "committed_then_changed">>,
                                       <<r, "committed">>})
LandedX(r) == /\ docs.source = [bytes |-> "frozen", file |-> accepted.U]
              /\ docs.target = Gone
              /\ Matches(FrozenX \cup {<<r, "committed">>})

Landed(r) == /\ gate[r] = "Q" => LandedQ(r)
             /\ gate[r] = "R" => LandedR(r)
             /\ gate[r] = "T" => LandedT(r)
             /\ gate[r] = "U" => LandedU(r)
             /\ gate[r] = "X" => LandedX(r)

-----------------------------------------------------------------------------
Init ==
    /\ SetupInit
    /\ docs = [canary |-> [bytes |-> "before", file |-> FixtureFile],
               source |-> [bytes |-> "frozen", file |-> FixtureFile],
               target |-> Gone]
    /\ fixture = [canary |-> NoFile, source |-> NoFile]
    /\ records = [r \in Runs |-> "none"]
    /\ accepted = [g \in Mutating |-> NoRun]
    /\ gate = [r \in Runs |-> "none"]
    /\ pc = [r \in Runs |-> "idle"]
    /\ plan = [r \in Runs |-> NoPlan]
    /\ enabled = [r \in Runs |-> FALSE]
    /\ audits = [r \in Runs |-> NoAudit]
    /\ mutated = {}
    /\ edits = 0

Goto(r, l) == pc' = [pc EXCEPT ![r] = l]

Active(r) == pc[r] \notin {"idle", "passed", "stopped"}

FreeTerminal ==
    Cardinality({r \in Runs : Active(r)}) + Cardinality(Under) < Terminals

-----------------------------------------------------------------------------
(* The readiness gates: they change nothing and print a file identity.     *)

QualifyCanary ==
    /\ fixture.canary = NoFile /\ Equipped("Q") /\ ~GatewayUp
    /\ Matches({}) /\ docs.canary.bytes = "before"
    /\ fixture' = [fixture EXCEPT !.canary = docs.canary.file]
    /\ UNCHANGED <<docs, records, accepted, gate, pc, plan, enabled, audits,
                   mutated, edits>>

QualifyMove ==
    /\ fixture.source = NoFile /\ Equipped("T") /\ ~GatewayUp
    /\ Matches(FrozenT) /\ docs.source.bytes = "frozen" /\ docs.target = Gone
    /\ fixture' = [fixture EXCEPT !.source = docs.source.file]
    /\ UNCHANGED <<docs, records, accepted, gate, pc, plan, enabled, audits,
                   mutated, edits>>

-----------------------------------------------------------------------------
(* One run of a mutating gate.                                             *)

\* The next process of the campaign: it can begin with any script.
CanLaunch(r) ==
    /\ pc[r] = "idle" /\ \A q \in 1 .. r - 1 : pc[q] # "idle"
    /\ FreeTerminal /\ ~GatewayUp

Start(r, g) ==
    /\ Equipped(g) /\ Ready(g)
    /\ gate' = [gate EXCEPT ![r] = g]
    /\ Goto(r, "ready")
    /\ UNCHANGED <<docs, fixture, records, accepted, plan, enabled, audits,
                   mutated, edits>>

\* The side-effect-free preview binds the documents; the script reads again.
Preview(r) ==
    /\ pc[r] = "ready" /\ gate[r] \in Mutating
    /\ Previewed(gate[r])
    /\ plan' = [plan EXCEPT ![r] = docs]
    /\ Goto(r, "previewed")
    /\ UNCHANGED <<docs, fixture, records, accepted, gate, enabled, audits,
                   mutated, edits>>

\* The hook lets a call through whose plan is there.  The size limit of its
\* diff is left out: the fixtures are far below it.
PreToolCall(r) == plan[r] # NoPlan

\* Mutant: the inventory is not read again after the human's decision.
InventoryUnread == TRUE

\* No record needs attention, and the root it is read from is usable.
InventoryClear == RootUsable /\ Attention = {}

\* The executor's first checks, before anybody is asked.
Preflight == RootUsable /\ InventoryClear

\* Mutation is enabled in this process, hook and guarded handler let the call
\* through, and the executor asks the human.
Dispatch(r) ==
    /\ pc[r] = "previewed"
    /\ PreToolCall(r) /\ Preflight
    /\ enabled' = [enabled EXCEPT ![r] = TRUE]
    /\ Goto(r, "asked")
    /\ UNCHANGED <<docs, fixture, records, accepted, gate, plan, audits,
                   mutated, edits>>

\* Mutant: the plan binds the bytes and not the file they are in.
UntouchedBytes(r) ==
    /\ gate[r] \in {"Q", "R"} => docs.canary.bytes = plan[r].canary.bytes
    /\ gate[r] = "T" => docs.source.bytes = plan[r].source.bytes
                        /\ docs.target = Gone
    /\ gate[r] = "U" => docs.source = Gone
    /\ gate[r] = "X" => docs.target.bytes = plan[r].target.bytes

\* The plan of run r still fits the documents.
Untouched(r) ==
    /\ gate[r] \in {"Q", "R"} => docs.canary = plan[r].canary
    /\ gate[r] = "T" => docs.source = plan[r].source /\ docs.target = Gone
    /\ gate[r] = "U" => docs.source = Gone
    /\ gate[r] = "X" => docs.target = plan[r].target

OriginValid(r) ==
    /\ gate[r] = "R" => records[accepted.Q] = "committed"
    /\ gate[r] = "U" => records[accepted.T] = "committed"

\* A fresh once, then the executor's own plan and inventory checks.
Admit(r) ==
    /\ pc[r] = "asked" /\ enabled[r]
    /\ Untouched(r) /\ OriginValid(r) /\ InventoryClear
    /\ Goto(r, "admitted")
    /\ UNCHANGED <<docs, fixture, records, accepted, gate, plan, enabled,
                   audits, mutated, edits>>

Prepare(r) ==
    /\ pc[r] = "admitted" /\ Untouched(r) /\ root # "none"
    /\ records' = [records EXCEPT ![r] = "open"]
    /\ Goto(r, "recorded")
    /\ UNCHANGED <<docs, fixture, accepted, gate, plan, enabled, audits,
                   mutated, edits>>

Effect(r) ==
    CASE gate[r] = "Q" -> [docs EXCEPT !.canary =
                              [bytes |-> "after", file |-> r]]
      [] gate[r] = "R" -> [docs EXCEPT !.canary =
                              [bytes |-> "before", file |-> r]]
      [] gate[r] = "T" -> [docs EXCEPT !.source = Gone, !.target =
                              [bytes |-> "frozen", file |-> r]]
      [] gate[r] = "U" -> [docs EXCEPT !.source =
                              [bytes |-> "frozen", file |-> r]]
      [] gate[r] = "X" -> [docs EXCEPT !.target = Gone]

Change(r) ==
    /\ pc[r] = "recorded" /\ Untouched(r)
    /\ docs' = Effect(r)
    /\ mutated' = mutated \cup {r}
    /\ Goto(r, "changed")
    /\ UNCHANGED <<fixture, records, accepted, gate, plan, enabled, audits,
                   edits>>

\* Manifest and receipt become final; the script takes mutation back.
Commit(r) ==
    /\ pc[r] = "changed" /\ Holds(gate[r])
    /\ records' = [records EXCEPT ![r] = "committed"]
    /\ enabled' = [enabled EXCEPT ![r] = FALSE]
    /\ Goto(r, "applied")
    /\ UNCHANGED <<docs, fixture, accepted, gate, plan, audits, mutated, edits>>

\* PASS: the process that started the script finds .env and plugin as they
\* were, the id is printed, and the next script will quote it.
Accept(r) ==
    /\ pc[r] = "applied" /\ Landed(r) /\ Equipped(gate[r])
    /\ accepted' = [accepted EXCEPT ![gate[r]] = r]
    /\ plan' = [plan EXCEPT ![r] = NoPlan]
    /\ Goto(r, "passed")
    /\ UNCHANGED <<docs, fixture, records, gate, enabled, audits, mutated,
                   edits>>

\* A run that left neither record nor audit is as if it had never been.
LeftNothing(r) == records[r] = "none" /\ audits[r] = NoAudit

\* Mutant: mutation is taken back after the call, not in a finally.
StopEnabled(r) ==
    /\ Active(r)
    /\ gate' = [gate EXCEPT ![r] = IF LeftNothing(r) THEN "none" ELSE @]
    /\ plan' = [plan EXCEPT ![r] = NoPlan]
    /\ Goto(r, IF LeftNothing(r) THEN "idle" ELSE "stopped")
    /\ UNCHANGED <<docs, fixture, records, accepted, enabled, audits,
                   mutated, edits>>

\* A refusal, an exception or a crash: finally takes mutation back, the
\* failure state is printed, and nothing is repaired.
Stop(r) ==
    /\ Active(r)
    /\ gate' = [gate EXCEPT ![r] = IF LeftNothing(r) THEN "none" ELSE @]
    /\ enabled' = [enabled EXCEPT ![r] = FALSE]
    /\ plan' = [plan EXCEPT ![r] = NoPlan]
    /\ Goto(r, IF LeftNothing(r) THEN "idle" ELSE "stopped")
    /\ UNCHANGED <<docs, fixture, records, accepted, audits, mutated,
                   edits>>

-----------------------------------------------------------------------------
(* One run of the cleanup Y.                                               *)

Reference ==
    /\ docs.source = [bytes |-> "frozen", file |-> accepted.U]
    /\ docs.target = Gone
    /\ docs.canary.bytes = "before"

\* The PowerShell gate: exactly the five directories, reference documents.
StartCleanup(r) ==
    /\ Present = Approved
    /\ docs.source.bytes = "frozen" /\ docs.target = Gone
    /\ docs.canary.bytes = "before"
    /\ gate' = [gate EXCEPT ![r] = "Y"]
    /\ Goto(r, "ready")
    /\ UNCHANGED <<docs, fixture, records, accepted, plan, enabled, audits,
                   mutated, edits>>

\* Mutant: the audit approves the ids and leaves their files out.
PrepareAuditIdsOnly(r) ==
    /\ pc[r] = "ready" /\ gate[r] = "Y"
    /\ Equipped("Y") /\ Reference /\ Matches(FrozenY)
    /\ audits' = [audits EXCEPT ![r].status = "prepared"]
    /\ Goto(r, "pruning")
    /\ UNCHANGED <<docs, fixture, records, accepted, gate, plan, enabled,
                   mutated, edits>>

\* The helper checks the inventory natively and writes the durable audit with
\* every file of every record.
PrepareAudit(r) ==
    /\ pc[r] = "ready" /\ gate[r] = "Y"
    /\ Equipped("Y") /\ Reference /\ Matches(FrozenY)
    /\ audits' = [audits EXCEPT ![r].status = "prepared", ![r].listed = Present]
    /\ Goto(r, "pruning")
    /\ UNCHANGED <<docs, fixture, records, accepted, gate, plan, enabled,
                   mutated, edits>>

\* The order of the five ids in the approved list.
Rank == [Q |-> 1, R |-> 2, T |-> 3, U |-> 4, X |-> 5]

\* The directory the loop has come to.
NextId(r) ==
    LET left == {g \in Mutating : accepted[g] \notin audits[r].removed}
    IN accepted[CHOOSE g \in left : \A h \in left : Rank[g] <= Rank[h]]

\* Remove-Item -Recurse takes the files one by one.
Tear(r) ==
    /\ pc[r] = "pruning" /\ ~(Approved \subseteq audits[r].removed)
    /\ NextId(r) \in Present
    /\ records' = [records EXCEPT ![NextId(r)] = "torn"]
    /\ Goto(r, "tearing")
    /\ UNCHANGED <<docs, fixture, accepted, gate, plan, enabled, audits,
                   mutated, edits>>

\* Mutant: the directories are removed by a wildcard.
RemoveByWildcard(r) ==
    /\ pc[r] = "tearing"
    /\ records' = [q \in Runs |-> IF q \in Present THEN "removed"
                                  ELSE records[q]]
    /\ Goto(r, "removed")
    /\ UNCHANGED <<docs, fixture, accepted, gate, plan, enabled, audits,
                   mutated, edits>>

Remove(r) ==
    /\ pc[r] = "tearing"
    /\ records' = [records EXCEPT ![NextId(r)] = "removed"]
    /\ Goto(r, "removed")
    /\ UNCHANGED <<docs, fixture, accepted, gate, plan, enabled, audits,
                   mutated, edits>>

\* The removal is journaled before the next directory is touched.
Journal(r) ==
    /\ pc[r] = "removed"
    /\ audits' = [audits EXCEPT ![r].removed = @ \cup {NextId(r)}]
    /\ Goto(r, "pruning")
    /\ UNCHANGED <<docs, fixture, records, accepted, gate, plan, enabled,
                   mutated, edits>>

Finalize(r) ==
    /\ pc[r] = "pruning" /\ audits[r].removed = Approved
    /\ Present = {} /\ Equipped("Y") /\ Reference
    /\ audits' = [audits EXCEPT ![r].status = "committed"]
    /\ Goto(r, "passed")
    /\ UNCHANGED <<docs, fixture, records, accepted, gate, plan, enabled,
                   mutated, edits>>

-----------------------------------------------------------------------------
\* The owner saves, recreates or deletes one of the documents.  A file that
\* is created has an identity no file had before.
OwnerEdit(d) ==
    /\ edits < MaxEdits
    /\ edits' = edits + 1
    /\ \E new \in {Gone} \cup [bytes : Bytes[d],
                               file : {docs[d].file, OwnerFile} \ {NoFile}] :
          new # docs[d] /\ docs' = [docs EXCEPT ![d] = new]
    /\ UNCHANGED <<fixture, records, accepted, gate, pc, plan, enabled, audits,
                   mutated>>

RunStep(r) ==
    \/ CanLaunch(r) /\ (StartCleanup(r) \/ \E g \in Mutating : Start(r, g))
    \/ Preview(r) \/ Dispatch(r) \/ Admit(r) \/ Prepare(r) \/ Change(r)
    \/ Commit(r) \/ Accept(r) \/ Stop(r)
    \/ PrepareAudit(r) \/ Tear(r) \/ Remove(r)
    \/ Journal(r) \/ Finalize(r)

SetupGate ==
    /\ \/ FreeTerminal /\ SetupStart(Present = {}, FourThere)
       \/ SetupStep(Present = {}, FourFinal)
    /\ UNCHANGED campaignVars

CampaignStep ==
    /\ \/ QualifyCanary \/ QualifyMove
       \/ \E r \in Runs : RunStep(r)
       \/ \E d \in DOMAIN docs : OwnerEdit(d)
    /\ UNCHANGED setupVars

Next == CampaignStep \/ SetupGate

Spec == Init /\ [][Next]_vars

-----------------------------------------------------------------------------
\* Every variable has its type, and mutation is enabled in a process only
\* around its one call of the executor, however that call ends.
CampaignTypeOK ==
    /\ root \in {"none", "broad", "narrow", "closed"}
    /\ {assigned, saved} \subseteq BOOLEAN
    /\ plugin \in {"placeholder", "guarded", "deleting", "gone"}
    /\ step \in [Setups -> {"idle", "begun", "placed"}]
    /\ docs \in Documents
    /\ fixture \in [canary : Nat, source : Nat]
    /\ records \in [Runs -> {"none", "open", "committed", "torn", "removed"}]
    /\ accepted \in [Mutating -> Runs \cup {NoRun}]
    /\ gate \in [Runs -> Mutating \cup {"Y", "none"}]
    /\ pc \in [Runs -> {"idle", "ready", "previewed", "asked", "admitted",
                         "recorded", "changed", "applied", "pruning",
                         "tearing", "removed", "passed", "stopped"}]
    /\ plan \in [Runs -> Documents]
    /\ enabled \in [Runs -> BOOLEAN]
    /\ \A r \in Runs : enabled[r] =>
           pc[r] \in {"asked", "admitted", "recorded", "changed"}
    /\ audits \in [Runs -> Audit]
    /\ mutated \subseteq Runs
    /\ edits \in 0 .. MaxEdits

\* No gate changes its documents twice in the whole campaign, however often
\* and in how many terminals its script is started and whatever the others
\* left.  After R, and again after the cleanup, the bytes Q begins with are
\* back: only the quoted file identity stops a run of Q that still waits.  U
\* alone can repeat, when the owner deletes what it restored while a second
\* approved run of it is still waiting.
EachGateOnce ==
    \A p, q \in mutated :
        gate[p] = gate[q] /\ p # q => gate[p] = "U" /\ edits > 0

\* The run left a record and ended without PASS.
Unresolved(r) == pc[r] = "stopped" /\ records[r] \in {"open", "committed"}

\* A run that ended badly freezes the campaign: whoever was already waiting
\* for the human's answer does not get past the executor's gate any more, and
\* what the bad run left stays in place.  The exception is the one above, once
\* the owner deleted the source: a waiting U gets through, or, after it, an X.
FailureFreezes ==
    [][\A r \in Runs : Unresolved(r) =>
        /\ records'[r] = records[r]
        /\ \A q \in Runs : pc[q] = "asked" /\ pc'[q] = "admitted" =>
               edits > 0 /\ "U" \in {gate[q], gate[r]}]_vars

\* Whatever was changed can be accounted for: its record is whole, or a
\* durable audit lists every file of it.
EvidenceListed ==
    \A r \in mutated :
        \/ records[r] \in {"open", "committed"}
        \/ \E a \in Runs : r \in audits[a].listed

\* The removal journals tell partial cleanup from loss: nothing journaled is
\* still there, and at any crash at most one directory is gone or half gone
\* without an entry, also when two cleanups run at once.
AuditExact ==
    LET journaled == UNION {audits[a].removed : a \in Runs}
        touched == {r \in Runs : records[r] \in {"torn", "removed"}}
    IN /\ \A r \in journaled : records[r] = "removed"
       /\ Cardinality(touched \ journaled) <= 1

\* A committed audit closes the campaign: the recovery root it found empty
\* stays empty and no gate changes a document again, but for a run of U that
\* was admitted long before and finds its source deleted by the owner.
ClosedForGood ==
    [][(\E a \in Runs : audits[a].status = "committed") =>
          \A r \in Present' \cup (mutated' \ mutated) :
              gate[r] = "U" /\ edits > 0]_vars
=============================================================================
