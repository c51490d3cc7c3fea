-------------------------- MODULE VaultTransaction --------------------------
(***************************************************************************)
(* The production executor of the orion-vault-actions plugin:              *)
(* _execute_production_plan_candidate and the recovery inspection it rests *)
(* on.  A call takes a previewed plan, asks the human once, revalidates    *)
(* the plan and the recovery inventory, writes a durable recovery record   *)
(* (backup, manifest, receipt), runs the protected file primitive, checks  *)
(* it, and finalizes the manifest and then the receipt.                    *)
(*                                                                         *)
(* Every file-system call is a step of its own, so that two calls, another *)
(* program saving or deleting the same document, an exception and a crash  *)
(* of the process can fall between any two of them.  The platform is the   *)
(* production one, Windows: a delete or a move holds a handle that shares  *)
(* only READ, and an edit uses ReplaceFileW.                               *)
(*                                                                         *)
(* File contents are members of Data; a SHA-256 comparison is equality.    *)
(* The file-identity checks sit beside those comparisons and only refuse   *)
(* more, which the exception step covers.                                  *)
(***************************************************************************)
EXTENDS Naturals, FiniteSets

CONSTANTS
    Workers,    \* tool-handler threads that may run the executor at once
    Tokens,     \* plan tokens; each preview takes a fresh one
    Notes,      \* paths under the vault root
    Drafts,     \* paths under the inbox root
    Data,       \* complete file contents
    EditPaths,  \* the paths other programs may save or delete
    ScanLimit,  \* PRODUCTION_RECOVERY_SCAN_LIMIT
    Absent,     \* no file at the path
    Torn,       \* a file that was created but not completely written
    NoPlan, NoPath, NoToken, NoResult

Paths == Notes \cup Drafts
Content == Data \cup {Absent, Torn}

ASSUME ScanLimitAssumption == ScanLimit \in Nat
ASSUME WorkersAssumption == IsFiniteSet(Workers)
ASSUME PathAssumption ==
    /\ Notes \cap Drafts = {}
    /\ EditPaths \subseteq Paths
    /\ NoPath \notin Paths
    /\ NoToken \notin Tokens
ASSUME ContentAssumption == Absent # Torn /\ {Absent, Torn} \cap Data = {}

VARIABLES
    fs,         \* path -> content: the vault and the inbox
    temp,       \* token -> content of its temporary replacement file
    rec,        \* token -> its directory under the recovery root
    plan,       \* token -> the previewed plan it is the hash of
    cached,     \* tokens the in-memory preview cache still holds
    consumed,   \* _CANDIDATE_CONSUMED_PLANS
    pc,         \* worker -> where its call stands
    tok,        \* worker -> the plan token of its call
    made,       \* worker -> recovery_dir is set
    started,    \* worker -> mutation_started
    guard,      \* worker -> path its _WindowsSourceGuard holds
    marked,     \* worker -> the held file is marked for deletion
    result,     \* worker -> what its last call returned
    did,        \* history: the call changed a document
    touched     \* history: tokens whose protected step changed a document

callVars == <<pc, tok, made, started, guard, marked, result, did>>
vars == <<fs, temp, rec, plan, cached, consumed, callVars, touched>>

-----------------------------------------------------------------------------
(* Plans.                                                                  *)

Acts == {"edit_note", "delete_note", "move_draft", "restore_edit",
         "restore_move_source"}
Replaces == {"edit_note", "restore_edit"}
Guards == {"delete_note", "move_draft"}
Creates == {"move_draft", "restore_move_source"}

Plan == [act : Acts, note : Notes \cup {NoPath}, draft : Drafts \cup {NoPath},
         before : Data \cup {Absent}, after : Data \cup {Absent},
         origin : Tokens \cup {NoToken}]

ASSUME NoPlanAssumption == NoPlan \notin Plan

\* The path the protected step removes or overwrites.
Source(p) == IF p.act \in {"move_draft", "restore_move_source"}
             THEN p.draft ELSE p.note

\* The path an exclusive create writes.
Landing(p) == IF p.act = "move_draft" THEN p.note ELSE p.draft

\* The bytes kept in the record before anything is changed.
Evidence(p) == IF p.act = "restore_move_source" THEN p.after ELSE p.before

\* Mutant: a move is judged by its source alone.
UntouchedSourceOnly(p, f) ==
    /\ p.act \in Replaces \cup {"delete_note"} => f[p.note] = p.before
    /\ p.act = "move_draft" => f[p.draft] = p.before
    /\ p.act = "restore_move_source" => f[p.draft] = Absent

\* The documents are as the preview saw them.
Untouched(p, f) ==
    /\ p.act \in Replaces \cup {"delete_note"} => f[p.note] = p.before
    /\ p.act = "move_draft" => f[p.draft] = p.before /\ f[p.note] = Absent
    /\ p.act = "restore_move_source" => f[p.draft] = Absent

\* The documents are as the plan says they will be.
Applied(p, f) ==
    /\ p.act \in Replaces => f[p.note] = p.after
    /\ p.act = "delete_note" => f[p.note] = Absent
    /\ p.act = "move_draft" => f[p.draft] = Absent /\ f[p.note] = p.after
    /\ p.act = "restore_move_source" => f[p.draft] = p.after

Duplicated(p, f) ==
    p.act = "move_draft" /\ f[p.draft] = p.before /\ f[p.note] = p.before

-----------------------------------------------------------------------------
(* Recovery records and their read-only inspection.                        *)

NoRecord == [dir |-> FALSE, backup |-> Absent,
             manifest |-> "none", receipt |-> "none"]

Record == [dir : BOOLEAN, backup : Content,
           manifest : {"none", "prepared", "committed"},
           receipt : {"none", "torn", "prepared", "committed"}]

\* Mutant: the handle shares WRITE and DELETE.
OpenableAlways(x) == x \in Paths

\* A path no handle of this process holds for deletion: such a handle shares
\* only READ, so a plain open for reading fails too.
Openable(x) == \A w \in Workers : guard[w] # x

PlanPaths(p) == (IF p.act = "move_draft" THEN {p.note} ELSE {})
                \cup {Source(p)}

Inspectable(t) ==
    /\ rec[t].manifest # "none"
    /\ rec[t].backup = Evidence(plan[t])
    /\ \A x \in PlanPaths(plan[t]) : Openable(x)

Classify(t) ==
    CASE rec[t].manifest = "committed" /\ Applied(plan[t], fs) -> "committed"
      [] rec[t].manifest = "committed" /\ ~Applied(plan[t], fs) ->
            "committed_then_changed"
      [] rec[t].manifest # "committed" /\ Untouched(plan[t], fs) ->
            "prepared_no_effect"
      [] OTHER ->
            IF Duplicated(plan[t], fs) THEN "duplicate_unresolved"
            ELSE IF Applied(plan[t], fs) THEN "applied_unfinalized"
            ELSE "divergent_unresolved"

\* Mutant: the classification decides alone, as if the receipt were advisory.
NeedsAttentionByClass(t) ==
    \/ ~Inspectable(t)
    \/ Classify(t) \in {"applied_unfinalized", "duplicate_unresolved",
                        "divergent_unresolved"}

NeedsAttention(t) ==
    \/ ~Inspectable(t)
    \/ rec[t].receipt # "committed"
    \/ Classify(t) \in {"applied_unfinalized", "duplicate_unresolved",
                        "divergent_unresolved"}

Records == {t \in Tokens : rec[t].dir}

\* Mutant: a truncated scan counts as clear.
InventoryTruncated == \A t \in Records : ~NeedsAttention(t)

\* The scan stops, truncated, when it meets one entry more than its limit.
InventoryClear ==
    /\ Cardinality(Records) <= ScanLimit
    /\ \A t \in Records : ~NeedsAttention(t)

-----------------------------------------------------------------------------
Init ==
    /\ fs \in [Paths -> Data \cup {Absent}]
    /\ temp = [t \in Tokens |-> Absent]
    /\ rec = [t \in Tokens |-> NoRecord]
    /\ plan = [t \in Tokens |-> NoPlan]
    /\ cached = {}
    /\ consumed = {}
    /\ pc = [w \in Workers |-> "idle"]
    /\ tok = [w \in Workers |-> NoToken]
    /\ made = [w \in Workers |-> FALSE]
    /\ started = [w \in Workers |-> FALSE]
    /\ guard = [w \in Workers |-> NoPath]
    /\ marked = [w \in Workers |-> FALSE]
    /\ result = [w \in Workers |-> NoResult]
    /\ did = [w \in Workers |-> FALSE]
    /\ touched = {}

-----------------------------------------------------------------------------
(* Previews: they read the documents and remember a plan, nothing else.    *)

Remember(t, p) ==
    /\ plan[t] = NoPlan
    /\ plan' = [plan EXCEPT ![t] = p]
    /\ cached' = cached \cup {t}
    /\ UNCHANGED <<fs, temp, rec, consumed, callVars, touched>>

PreviewEdit(t) == \E n \in Notes, d \in Data :
    /\ Openable(n) /\ fs[n] \in Data
    /\ Remember(t, [act |-> "edit_note", note |-> n, draft |-> NoPath,
                    before |-> fs[n], after |-> d, origin |-> NoToken])

PreviewDelete(t) == \E n \in Notes :
    /\ Openable(n) /\ fs[n] \in Data
    /\ Remember(t, [act |-> "delete_note", note |-> n, draft |-> NoPath,
                    before |-> fs[n], after |-> Absent, origin |-> NoToken])

PreviewMove(t) == \E n \in Notes, d \in Drafts :
    /\ Openable(d) /\ fs[d] \in Data /\ fs[n] = Absent
    /\ Remember(t, [act |-> "move_draft", note |-> n, draft |-> d,
                    before |-> fs[d], after |-> fs[d], origin |-> NoToken])

\* A restore is previewed from a record whose manifest is committed, whatever
\* happened to the document since.
PreviewRestore(t) == \E o \in Tokens :
    /\ rec[o].manifest = "committed" /\ Inspectable(o)
    /\ \/ /\ plan[o].act \in Replaces
          /\ fs[plan[o].note] \in Data
          /\ Remember(t, [act |-> "restore_edit", note |-> plan[o].note,
                          draft |-> NoPath, before |-> fs[plan[o].note],
                          after |-> rec[o].backup, origin |-> o])
       \/ /\ plan[o].act = "move_draft"
          /\ fs[plan[o].draft] = Absent
          /\ Remember(t, [act |-> "restore_move_source", note |-> NoPath,
                          draft |-> plan[o].draft, before |-> Absent,
                          after |-> rec[o].backup, origin |-> o])

\* The 600 s limit or the eviction of the oldest of 32 drops a plan.
Forget(t) ==
    /\ t \in cached
    /\ cached' = cached \ {t}
    /\ UNCHANGED <<fs, temp, rec, plan, consumed, callVars, touched>>

-----------------------------------------------------------------------------
(* One call of the executor.                                               *)

Goto(w, l) == pc' = [pc EXCEPT ![w] = l]

\* The call returns success=False and lets go of its handle (unmarked here).
Leave(w, mutated, recovery) ==
    /\ Goto(w, "idle")
    /\ result' = [result EXCEPT ![w] = [success |-> FALSE,
                      mutated |-> mutated, recovery |-> recovery]]
    /\ guard' = [guard EXCEPT ![w] = NoPath]
    /\ UNCHANGED <<tok, made, started, marked, did>>

Refuse(w) == Leave(w, FALSE, FALSE)

PlanOf(w) == plan[tok[w]]

\* No other worker's handle keeps w from opening x.
Free(w, x) == \A u \in Workers \ {w} : guard[u] # x

\* What a step does to no document, record, plan or cache.
OnlyCall == UNCHANGED <<fs, temp, rec, plan, cached, consumed, touched>>

Advance(w, l) ==
    /\ Goto(w, l)
    /\ UNCHANGED <<tok, made, started, guard, marked, result, did>>

\* One file of the call's recovery record is written.
Write(w, r, l) ==
    /\ rec' = [rec EXCEPT ![tok[w]] = r]
    /\ Advance(w, l)
    /\ UNCHANGED <<fs, temp, plan, cached, consumed, touched>>

Rec(w) == rec[tok[w]]

\* The call changes the document x, under Orion's hand.
Put(w, x, c) ==
    /\ fs' = [fs EXCEPT ![x] = c]
    /\ did' = [did EXCEPT ![w] = TRUE]
    /\ touched' = touched \cup {tok[w]}

Admits(t) == InventoryClear /\ t \in cached /\ t \notin consumed

\* The gate before the human is asked: preflight inventory, a live plan that
\* was not consumed.
Call(w, t) ==
    /\ pc[w] = "idle"
    /\ tok' = [tok EXCEPT ![w] = t]
    /\ made' = [made EXCEPT ![w] = FALSE]
    /\ started' = [started EXCEPT ![w] = FALSE]
    /\ did' = [did EXCEPT ![w] = FALSE]
    /\ \/ /\ Admits(t)
          /\ Goto(w, "approve")
          /\ result' = [result EXCEPT ![w] = NoResult]
       \/ /\ ~Admits(t)
          /\ result' = [result EXCEPT ![w] = [success |-> FALSE,
                            mutated |-> FALSE, recovery |-> FALSE]]
          /\ UNCHANGED pc
    /\ UNCHANGED <<guard, marked>>
    /\ OnlyCall

\* The blocking Hermes request answers: one matching human "once", or not.
Approve(w) ==
    /\ pc[w] = "approve"
    /\ \/ Advance(w, "revalidate")
       \/ Refuse(w)
    /\ OnlyCall

\* The origin of a restore is still a committed record with its backup.
OriginValid(q) ==
    q.act \in {"restore_edit", "restore_move_source"} =>
        /\ rec[q.origin].manifest = "committed"
        /\ Inspectable(q.origin)
        /\ rec[q.origin].backup = q.after

\* After the human decision: the plan is still cached and not stale.
Revalidate(w) ==
    /\ pc[w] = "revalidate"
    /\ IF /\ tok[w] \in cached
          /\ \A x \in PlanPaths(PlanOf(w)) : Openable(x)
          /\ Untouched(PlanOf(w), fs)
          /\ OriginValid(PlanOf(w))
       THEN Advance(w, "inventory")
       ELSE Refuse(w)
    /\ OnlyCall

\* The recovery inventory, once more after the human decision.
Inventory(w) ==
    /\ pc[w] = "inventory"
    /\ IF InventoryClear THEN Advance(w, "open") ELSE Refuse(w)
    /\ OnlyCall

\* Read the approved object, or take the handle that pins it.
Open(w) ==
    /\ pc[w] = "open"
    /\ LET q == PlanOf(w) IN
       IF Untouched(q, fs) /\ Free(w, Source(q))
       THEN /\ Goto(w, "mkdir")
            /\ guard' = [guard EXCEPT ![w] =
                             IF q.act \in Guards THEN Source(q) ELSE NoPath]
            /\ UNCHANGED <<tok, made, started, marked, result, did>>
       ELSE Refuse(w)
    /\ OnlyCall

\* Mutant: mkdir(exist_ok=True).
MakeDirExistOk(w) ==
    /\ pc[w] = "mkdir"
    /\ rec' = [rec EXCEPT ![tok[w]].dir = TRUE]
    /\ Goto(w, "backup")
    /\ made' = [made EXCEPT ![w] = TRUE]
    /\ UNCHANGED <<tok, started, guard, marked, result, did>>
    /\ UNCHANGED <<fs, temp, plan, cached, consumed, touched>>

\* mkdir is exclusive: an existing directory raises FileExistsError, which the
\* handler reports with recovery_dir still unset.
MakeDir(w) ==
    /\ pc[w] = "mkdir"
    /\ \/ /\ ~Rec(w).dir
          /\ rec' = [rec EXCEPT ![tok[w]].dir = TRUE]
          /\ Goto(w, "backup")
          /\ made' = [made EXCEPT ![w] = TRUE]
          /\ UNCHANGED <<tok, started, guard, marked, result, did>>
       \/ /\ Rec(w).dir
          /\ Refuse(w)
          /\ UNCHANGED rec
    /\ UNCHANGED <<fs, temp, plan, cached, consumed, touched>>

\* open("xb"), then write and fsync.
WriteBackup(w) ==
    \/ /\ pc[w] = "backup"
       /\ Write(w, [Rec(w) EXCEPT !.backup = Torn], "fill_backup")
    \/ /\ pc[w] = "fill_backup"
       /\ Write(w, [Rec(w) EXCEPT !.backup = Evidence(PlanOf(w))], "manifest")

\* Mutant: the receipt is left for later.
PrepareManifestOnly(w) ==
    /\ pc[w] = "manifest"
    /\ Write(w, [Rec(w) EXCEPT !.manifest = "prepared"], "consume")

\* Written beside and moved into place: never seen half written.
PrepareManifest(w) ==
    /\ pc[w] = "manifest"
    /\ Write(w, [Rec(w) EXCEPT !.manifest = "prepared"], "receipt")

PrepareReceipt(w) ==
    \/ /\ pc[w] = "receipt"
       /\ Write(w, [Rec(w) EXCEPT !.receipt = "torn"], "fill_receipt")
    \/ /\ pc[w] = "fill_receipt"
       /\ Write(w, [Rec(w) EXCEPT !.receipt = "prepared"], "consume")

\* Mutant: a delete is routed to a step that does not exist.
BranchUnknown(q) == CASE q.act \in Replaces -> "temp"
                      [] q.act = "delete_note" -> "unlink"
                      [] q.act = "move_draft" -> "absent"
                      [] OTHER -> "create"

Branch(q) == CASE q.act \in Replaces -> "temp"
               [] q.act = "delete_note" -> "recheck"
               [] q.act = "move_draft" -> "absent"
               [] OTHER -> "create"

Consume(w) ==
    /\ pc[w] = "consume"
    /\ IF tok[w] \in consumed
       THEN Refuse(w)
       ELSE /\ Goto(w, Branch(PlanOf(w)))
            /\ started' = [started EXCEPT ![w] =
                               PlanOf(w).act = "restore_move_source"]
            /\ UNCHANGED <<tok, made, guard, marked, result, did>>
    /\ consumed' = consumed \cup {tok[w]}
    /\ UNCHANGED <<fs, temp, rec, plan, cached, touched>>

-----------------------------------------------------------------------------
(* edit_note and restore_edit: temporary file, last check, ReplaceFileW.   *)

\* Mutant: the finally clause is missing and the replacement is a copy.
DropTempForgotten(w) == temp' = [temp EXCEPT ![tok[w]] = temp[tok[w]]]

DropTemp(w) == temp' = [temp EXCEPT ![tok[w]] = Absent]

WriteTemp(w) ==
    /\ \/ /\ pc[w] = "temp"
          /\ temp' = [temp EXCEPT ![tok[w]] = Torn]
          /\ Advance(w, "fill_temp")
       \/ /\ pc[w] = "fill_temp"
          /\ temp' = [temp EXCEPT ![tok[w]] = PlanOf(w).after]
          /\ Advance(w, "check")
    /\ UNCHANGED <<fs, rec, plan, cached, consumed, touched>>

\* The last look at the note before it is replaced; on drift the finally
\* clause unlinks the temporary file.
Check(w) ==
    /\ pc[w] = "check"
    /\ Free(w, PlanOf(w).note)
    /\ \/ /\ fs[PlanOf(w).note] = PlanOf(w).before
          /\ Goto(w, "replace")
          /\ started' = [started EXCEPT ![w] = TRUE]
          /\ UNCHANGED <<temp, tok, made, guard, marked, result, did>>
       \/ /\ fs[PlanOf(w).note] # PlanOf(w).before
          /\ DropTemp(w)
          /\ Leave(w, FALSE, TRUE)
    /\ UNCHANGED <<fs, rec, plan, cached, consumed, touched>>

\* ReplaceFileW without a backup name.  One of its failures leaves the note
\* gone and only the temporary file, which the finally clause then unlinks.
Replace(w) ==
    /\ pc[w] = "replace"
    /\ Free(w, PlanOf(w).note)
    /\ fs[PlanOf(w).note] # Absent
    /\ \/ /\ Put(w, PlanOf(w).note, temp[tok[w]])
          /\ DropTemp(w)
          /\ Goto(w, "verify")
       \/ /\ Put(w, PlanOf(w).note, Absent)
          /\ Goto(w, "raise")
          /\ UNCHANGED temp
    /\ UNCHANGED <<rec, plan, cached, consumed, tok, made, started, guard,
                   marked, result>>

-----------------------------------------------------------------------------
(* move_draft and restore_move_source: exclusive create.                   *)

\* A move looks once more whether its target is still absent.
CheckAbsent(w) ==
    /\ pc[w] = "absent"
    /\ IF fs[PlanOf(w).note] = Absent
       THEN /\ Goto(w, "create")
            /\ started' = [started EXCEPT ![w] = TRUE]
            /\ UNCHANGED <<tok, made, guard, marked, result, did>>
       ELSE Leave(w, FALSE, TRUE)
    /\ OnlyCall

\* open("xb"): FileExistsError means another writer won the path.
Create(w) ==
    /\ pc[w] = "create"
    /\ LET x == Landing(PlanOf(w)) IN
       \/ /\ fs[x] = Absent
          /\ Put(w, x, Torn)
          /\ Goto(w, "fill")
          /\ UNCHANGED <<tok, made, started, guard, marked, result>>
       \/ /\ fs[x] # Absent
          /\ Leave(w, FALSE, TRUE)
          /\ UNCHANGED <<fs, touched>>
    /\ UNCHANGED <<temp, rec, plan, cached, consumed>>

\* write and fsync through the handle of the create; another program that
\* wrote the path meanwhile leaves a mixture.
Fill(w) ==
    /\ pc[w] = "fill"
    /\ LET x == Landing(PlanOf(w)) IN
       Put(w, x, IF fs[x] = Torn THEN PlanOf(w).after ELSE Torn)
    /\ Goto(w, IF PlanOf(w).act = "move_draft" THEN "landed" ELSE "verify")
    /\ UNCHANGED <<temp, rec, plan, cached, consumed, tok, made, started,
                   guard, marked, result>>

\* The moved bytes are on the target before the source is given up.
CheckLanded(w) ==
    /\ pc[w] = "landed"
    /\ Free(w, PlanOf(w).note)
    /\ IF fs[PlanOf(w).note] = PlanOf(w).after
       THEN Advance(w, "recheck")
       ELSE Leave(w, TRUE, TRUE)
    /\ OnlyCall

-----------------------------------------------------------------------------
(* delete_note and move_draft: the held source is re-read and deleted.     *)

Recheck(w) ==
    /\ pc[w] = "recheck"
    /\ IF fs[Source(PlanOf(w))] = PlanOf(w).before
       THEN /\ Goto(w, "mark")
            /\ started' = [started EXCEPT ![w] = TRUE]
            /\ UNCHANGED <<tok, made, guard, marked, result, did>>
       ELSE Leave(w, started[w], TRUE)
    /\ OnlyCall

MarkDelete(w) ==
    /\ pc[w] = "mark"
    /\ Goto(w, "close")
    /\ marked' = [marked EXCEPT ![w] = TRUE]
    /\ UNCHANGED <<tok, made, started, guard, result, did>>
    /\ OnlyCall

\* Closing the handle is what deletes the file.
CloseHandle(w) ==
    /\ pc[w] = "close"
    /\ Put(w, guard[w], Absent)
    /\ Goto(w, "verify")
    /\ guard' = [guard EXCEPT ![w] = NoPath]
    /\ marked' = [marked EXCEPT ![w] = FALSE]
    /\ UNCHANGED <<temp, rec, plan, cached, consumed, tok, made, started, result>>

-----------------------------------------------------------------------------
(* Postcondition, manifest, receipt.                                       *)

\* Mutant: the receipt is finalized first.
VerifyThenReceipt(w) ==
    /\ pc[w] = "verify"
    /\ IF Applied(PlanOf(w), fs)
       THEN Advance(w, "commit_receipt")
       ELSE Leave(w, TRUE, TRUE)
    /\ OnlyCall

Verify(w) ==
    /\ pc[w] = "verify"
    /\ \A x \in PlanPaths(PlanOf(w)) : Free(w, x)
    /\ IF Applied(PlanOf(w), fs)
       THEN Advance(w, "commit_manifest")
       ELSE Leave(w, TRUE, TRUE)
    /\ OnlyCall

CommitManifest(w) ==
    /\ pc[w] = "commit_manifest"
    /\ Write(w, [Rec(w) EXCEPT !.manifest = "committed"], "commit_receipt")

\* A receipt that is not prepared raises instead (Fail).
CommitReceipt(w) ==
    /\ pc[w] = "commit_receipt"
    /\ Rec(w).receipt = "prepared"
    /\ rec' = [rec EXCEPT ![tok[w]].receipt = "committed"]
    /\ Goto(w, "idle")
    /\ result' = [result EXCEPT ![w] = [success |-> TRUE, mutated |-> TRUE,
                                        recovery |-> FALSE]]
    /\ UNCHANGED <<fs, temp, plan, cached, consumed, tok, made, started, guard,
                   marked, did, touched>>

-----------------------------------------------------------------------------
(* Exceptions, crashes, other programs.                                    *)

\* Mutant: a failed ReplaceFileW is not handled.
ProtectedNoRaise ==
    {"open", "mkdir", "backup", "fill_backup", "manifest", "receipt",
     "fill_receipt", "consume", "temp", "fill_temp", "check", "replace",
     "absent", "create", "fill", "landed", "recheck", "mark", "close", "verify",
     "commit_manifest", "commit_receipt"}

Protected == {"open", "mkdir", "backup", "fill_backup", "manifest", "receipt",
              "fill_receipt", "consume", "temp", "fill_temp", "check",
              "replace", "raise", "absent", "create", "fill", "landed",
              "recheck", "mark", "close", "verify", "commit_manifest",
              "commit_receipt"}

\* Mutant: only a started mutation asks for recovery.
RecoveryIfStarted(w) == started[w]

RecoveryRequired(w) == made[w] \/ started[w]

\* Where the temporary file of this call is there.
HasTemp == {"fill_temp", "check", "replace", "raise"}

\* Any call inside the try block may raise.  The handler closes the handle,
\* which deletes a marked file; the finally clause of an edit unlinks its
\* temporary file unless that unlink is what failed.
Fail(w) ==
    /\ pc[w] \in Protected
    /\ IF marked[w]
       THEN Put(w, guard[w], Absent)
       ELSE UNCHANGED <<fs, did, touched>>
    /\ \/ pc[w] \in HasTemp /\ DropTemp(w)
       \/ UNCHANGED temp
    /\ Goto(w, "idle")
    /\ result' = [result EXCEPT ![w] = [success |-> FALSE,
                      mutated |-> started[w], recovery |-> RecoveryRequired(w)]]
    /\ guard' = [guard EXCEPT ![w] = NoPath]
    /\ marked' = [marked EXCEPT ![w] = FALSE]
    /\ UNCHANGED <<rec, plan, cached, consumed, tok, made, started>>

\* The process dies and comes back: its memory is gone, its handles close.
Crash ==
    LET Doomed == {w \in Workers : marked[w]} IN
    /\ fs' = [x \in Paths |-> IF \E w \in Doomed : guard[w] = x
                              THEN Absent ELSE fs[x]]
    /\ touched' = touched \cup {tok[w] : w \in Doomed}
    /\ cached' = {}
    /\ consumed' = {}
    /\ pc' = [w \in Workers |-> "idle"]
    /\ tok' = [w \in Workers |-> NoToken]
    /\ made' = [w \in Workers |-> FALSE]
    /\ started' = [w \in Workers |-> FALSE]
    /\ guard' = [w \in Workers |-> NoPath]
    /\ marked' = [w \in Workers |-> FALSE]
    /\ result' = [w \in Workers |-> NoResult]
    /\ did' = [w \in Workers |-> FALSE]
    /\ UNCHANGED <<temp, rec, plan>>

\* Another program saves a file no handle pins.
Save(x, d) ==
    /\ Openable(x)
    /\ fs[x] # d
    /\ fs' = [fs EXCEPT ![x] = d]
    /\ UNCHANGED <<temp, rec, plan, cached, consumed, callVars, touched>>

\* ... or deletes it; a file being created is open without delete sharing.
Remove(x) ==
    /\ Openable(x)
    /\ fs[x] # Absent
    /\ \A w \in Workers : pc[w] = "fill" => Landing(PlanOf(w)) # x
    /\ fs' = [fs EXCEPT ![x] = Absent]
    /\ UNCHANGED <<temp, rec, plan, cached, consumed, callVars, touched>>

-----------------------------------------------------------------------------
Step(w) ==
    \/ Approve(w) \/ Revalidate(w) \/ Inventory(w) \/ Open(w) \/ MakeDir(w)
    \/ WriteBackup(w) \/ PrepareManifest(w) \/ PrepareReceipt(w) \/ Consume(w)
    \/ WriteTemp(w) \/ Check(w) \/ Replace(w)
    \/ CheckAbsent(w) \/ Create(w) \/ Fill(w) \/ CheckLanded(w)
    \/ Recheck(w) \/ MarkDelete(w) \/ CloseHandle(w)
    \/ Verify(w) \/ CommitManifest(w) \/ CommitReceipt(w) \/ Fail(w)

Preview(t) == PreviewEdit(t) \/ PreviewDelete(t) \/ PreviewMove(t)
              \/ PreviewRestore(t)

Next ==
    \/ \E t \in Tokens : Preview(t) \/ Forget(t)
    \/ \E w \in Workers : Step(w) \/ \E t \in Tokens : Call(w, t)
    \/ Crash
    \/ \E x \in EditPaths : Remove(x) \/ \E d \in Data : Save(x, d)

Spec == Init /\ [][Next]_vars

FairSpec == Spec /\ \A w \in Workers : WF_vars(Step(w))

-----------------------------------------------------------------------------
(* Properties.                                                             *)

Outcome == [success : BOOLEAN, mutated : BOOLEAN, recovery : BOOLEAN]

Places == Protected \cup {"idle", "approve", "revalidate", "inventory"}

\* What survives the call: files, records, plans.
DiskTypeOK ==
    /\ fs \in [Paths -> Content]
    /\ temp \in [Tokens -> Content]
    /\ rec \in [Tokens -> Record]
    /\ plan \in [Tokens -> Plan \cup {NoPlan}]
    /\ cached \subseteq Tokens
    /\ consumed \subseteq Tokens
    /\ touched \subseteq Tokens

\* What the calls keep.
CallTypeOK ==
    /\ pc \in [Workers -> Places]
    /\ tok \in [Workers -> Tokens \cup {NoToken}]
    /\ made \in [Workers -> BOOLEAN]
    /\ started \in [Workers -> BOOLEAN]
    /\ guard \in [Workers -> Paths \cup {NoPath}]
    /\ marked \in [Workers -> BOOLEAN]
    /\ result \in [Workers -> Outcome \cup {NoResult}]
    /\ did \in [Workers -> BOOLEAN]

\* Every variable of the executor keeps its type.
TypeOK == DiskTypeOK /\ CallTypeOK

\* A transaction that changed a document has, at every later moment and after
\* any crash, its complete backup, a manifest and a whole receipt on disk: the
\* durable preparation precedes the protected step in all five branches.
WriteAhead == \A t \in touched :
    /\ rec[t].backup = Evidence(plan[t])
    /\ rec[t].manifest \in {"prepared", "committed"}
    /\ rec[t].receipt \in {"prepared", "committed"}

\* A receipt says committed only of a record whose manifest does, so a crash
\* between the two never leaves a final receipt over an open manifest.
ReceiptLast == \A t \in Tokens :
    rec[t].receipt = "committed" => rec[t].manifest = "committed"

\* What a call returns is what it did: a changed document is reported as
\* mutated, success means both records are final, and a call that made a
\* recovery record and did not finish reports recovery_required.
ReportsHonestly == \A w \in Workers : result[w] # NoResult =>
    /\ did[w] => result[w].mutated
    /\ result[w].success =>
           did[w] /\ rec[tok[w]].manifest = "committed"
                  /\ rec[tok[w]].receipt = "committed"
    /\ made[w] /\ ~result[w].success => result[w].recovery

\* A temporary file with proposed bytes that outlives its call lies beside a
\* record the inventory flags, never beside a finished one.
StrayTempFlagged == \A t \in Tokens :
    temp[t] # Absent => rec[t].dir /\ rec[t].receipt # "committed"

\* The scan limit is reached, not passed: calls that were admitted together
\* can each add one record to a full directory, nothing more.
RecordsBounded == Cardinality(Records) <= ScanLimit + Cardinality(Workers)

\* A recovery record whose call is over (it failed or its process died) and
\* whose receipt is not final.
Orphan(t) ==
    /\ rec[t].dir
    /\ rec[t].receipt # "committed"
    /\ \A w \in Workers : ~(tok[w] = t /\ made[w] /\ pc[w] # "idle")

\* An edit to the bytes already there; nothing refuses one.
NoOp(q) == q.act \in Replaces /\ q.before = q.after

\* While nothing else writes the documents, the inspection of a record left
\* behind tells whether its protected step took effect.
DiagnosisExact == \A t \in Tokens :
    Orphan(t) /\ Inspectable(t) /\ ~NoOp(plan[t]) =>
        /\ Classify(t) = "prepared_no_effect" => t \notin touched
        /\ Classify(t) \in {"applied_unfinalized", "duplicate_unresolved"} =>
               t \in touched

\* Bytes another program saved where no handle keeps it out: after the last
\* check of an edit, or into the file a create has open.
Unseen(x) == \E w \in Workers :
    \/ pc[w] = "replace" /\ x = PlanOf(w).note /\ fs[x] # PlanOf(w).before
    \/ pc[w] = "fill" /\ x = Landing(PlanOf(w)) /\ fs[x] # Torn

\* No step of the executor, no exception handler and no crash takes complete
\* bytes out of a document unless a recovery record of that document has them
\* (the two unprotected windows aside).
NothingLost == [][pc' # pc => \A x \in Paths :
    fs[x] \in Data /\ fs'[x] # fs[x] /\ ~Unseen(x) =>
        \E t \in Tokens : rec[t].backup = fs[x] /\ x \in PlanPaths(plan[t])]_vars

\* An unresolved record whose call is over is evidence no later call adopts
\* or rewrites, not even one for the same plan that was admitted beside it.
OrphansFrozen ==
    [][\A t \in Tokens : Orphan(t) => Orphan(t)' /\ rec'[t] = rec[t]]_vars

\* No protected step starts while another transaction is unresolved.
NeverLayered == [][\A w \in Workers : ~did[w] /\ did'[w] =>
    \A t \in Records \ {tok[w]} : rec[t].receipt = "committed"]_vars

\* Every call comes back to its caller.
CallReturns == \A w \in Workers : pc[w] # "idle" ~> pc[w] = "idle"

\* No more transactions are unresolved at once than calls can run at once:
\* the inventory lets a call start only over a directory with none.
UnresolvedBounded ==
    Cardinality({t \in Records : rec[t].receipt # "committed"})
        <= Cardinality(Workers)

-----------------------------------------------------------------------------
(* The executor implements the ledger: evidence, one change, final record. *)

Stage(t) == IF rec[t].receipt = "committed" THEN "final"
            ELSE IF t \in touched THEN "applied"
            ELSE IF rec[t].receipt = "prepared" THEN "prepared" ELSE "open"

Ledger == INSTANCE TransactionLedger
              WITH stage <- [t \in Tokens |-> Stage(t)]

\* Every step of every call, exception handler and crash is a step of the
\* ledger or leaves all its stages alone.
ImplementsLedger == Ledger!Spec
=============================================================================
