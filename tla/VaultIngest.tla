----------------------------- MODULE VaultIngest -----------------------------
(***************************************************************************)
(* scripts/dc02: the operator-run ingestion of the Markdown vault into the *)
(* native iai store (`--apply`).  A run takes a non-blocking lock, reads   *)
(* its three records (checkpoint, journal, owner), snapshots the vault,    *)
(* freezes what it will study, journals every document it may touch, has   *)
(* iai study or fade them one by one in an exclusively opened store, and   *)
(* commits a new checkpoint.                                               *)
(*                                                                         *)
(* A run may stop at any point: a refused check, an I/O error, an          *)
(* exception of iai and a crash all end it (Fail, ApplyFails).  The vault  *)
(* is edited all the time.  The store file may be replaced, but not        *)
(* between the identity check before the store is opened and its close,    *)
(* which the code declares unsupported.                                    *)
(*                                                                         *)
(* A version of a note is its bytes and its modification time.  A digest   *)
(* stands for what it digests.  A plan-only run writes nothing and takes   *)
(* no lock; it is left out.                                                *)
(***************************************************************************)
EXTENDS Naturals, FiniteSets

CONSTANTS
    Runs,       \* invocations of the script
    Notes,      \* paths of Markdown notes
    Tags,       \* document tags of the store
    TagOf(_),   \* iai's _doc_tag
    Texts,      \* contents
    Stamps,     \* modification times
    Stores,     \* identities of the file brain.sqlite3
    Ids,        \* checkpoint ids
    EmptyId,    \* the id that stands for "no checkpoint yet"
    Torn,       \* a document an interrupted study left
    None        \* no record, no note, no document

ASSUME TagAssumption == \A n \in Notes : TagOf(n) \in Tags
ASSUME EmptyIdAssumption == EmptyId \in Ids

Version == [text : Texts, mtime : Stamps]

ASSUME NoneAssumption ==
    /\ None \notin Version \cup Texts \cup {Torn} \cup Stores \cup Runs
    /\ Torn \notin Texts

VARIABLES
    vault,      \* note -> version or None
    db,         \* identity of the store file in place
    store,      \* store file -> tag -> what iai holds
    state,      \* the checkpoint record or None
    pending,    \* the journal record or None
    owner,      \* the owner record: a store identity or None
    lock,       \* the run that holds the apply lock, or None
    pc,         \* run -> where it stands
    run         \* run -> its local variables

disk == <<store, state, pending, owner>>
vars == <<vault, db, disk, lock, pc, run>>

Files == [Notes -> Version \cup {None}]
NoFiles == [n \in Notes |-> None]

StateRecord == [id : Ids, files : Files, db : Stores]

Journal == [base : Ids, target : Ids, baseFiles : Files, targetFiles : Files,
            paths : SUBSET Notes, db : Stores]

\* A record on disk is told from a missing one.
ASSUME RecordAssumption == None \notin StateRecord \cup Journal

Present(files) == {n \in Notes : files[n] # None}
TagsOf(S) == {TagOf(n) : n \in S}

\* The checkpoint in force: a missing one is the empty one.
Checkpoint == IF state = None THEN [id |-> EmptyId, files |-> NoFiles]
              ELSE [id |-> state.id, files |-> state.files]

NoRun == [db |-> None, base |-> [id |-> EmptyId, files |-> NoFiles],
          owned |-> FALSE, notes |-> NoFiles, studied |-> {}, faded |-> {},
          left |-> {}, target |-> EmptyId]

Init ==
    /\ vault \in Files
    /\ db \in Stores
    /\ store = [d \in Stores |-> [t \in Tags |-> None]]
    /\ state = None
    /\ pending = None
    /\ owner = None
    /\ lock = None
    /\ pc = [r \in Runs |-> "idle"]
    /\ run = [r \in Runs |-> NoRun]

-----------------------------------------------------------------------------
(* The end of a run.                                                       *)

Goto(r, l) == pc' = [pc EXCEPT ![r] = l]

\* The finally clause: staged copies and lock go, whatever happened.
End(r) ==
    /\ Goto(r, "idle")
    /\ run' = [run EXCEPT ![r] = NoRun]
    /\ lock' = IF lock = r THEN None ELSE lock

\* Any AdapterError, and any crash, while the store is not open.
Fail(r) ==
    /\ pc[r] \notin {"idle", "apply"}
    /\ End(r)
    /\ UNCHANGED <<vault, db, disk>>

\* A study or the close raises, or reports a partial result, or the process
\* dies: iai may have kept any part of what the run asked of it.
ApplyFails(r) ==
    /\ pc[r] = "apply"
    /\ \E S \in SUBSET TagsOf(run[r].studied \cup run[r].faded) :
          store' = [store EXCEPT ![db] =
              [t \in Tags |-> IF t \in S THEN Torn ELSE store[db][t]]]
    /\ End(r)
    /\ UNCHANGED <<vault, db, state, pending, owner>>

-----------------------------------------------------------------------------
(* Reading.                                                                *)

\* Mutant: the run does not wait for the lock, and does not heed it either.
LockIgnored(r) == lock' = r

\* acquire_apply_lock does not wait: a run that finds it held is over.
TakeLock(r) == lock = None /\ lock' = r

\* Mutant: the run goes on without the identity of the store file.
IdentifyNothing(r) == UNCHANGED run

\* semantic_db_identity
Identify(r) == run' = [run EXCEPT ![r].db = db]

Start(r) ==
    /\ pc[r] = "idle"
    /\ TakeLock(r)
    /\ Identify(r)
    /\ Goto(r, "load")
    /\ UNCHANGED <<vault, db, disk>>

\* load_state and load_owner: the records are about this very store file, and
\* an owned store has a checkpoint or a journal.
RecordsFit(d) ==
    /\ state # None => state.db = d
    /\ owner # None => owner = d
    /\ owner # None => state # None \/ pending # None

Load(r) ==
    /\ pc[r] = "load"
    /\ RecordsFit(run[r].db)
    /\ run' = [run EXCEPT ![r].base = Checkpoint, ![r].owned = owner # None,
                          ![r].left = Notes]
    /\ Goto(r, "scan")
    /\ UNCHANGED <<vault, db, disk, lock>>

\* The walk meets each note at its own time.
ReadNote(r, n) ==
    /\ pc[r] = "scan" /\ n \in run[r].left
    /\ run' = [run EXCEPT ![r].notes[n] = vault[n], ![r].left = @ \ {n}]
    /\ UNCHANGED <<vault, db, disk, lock, pc>>

-----------------------------------------------------------------------------
(* Planning.                                                               *)

\* Mutant: only the notes of the vault are compared with each other.
OneOwnerNow(files, S) ==
    \A m, n \in Present(files) : TagOf(m) = TagOf(n) => m = n

\* No tag belongs to two notes, of the vault or of the set S.
OneOwner(files, S) ==
    \A m \in Present(files) \cup S, n \in Present(files) :
        TagOf(m) = TagOf(n) => m = n

\* Mutant: a journal that is there is taken for completed.
CompletedIfThere(r) == pending # None /\ pending.db = run[r].db

\* load_pending: the journal's run reached its checkpoint.
Completed(r) ==
    /\ pending # None
    /\ pending.db = run[r].db
    /\ run[r].base.id = pending.target
    /\ run[r].base.files = pending.targetFiles

\* load_pending: the journal's run stopped before its checkpoint.
Active(r) ==
    /\ pending # None
    /\ pending.db = run[r].db
    /\ run[r].base.id = pending.base
    /\ run[r].base.files = pending.baseFiles
    /\ OneOwner(run[r].notes, pending.paths)

\* build_plan goes by bytes.
NewOrChanged(r) ==
    {n \in Present(run[r].notes) :
        \/ run[r].base.files[n] = None
        \/ run[r].base.files[n].text # run[r].notes[n].text}

Deleted(r) == Present(run[r].base.files) \ Present(run[r].notes)

\* Mutant: a journaled document is studied again only if its note changed.
ReconcileByBytes(r, journaled) ==
    [studied |-> NewOrChanged(r),
     faded |-> Deleted(r) \cup (journaled \ Present(run[r].notes))]

\* reconcile_active_pending: whatever the journal names is done again.
Reconcile(r, journaled) ==
    [studied |-> NewOrChanged(r) \cup (journaled \cap Present(run[r].notes)),
     faded |-> Deleted(r) \cup (journaled \ Present(run[r].notes))]

Decide(r, journaled) ==
    LET plan == Reconcile(r, journaled)
        touched == plan.studied \cup plan.faded
    IN  /\ run' = [run EXCEPT ![r].studied = plan.studied,
                              ![r].faded = plan.faded,
                              ![r].left = touched,
                              ![r].target = run[r].base.id]
        /\ Goto(r, IF touched = {} THEN "check" ELSE "stage")

\* Mutant: a journal that was completed is left for the end of the run.
KeepCompleted == UNCHANGED pending

\* A completed journal goes before anything else is written.
ClearCompleted == pending' = None

TagsClear(r) == OneOwner(run[r].notes, Present(run[r].base.files))

PlanRun(r) ==
    /\ pc[r] = "scan" /\ run[r].left = {}
    /\ TagsClear(r)
    /\ \/ pending = None /\ Decide(r, {}) /\ UNCHANGED pending
       \/ Completed(r) /\ Decide(r, {}) /\ ClearCompleted
       \/ Active(r) /\ Decide(r, pending.paths) /\ UNCHANGED pending
    /\ UNCHANGED <<vault, db, store, state, owner, lock>>

\* The note still is what was scanned, bytes and time; a deleted one absent.
Unmoved(r, n) == vault[n] = run[r].notes[n]

\* stage_plan_sources copies what will be studied, note by note, and
\* validate_deleted_absence then looks for what will be faded.
Stage(r, n) ==
    /\ pc[r] = "stage" /\ n \in run[r].left
    /\ Unmoved(r, n)
    /\ n \in run[r].faded => run[r].left \cap run[r].studied = {}
    /\ run' = [run EXCEPT ![r].left = @ \ {n}]
    /\ UNCHANGED <<vault, db, disk, lock, pc>>

-----------------------------------------------------------------------------
(* Writing.                                                                *)

\* token_hex(32) gives an id no record names.
NamedIds == {EmptyId, Checkpoint.id}
            \cup (IF pending = None THEN {} ELSE {pending.base, pending.target})
            \cup {run[r].target : r \in Runs} \cup {run[r].base.id : r \in Runs}

WriteJournal(r) ==
    /\ pc[r] = "stage" /\ run[r].left = {}
    /\ \E c \in Ids \ NamedIds :
          /\ pending' = [base |-> run[r].base.id, target |-> c,
                         baseFiles |-> run[r].base.files,
                         targetFiles |-> run[r].notes,
                         paths |-> run[r].studied \cup run[r].faded,
                         db |-> run[r].db]
          /\ run' = [run EXCEPT ![r].target = c]
    /\ Goto(r, IF run[r].owned THEN "open" ELSE "own")
    /\ UNCHANGED <<vault, db, store, state, owner, lock>>

\* The first run writes the owner record, after the journal or, if there was
\* nothing to ingest, after the checkpoint.
WriteOwner(r) ==
    /\ pc[r] \in {"own", "own_late"}
    /\ owner' = run[r].db
    /\ run' = [run EXCEPT ![r].owned = TRUE]
    /\ Goto(r, IF pc[r] = "own" THEN "open" ELSE "clear")
    /\ UNCHANGED <<vault, db, store, state, pending, lock>>

\* Mutant: the store that is there is opened.
StoreThere(r) == TRUE

\* assert_semantic_db_identity
SameStore(r) == db = run[r].db

OpenStore(r) ==
    /\ pc[r] = "open"
    /\ SameStore(r)
    /\ run' = [run EXCEPT ![r].left = run[r].studied \cup run[r].faded]
    /\ Goto(r, "apply")
    /\ UNCHANGED <<vault, db, disk, lock>>

Put(r, n, x) ==
    /\ store' = [store EXCEPT ![db][TagOf(n)] = x]
    /\ run' = [run EXCEPT ![r].left = @ \ {n}]
    /\ UNCHANGED <<vault, db, state, pending, owner, lock, pc>>

\* study_document on the frozen copy.
Study(r, n) ==
    /\ pc[r] = "apply" /\ n \in run[r].left \cap run[r].studied
    /\ Put(r, n, run[r].notes[n].text)

\* study_document with no text, once everything is studied.
Fade(r, n) ==
    /\ pc[r] = "apply" /\ n \in run[r].left \cap run[r].faded
    /\ run[r].left \cap run[r].studied = {}
    /\ Put(r, n, None)

CloseStore(r) ==
    /\ pc[r] = "apply" /\ run[r].left = {}
    /\ Goto(r, "check")
    /\ UNCHANGED <<vault, db, disk, lock, run>>

Recheck(r) ==
    /\ pc[r] = "check"
    /\ SameStore(r)
    /\ Goto(r, "commit")
    /\ UNCHANGED <<vault, db, disk, lock, run>>

WriteState(r) ==
    /\ pc[r] = "commit"
    /\ state' = [id |-> run[r].target, files |-> run[r].notes, db |-> run[r].db]
    /\ Goto(r, IF run[r].owned THEN "clear" ELSE "own_late")
    /\ UNCHANGED <<vault, db, store, pending, owner, lock, run>>

ClearPending(r) ==
    /\ pc[r] = "clear"
    /\ pending' = None
    /\ End(r)
    /\ UNCHANGED <<vault, db, store, state, owner>>

-----------------------------------------------------------------------------
(* Everyone else.                                                          *)

Edit(n) ==
    /\ \E v \in Version \cup {None} :
          v # vault[n] /\ vault' = [vault EXCEPT ![n] = v]
    /\ UNCHANGED <<db, disk, lock, pc, run>>

ReplaceStore ==
    /\ \A r \in Runs : pc[r] # "apply"
    /\ db' \in Stores \ {db}
    /\ UNCHANGED <<vault, disk, lock, pc, run>>

RunStep(r) ==
    \/ Start(r) \/ Load(r) \/ PlanRun(r) \/ WriteJournal(r) \/ WriteOwner(r)
    \/ OpenStore(r) \/ CloseStore(r) \/ Recheck(r) \/ WriteState(r)
    \/ ClearPending(r)
    \/ \E n \in Notes : ReadNote(r, n) \/ Stage(r, n) \/ Study(r, n) \/ Fade(r, n)

Next ==
    \/ \E r \in Runs : RunStep(r) \/ Fail(r) \/ ApplyFails(r)
    \/ \E n \in Notes : Edit(n)
    \/ ReplaceStore

Spec == Init /\ [][Next]_vars

\* The operator starts the script again and again, and a started run goes on
\* or ends.
FairSpec ==
    Spec /\ \A r \in Runs : WF_vars(RunStep(r) \/ Fail(r) \/ ApplyFails(r))

\* A check of the code stops the run.
Refused(r) ==
    \/ pc[r] = "load" /\ ~RecordsFit(run[r].db)
    \/ /\ pc[r] = "scan" /\ run[r].left = {}
       /\ ~(TagsClear(r) /\ (pending = None \/ Completed(r) \/ Active(r)))
    \/ pc[r] = "stage" /\ \E n \in run[r].left : ~Unmoved(r, n)
    \/ pc[r] \in {"open", "check"} /\ ~SameStore(r)

-----------------------------------------------------------------------------
(* Properties.                                                             *)

Run == [db : Stores \cup {None}, base : [id : Ids, files : Files],
        owned : BOOLEAN, notes : Files, studied : SUBSET Notes,
        faded : SUBSET Notes, left : SUBSET Notes, target : Ids]

\* Every variable keeps its type.
TypeOK ==
    /\ vault \in Files
    /\ db \in Stores
    /\ store \in [Stores -> [Tags -> Texts \cup {Torn, None}]]
    /\ state \in StateRecord \cup {None}
    /\ pending \in Journal \cup {None}
    /\ owner \in Stores \cup {None}
    /\ lock \in Runs \cup {None}
    /\ pc \in [Runs -> {"idle", "load", "scan", "stage", "own", "open", "apply",
                        "check", "commit", "own_late", "clear"}]
    /\ run \in [Runs -> Run]

\* Whatever the moment of a crash, load_pending recognises the journal it
\* left: it names the checkpoint in force as its base or its target, with the
\* digest that checkpoint has now.
JournalAgrees == pending # None =>
    \/ /\ Checkpoint.id = pending.base
       /\ Checkpoint.files = pending.baseFiles
    \/ /\ Checkpoint.id = pending.target
       /\ Checkpoint.files = pending.targetFiles

\* Whatever the moment of a crash, the records are about one store file, and
\* owner never stands alone, which a later run would refuse for ever.
RecordsTogether ==
    /\ \E d \in Stores : /\ RecordsFit(d)
                         /\ pending # None => pending.db = d

\* iai's store is written only while the journal and the owner record are on
\* disk for that very store file.
JournalFirst == [][\A d \in Stores : store'[d] # store[d] =>
    /\ pending # None /\ pending.db = d
    /\ owner = d
    /\ state # None => state.db = d]_vars

\* The store file the records are about, or the one in place.
Bound == CASE state # None -> state.db
           [] state = None /\ pending # None -> pending.db
           [] state = None /\ pending = None -> IF owner = None THEN db ELSE owner

\* What the checkpoint in force says of a tag.
Recorded(files, t) ==
    IF \E n \in Present(files) : TagOf(n) = t
    THEN files[CHOOSE n \in Present(files) : TagOf(n) = t].text
    ELSE None

Doubtful == IF pending # None /\ pending.base = Checkpoint.id
            THEN TagsOf(pending.paths) ELSE {}

Ledger == INSTANCE SyncLedger WITH
    Values <- Texts \cup {Torn, None},
    Missing <- None,
    synced <- [t \in Tags |-> Recorded(Checkpoint.files, t)],
    content <- store[Bound],
    doubt <- Doubtful

\* Outside the documents of an active journal the store holds exactly the
\* checkpoint, at every moment and after every crash.
ImplementsSync == Ledger!Spec

InStep ==
    /\ \A t \in Tags : store[db][t] = Recorded(vault, t)
    /\ state # None /\ state.files = vault

\* The environment can keep a run from succeeding; a refusal of the code
\* itself is not among its means.
Disturbed ==
    \/ vault' # vault \/ db' # db
    \/ \E r \in Runs : /\ pc[r] \notin {"idle", "clear"} /\ pc'[r] = "idle"
                       /\ ~Refused(r)

\* The store in place is the one the records are about, and no two notes
\* compete for a tag.
Admissible ==
    /\ db = Bound
    /\ OneOwner(vault, Present(Checkpoint.files))
    /\ pending # None => OneOwner(vault, pending.paths)

\* Once nothing disturbs the runs any more, trying again brings store,
\* checkpoint and vault in step, whatever happened before.
RetrySyncs == (<>[][~Disturbed]_vars /\ <>[]Admissible) => <>[]InStep
=============================================================================
