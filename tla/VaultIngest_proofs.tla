------------------------- MODULE VaultIngest_proofs --------------------------
(***************************************************************************)
(* Theorems about VaultIngest, for every number of runs, notes, tags,      *)
(* contents, times, store files and checkpoint ids.                        *)
(*                                                                         *)
(* Inv has three parts.  What the records say by themselves (Written) is   *)
(* what survives a crash.  Place says how far the one run under way has    *)
(* come, and Planned that its plan touches every document in which         *)
(* snapshot and checkpoint differ, and no tag twice.  Settled relates the  *)
(* store to the checkpoint.                                                *)
(***************************************************************************)
EXTENDS VaultIngest, TLAPS

\* One run at a time: the apply lock.
Alone == \A r \in Runs : pc[r] # "idle" <=> lock = r

\* A journal names a fresh target and at least one document.
JournalSound == pending # None =>
    /\ pending.paths # {}
    /\ pending.target # EmptyId /\ pending.target # pending.base

\* No two documents of the checkpoint share a tag.
Unambiguous == \A m, n \in Present(Checkpoint.files) : TagOf(m) = TagOf(n) => m = n

\* Before the first journal every store is empty.
Blank == state = None /\ pending = None =>
             \A d \in Stores, t \in Tags : store[d][t] = None

Settled == \A t \in Tags \ Doubtful :
               store[Bound][t] = Recorded(Checkpoint.files, t)

Written == /\ RecordsTogether /\ JournalAgrees
           /\ JournalSound /\ Unambiguous /\ Blank /\ Settled

Touched(r) == run[r].studied \cup run[r].faded

\* What the run wants the store to hold for a document it touches.
Wanted(r, n) == IF n \in run[r].studied THEN run[r].notes[n].text ELSE None

Applied(r, S) == \A n \in S : store[run[r].db][TagOf(n)] = Wanted(r, n)

Planned(r) ==
    /\ run[r].studied \subseteq Present(run[r].notes)
    /\ run[r].faded \cap Present(run[r].notes) = {}
    /\ NewOrChanged(r) \subseteq run[r].studied
    /\ Deleted(r) \subseteq run[r].faded
    /\ TagsClear(r)
    /\ OneOwner(run[r].notes, Touched(r))

\* The journal on disk is the one this run wrote.
OwnJournal(r) ==
    /\ pending # None
    /\ pending.db = run[r].db
    /\ pending.base = run[r].base.id /\ pending.baseFiles = run[r].base.files
    /\ pending.target = run[r].target /\ pending.targetFiles = run[r].notes
    /\ pending.paths = Touched(r)

\* The run has nothing to do.
Nothing(r) == /\ pending = None
              /\ Touched(r) = {}
              /\ run[r].target = run[r].base.id

Writing == {"own", "open", "apply"}
Closing == {"check", "commit"}
Ending == {"own_late", "clear"}
Deciding == {"stage"} \cup Writing \cup Closing
Loaded == {"scan"} \cup Deciding

\* What the records and the store look like when run r stands where it does.
Place(r) ==
    /\ pc[r] # "idle" => run[r].db \in Stores
    /\ pc[r] \in Loaded => /\ run[r].base = Checkpoint
                           /\ RecordsFit(run[r].db)
                           /\ run[r].owned <=> owner # None
    /\ pc[r] \in Deciding => Planned(r)
    /\ pc[r] = "stage" =>
           /\ Touched(r) # {}
           /\ pending # None => /\ pending.db = run[r].db
                                /\ pending.base = run[r].base.id
                                /\ pending.paths \subseteq Touched(r)
    /\ pc[r] \in Writing => OwnJournal(r)
    /\ pc[r] \in {"open", "apply"} => owner = run[r].db
    /\ pc[r] = "apply" => db = run[r].db /\ Applied(r, Touched(r) \ run[r].left)
    /\ pc[r] \in Closing => /\ OwnJournal(r) \/ Nothing(r)
                            /\ Applied(r, Touched(r))
    /\ pc[r] \in Ending =>
           /\ state # None /\ RecordsFit(run[r].db)
           /\ pending # None => /\ pending.db = run[r].db
                                /\ pending.target = state.id

Inv == /\ TypeOK
       /\ Alone
       /\ Written
       /\ \A r \in Runs : Place(r)

-----------------------------------------------------------------------------
(* Types.                                                                  *)

LEMMA NoFilesType == NoFiles \in Files /\ NoFiles = [n \in Notes |-> None]
  BY DEF NoFiles, Files

LEMMA CheckpointType == TypeOK => Checkpoint \in [id : Ids, files : Files]
  BY NoFilesType, EmptyIdAssumption DEF TypeOK, Checkpoint, StateRecord

LEMMA NoRunType == NoRun \in Run
  BY NoFilesType, EmptyIdAssumption DEF NoRun, Run

LEMMA InitType == Init => TypeOK
  BY NoRunType DEF Init, TypeOK

\* The steps that only move a run.
LEMMA EndType ==
    ASSUME TypeOK, NEW r \in Runs, End(r)
    PROVE  /\ pc' \in [Runs -> {"idle", "load", "scan", "stage", "own", "open",
                                "apply", "check", "commit", "own_late", "clear"}]
           /\ run' \in [Runs -> Run]
           /\ lock' \in Runs \cup {None}
  BY NoRunType DEF TypeOK, End, Goto

LEMMA FailType == ASSUME TypeOK, NEW r \in Runs, Fail(r) PROVE TypeOK'
  BY EndType DEF TypeOK, Fail, disk

LEMMA ApplyFailsType ==
    ASSUME TypeOK, NEW r \in Runs, ApplyFails(r) PROVE TypeOK'
<1>1. store' \in [Stores -> [Tags -> Texts \cup {Torn, None}]]
  BY DEF TypeOK, ApplyFails
<1> QED
  BY <1>1, EndType DEF TypeOK, ApplyFails

\* What changing some fields of one run gives.
LEMMA OneRun ==
    ASSUME TypeOK, NEW r \in Runs, NEW x \in Run, run' = [run EXCEPT ![r] = x]
    PROVE  /\ run' \in [Runs -> Run]
           /\ run'[r] = x
           /\ \A q \in Runs \ {r} : run'[q] = run[q]
<1>1. run \in [Runs -> Run]
  BY DEF TypeOK
<1> QED
  BY <1>1

LEMMA StartType == ASSUME TypeOK, NEW r \in Runs, Start(r) PROVE TypeOK'
<1>1. run' \in [Runs -> Run]
  <2>1. run[r] \in Run /\ db \in Stores
    BY DEF TypeOK
  <2>2. [run[r] EXCEPT !.db = db] \in Run
    BY <2>1 DEF Run
  <2>3. run' = [run EXCEPT ![r] = [run[r] EXCEPT !.db = db]]
    BY DEF TypeOK, Start, Identify
  <2> QED
    BY <2>2, <2>3, OneRun
<1> QED
  BY <1>1 DEF TypeOK, Start, TakeLock, Goto, disk

LEMMA Lefts ==
    ASSUME TypeOK, NEW r \in Runs, NEW S \in SUBSET Notes,
           run' = [run EXCEPT ![r].left = S]
    PROVE  /\ run' \in [Runs -> Run]
           /\ run'[r] = [run[r] EXCEPT !.left = S]
           /\ \A q \in Runs \ {r} : run'[q] = run[q]
<1> DEFINE x == [run[r] EXCEPT !.left = S]
<1>1. run[r] \in Run
  BY DEF TypeOK
<1>2. run' = [run EXCEPT ![r] = x]
  BY DEF TypeOK
<1>3. x \in Run
  BY <1>1 DEF Run
<1> QED
  BY <1>2, <1>3, OneRun

LEMMA Loads ==
    ASSUME TypeOK, NEW r \in Runs, NEW b \in [id : Ids, files : Files],
           NEW o \in BOOLEAN, NEW S \in SUBSET Notes,
           run' = [run EXCEPT ![r].base = b, ![r].owned = o, ![r].left = S]
    PROVE  /\ run' \in [Runs -> Run]
           /\ \A q \in Runs \ {r} : run'[q] = run[q]
           /\ run'[r] = [run[r] EXCEPT !.base = b, !.owned = o, !.left = S]
           /\ run'[r].db = run[r].db /\ run'[r].notes = run[r].notes
           /\ run'[r].base = b /\ run'[r].owned = o /\ run'[r].left = S
<1>1. run[r] \in Run
  BY DEF TypeOK
<1>2. run' = [run EXCEPT ![r] = [run[r] EXCEPT !.base = b, !.owned = o, !.left = S]]
  BY DEF TypeOK
<1> DEFINE x == [run[r] EXCEPT !.base = b, !.owned = o, !.left = S]
<1>3. /\ x \in Run
      /\ x.db = run[r].db /\ x.notes = run[r].notes
      /\ x.base = b /\ x.owned = o /\ x.left = S
  BY <1>1 DEF Run
<1>4. run' = [run EXCEPT ![r] = x]
  BY <1>2
<1> HIDE DEF x
<1>5. run' \in [Runs -> Run] /\ run'[r] = x /\ \A q \in Runs \ {r} : run'[q] = run[q]
  BY <1>3, <1>4, OneRun
<1> QED
  BY <1>3, <1>5 DEF x

LEMMA LoadType == ASSUME TypeOK, NEW r \in Runs, Load(r) PROVE TypeOK'
<1>1. run' \in [Runs -> Run]
  BY CheckpointType, Loads DEF Load
<1> QED
  BY <1>1 DEF TypeOK, Load, Goto, disk

LEMMA ReadNoteType ==
    ASSUME TypeOK, NEW r \in Runs, NEW n \in Notes, ReadNote(r, n) PROVE TypeOK'
<1>1. run' \in [Runs -> Run]
  <2>1. run[r] \in Run /\ vault[n] \in Version \cup {None}
    BY DEF TypeOK, Files
  <2> DEFINE x == [run[r] EXCEPT !.notes[n] = vault[n], !.left = @ \ {n}]
  <2>2. x \in Run
    BY <2>1 DEF Run, Files
  <2>3. run' = [run EXCEPT ![r] = x]
    BY DEF TypeOK, ReadNote
  <2> HIDE DEF x
  <2> QED
    BY <2>2, <2>3, OneRun
<1> QED
  BY <1>1 DEF TypeOK, ReadNote, disk

LEMMA ReconcileType ==
    ASSUME TypeOK, NEW r \in Runs, NEW S \in SUBSET Notes
    PROVE  /\ Reconcile(r, S).studied \in SUBSET Notes
           /\ Reconcile(r, S).faded \in SUBSET Notes
  BY DEF TypeOK, Reconcile, NewOrChanged, Deleted, Present, Run, Files

LEMMA DecideFields ==
    ASSUME TypeOK, NEW r \in Runs, NEW S \in SUBSET Notes, Decide(r, S)
    PROVE  /\ run' \in [Runs -> Run]
           /\ run'[r].db = run[r].db /\ run'[r].base = run[r].base
           /\ run'[r].owned = run[r].owned /\ run'[r].notes = run[r].notes
           /\ run'[r].studied = Reconcile(r, S).studied
           /\ run'[r].faded = Reconcile(r, S).faded
           /\ run'[r].left = Touched(r)'
           /\ run'[r].target = run[r].base.id
           /\ pc' = [pc EXCEPT ![r] =
                         IF Touched(r)' = {} THEN "check" ELSE "stage"]
<1> DEFINE A == Reconcile(r, S).studied
           F == Reconcile(r, S).faded
           x == [run[r] EXCEPT !.studied = A, !.faded = F, !.left = A \cup F,
                               !.target = run[r].base.id]
<1>1. A \in SUBSET Notes /\ F \in SUBSET Notes
  BY ReconcileType
<1>2. /\ run' = [run EXCEPT ![r].studied = A, ![r].faded = F,
                            ![r].left = A \cup F, ![r].target = run[r].base.id]
      /\ pc' = [pc EXCEPT ![r] = IF A \cup F = {} THEN "check" ELSE "stage"]
  BY DEF Decide, Goto
<1> HIDE DEF A, F
<1>3. run[r] \in Run
  BY DEF TypeOK
<1>4. run' = [run EXCEPT ![r] = x]
  BY <1>2 DEF TypeOK
<1>5. /\ x \in Run
      /\ x.db = run[r].db /\ x.base = run[r].base
      /\ x.owned = run[r].owned /\ x.notes = run[r].notes
      /\ x.studied = A /\ x.faded = F
      /\ x.left = A \cup F /\ x.target = run[r].base.id
  BY <1>1, <1>3 DEF Run
<1> HIDE DEF x
<1>6. run' \in [Runs -> Run] /\ run'[r] = x
  BY <1>4, <1>5, OneRun
<1>7. Touched(r)' = A \cup F
  BY <1>5, <1>6 DEF Touched
<1> QED
  BY <1>2, <1>5, <1>6, <1>7 DEF A, F

LEMMA PlanRunType == ASSUME TypeOK, NEW r \in Runs, PlanRun(r) PROVE TypeOK'
<1>1. \E S \in SUBSET Notes : Decide(r, S)
  BY DEF PlanRun, TypeOK, Active, Journal
<1>2. pending' \in Journal \cup {None}
  BY DEF PlanRun, TypeOK, ClearCompleted
<1>3. run' \in [Runs -> Run]
  BY <1>1, DecideFields
<1>4. pc' \in [Runs -> {"idle", "load", "scan", "stage", "own", "open",
                        "apply", "check", "commit", "own_late", "clear"}]
  BY <1>1 DEF TypeOK, Decide, Goto
<1> QED
  BY <1>1, <1>2, <1>3, <1>4 DEF PlanRun, TypeOK

LEMMA StageType ==
    ASSUME TypeOK, NEW r \in Runs, NEW n \in Notes, Stage(r, n) PROVE TypeOK'
<1>1. run' \in [Runs -> Run]
  <2>1. run[r].left \ {n} \in SUBSET Notes
    BY DEF TypeOK, Run
  <2>2. run' = [run EXCEPT ![r].left = run[r].left \ {n}]
    BY DEF TypeOK, Stage
  <2> QED
    BY <2>1, <2>2, Lefts
<1> QED
  BY <1>1 DEF TypeOK, Stage, disk

LEMMA WriteOwnerType == ASSUME TypeOK, NEW r \in Runs, WriteOwner(r),
                               run[r].db \in Stores
                        PROVE  TypeOK'
<1>1. run' \in [Runs -> Run]
  <2>1. run[r] \in Run
    BY DEF TypeOK
  <2>2. [run[r] EXCEPT !.owned = TRUE] \in Run
    BY <2>1 DEF Run
  <2>3. run' = [run EXCEPT ![r] = [run[r] EXCEPT !.owned = TRUE]]
    BY DEF TypeOK, WriteOwner
  <2> QED
    BY <2>2, <2>3, OneRun
<1> QED
  BY <1>1 DEF TypeOK, WriteOwner, Goto

LEMMA WriteJournalType == ASSUME TypeOK, NEW r \in Runs, WriteJournal(r),
                                 run[r].db \in Stores
                          PROVE  TypeOK'
<1> PICK c \in Ids : /\ pending' = [base |-> run[r].base.id, target |-> c,
                         baseFiles |-> run[r].base.files,
                         targetFiles |-> run[r].notes,
                         paths |-> run[r].studied \cup run[r].faded,
                         db |-> run[r].db]
                     /\ run' = [run EXCEPT ![r].target = c]
  BY DEF WriteJournal
<1>1. run' \in [Runs -> Run]
  <2>1. run[r] \in Run
    BY DEF TypeOK
  <2>2. [run[r] EXCEPT !.target = c] \in Run
    BY <2>1 DEF Run
  <2>3. run' = [run EXCEPT ![r] = [run[r] EXCEPT !.target = c]]
    BY DEF TypeOK
  <2> QED
    BY <2>2, <2>3, OneRun
<1>2. pending' \in Journal
  BY DEF TypeOK, Run, Journal
<1> QED
  BY <1>1, <1>2 DEF TypeOK, WriteJournal, Goto

LEMMA OpenStoreType == ASSUME TypeOK, NEW r \in Runs, OpenStore(r) PROVE TypeOK'
<1>1. run' \in [Runs -> Run]
  <2>1. run[r].studied \cup run[r].faded \in SUBSET Notes
    BY DEF TypeOK, Run
  <2>2. run' = [run EXCEPT ![r].left = run[r].studied \cup run[r].faded]
    BY DEF OpenStore
  <2> QED
    BY <2>1, <2>2, Lefts
<1> QED
  BY <1>1 DEF TypeOK, OpenStore, Goto, disk

LEMMA PutType ==
    ASSUME TypeOK, NEW r \in Runs, NEW n \in Notes,
           NEW x \in Texts \cup {Torn, None}, Put(r, n, x)
    PROVE  TypeOK'
<1>1. run' \in [Runs -> Run]
  <2>1. run[r].left \ {n} \in SUBSET Notes
    BY DEF TypeOK, Run
  <2>2. run' = [run EXCEPT ![r].left = run[r].left \ {n}]
    BY DEF TypeOK, Put
  <2> QED
    BY <2>1, <2>2, Lefts
<1>2. store' \in [Stores -> [Tags -> Texts \cup {Torn, None}]]
  BY TagAssumption DEF TypeOK, Put
<1> QED
  BY <1>1, <1>2 DEF TypeOK, Put

LEMMA FadeType ==
    ASSUME TypeOK, NEW r \in Runs, NEW n \in Notes, Fade(r, n) PROVE TypeOK'
  BY PutType DEF Fade

LEMMA StudyType ==
    ASSUME TypeOK, NEW r \in Runs, NEW n \in Notes, Study(r, n),
           run[r].studied \subseteq Present(run[r].notes)
    PROVE  TypeOK'
<1>1. run[r].notes[n].text \in Texts
  BY DEF TypeOK, Study, Run, Files, Present, Version
<1> QED
  BY <1>1, PutType DEF Study

LEMMA CloseStoreType == ASSUME TypeOK, NEW r \in Runs, CloseStore(r) PROVE TypeOK'
  BY DEF TypeOK, CloseStore, Goto, disk

LEMMA RecheckType == ASSUME TypeOK, NEW r \in Runs, Recheck(r) PROVE TypeOK'
  BY DEF TypeOK, Recheck, Goto, disk

LEMMA WriteStateType == ASSUME TypeOK, NEW r \in Runs, WriteState(r),
                               run[r].db \in Stores
                        PROVE  TypeOK'
<1>1. state' \in StateRecord
  BY DEF TypeOK, WriteState, Run, StateRecord
<1> QED
  BY <1>1 DEF TypeOK, WriteState, Goto

LEMMA ClearPendingType ==
    ASSUME TypeOK, NEW r \in Runs, ClearPending(r) PROVE TypeOK'
  BY EndType DEF TypeOK, ClearPending

LEMMA EditType == ASSUME TypeOK, NEW n \in Notes, Edit(n) PROVE TypeOK'
  BY DEF TypeOK, Edit, Files, disk

LEMMA ReplaceStoreType == ASSUME TypeOK, ReplaceStore PROVE TypeOK'
  BY DEF TypeOK, ReplaceStore, disk

-----------------------------------------------------------------------------
(* Steps that many actions share.                                          *)

\* What is written says the same while nothing is written.
LEMMA WrittenStays == Written /\ UNCHANGED <<disk, db>> => Written'
  BY DEF Written, RecordsTogether, RecordsFit, JournalAgrees, JournalSound,
         Unambiguous, Blank, Settled, Checkpoint, Doubtful, Bound, disk

\* One run at a time.
LEMMA OthersIdle ==
    ASSUME Inv, NEW r \in Runs, pc[r] # "idle"
    PROVE  \A q \in Runs \ {r} : pc[q] = "idle"
  BY DEF Inv, Alone

LEMMA IdlePlace == \A r \in Runs : pc[r] = "idle" => Place(r)
  BY DEF Place, Loaded, Deciding, Writing, Closing, Ending

\* A run ends: what it wrote is all there is.
LEMMA EndInv ==
    ASSUME Inv, NEW r \in Runs, pc[r] # "idle", End(r), TypeOK', Written'
    PROVE  Inv'
<1>1. \A q \in Runs : pc'[q] = "idle"
  BY OthersIdle DEF Inv, TypeOK, End, Goto
<1>2. \A q \in Runs : Place(q)'
  BY <1>1 DEF Place, Loaded, Deciding, Writing, Closing, Ending
<1>3. Alone'
  BY <1>1, NoneAssumption DEF Inv, Alone, End
<1> QED
  BY <1>2, <1>3 DEF Inv

\* A run under way goes on: only its own place is in question.
LEMMA MoveInv ==
    ASSUME Inv, NEW r \in Runs, pc[r] # "idle",
           NEW l, l # "idle", pc' = [pc EXCEPT ![r] = l], UNCHANGED lock,
           TypeOK', Written', Place(r)'
    PROVE  Inv'
<1>1. pc'[r] = l /\ \A q \in Runs \ {r} : pc'[q] = "idle"
  BY OthersIdle DEF Inv, TypeOK
<1>2. \A q \in Runs \ {r} : Place(q)'
  BY <1>1 DEF Place, Loaded, Deciding, Writing, Closing, Ending
<1>3. Alone'
  BY <1>1, OthersIdle DEF Inv, Alone
<1> QED
  BY <1>2, <1>3 DEF Inv

LEMMA StayInv ==
    ASSUME Inv, NEW r \in Runs, pc[r] # "idle", UNCHANGED <<pc, lock>>,
           TypeOK', Written', Place(r)'
    PROVE  Inv'
<1>1. pc' = [pc EXCEPT ![r] = pc[r]]
  BY DEF Inv, TypeOK
<1> QED
  BY <1>1, MoveInv

\* The run's variables but for what is left to do.
Kept(r) == /\ run'[r].db = run[r].db /\ run'[r].base = run[r].base
           /\ run'[r].owned = run[r].owned /\ run'[r].notes = run[r].notes
           /\ run'[r].studied = run[r].studied /\ run'[r].faded = run[r].faded
           /\ run'[r].target = run[r].target

LEMMA KeptPlan ==
    ASSUME NEW r \in Runs, Kept(r)
    PROVE  /\ Planned(r) => Planned(r)'
           /\ Touched(r)' = Touched(r)
           /\ \A n \in Notes : Wanted(r, n)' = Wanted(r, n)
  BY DEF Kept, Planned, Touched, Wanted, NewOrChanged, Deleted, TagsClear

LEMMA TouchedType == TypeOK => \A r \in Runs : Touched(r) \in SUBSET Notes
  BY DEF TypeOK, Run, Touched

-----------------------------------------------------------------------------
(* What the checkpoint says of a tag.                                      *)

LEMMA RecordedOne ==
    ASSUME NEW files, NEW n \in Present(files),
           \A m \in Present(files) : TagOf(m) = TagOf(n) => m = n
    PROVE  Recorded(files, TagOf(n)) = files[n].text
<1> DEFINE t == TagOf(n)
           m == CHOOSE i \in Present(files) : TagOf(i) = t
<1>1. m \in Present(files) /\ TagOf(m) = t
  OBVIOUS
<1>2. m = n
  BY <1>1
<1>3. Recorded(files, t) = files[m].text
  BY DEF Recorded
<1> QED
  BY <1>2, <1>3

LEMMA RecordedNone ==
    ASSUME NEW files, NEW t, \A n \in Present(files) : TagOf(n) # t
    PROVE  Recorded(files, t) = None
  BY DEF Recorded

LEMMA InitInv == Init => Inv
<1> SUFFICES ASSUME Init PROVE Inv
  OBVIOUS
<1>1. TypeOK
  BY InitType
<1>2. Alone
  BY NoneAssumption DEF Init, Alone
<1>3. Checkpoint.files = NoFiles /\ Present(NoFiles) = {}
  BY NoFilesType DEF Init, Checkpoint, Present
<1>4. Blank /\ JournalAgrees /\ JournalSound /\ Unambiguous
  BY <1>3 DEF Init, Blank, JournalAgrees, JournalSound, Unambiguous
<1>5. RecordsTogether
  BY DEF Init, RecordsTogether, RecordsFit
<1>6. Bound \in Stores
  BY DEF Init, Bound
<1>7. Settled
  BY <1>3, <1>6, RecordedNone DEF Init, Settled
<1>8. \A r \in Runs : Place(r)
  BY IdlePlace DEF Init
<1> QED
  BY <1>1, <1>2, <1>4, <1>5, <1>7, <1>8 DEF Inv, Written

-----------------------------------------------------------------------------
(* Ending, reading, and everyone else.                                     *)

LEMMA FailInv == ASSUME Inv, NEW r \in Runs, Fail(r) PROVE Inv'
<1>1. TypeOK'
  BY FailType DEF Inv
<1>2. Written'
  BY WrittenStays DEF Inv, Fail
<1> QED
  BY <1>1, <1>2, EndInv DEF Fail

\* Whatever iai kept, it kept of documents the journal names.
LEMMA ApplyFailsInv == ASSUME Inv, NEW r \in Runs, ApplyFails(r) PROVE Inv'
<1> USE DEF Inv
<1>1. TypeOK'
  BY ApplyFailsType
<1>2. /\ pending # None /\ pending.paths = Touched(r) /\ pending.db = db
      /\ pending.base = Checkpoint.id
      /\ state # None => state.db = db
  BY DEF Place, ApplyFails, Writing, Deciding, Loaded, OwnJournal, RecordsFit
<1>3. Doubtful = TagsOf(Touched(r)) /\ Bound = db
  BY <1>2 DEF Doubtful, Bound
<1>4. /\ Doubtful' = Doubtful /\ Bound' = Bound
      /\ Checkpoint' = Checkpoint
  BY DEF ApplyFails, Doubtful, Bound, Checkpoint
<1>5. \A t \in Tags \ Doubtful : store'[db][t] = store[db][t]
  <2>1. PICK S \in SUBSET TagsOf(run[r].studied \cup run[r].faded) :
          store' = [store EXCEPT ![db] =
              [t \in Tags |-> IF t \in S THEN Torn ELSE store[db][t]]]
    BY DEF ApplyFails
  <2> QED
    BY <2>1, <1>3 DEF TypeOK, Touched
<1>6. Settled'
  BY <1>3, <1>4, <1>5 DEF Settled, Written
<1>7. Written'
  BY <1>2, <1>4, <1>6 DEF Written, ApplyFails, RecordsTogether, RecordsFit,
                          JournalAgrees, JournalSound, Unambiguous, Blank
<1> QED
  BY <1>1, <1>7, EndInv DEF ApplyFails

LEMMA StartInv == ASSUME Inv, NEW r \in Runs, Start(r) PROVE Inv'
<1> USE DEF Inv
<1>1. TypeOK'
  BY StartType
<1>2. Written'
  BY WrittenStays DEF Start
<1>3. /\ pc'[r] = "load" /\ lock' = r
      /\ \A q \in Runs \ {r} : pc[q] = "idle" /\ pc'[q] = "idle"
  BY NoneAssumption DEF Start, TakeLock, Goto, Alone, TypeOK
<1>4. Alone'
  BY <1>3 DEF Alone
<1>5. run'[r].db = db
  BY DEF Start, Identify, TypeOK, Run
<1>6. Place(r)'
  BY <1>3, <1>5 DEF Place, Loaded, Deciding, Writing, Closing, Ending, TypeOK
<1>7. \A q \in Runs \ {r} : Place(q)'
  BY <1>3 DEF Place, Loaded, Deciding, Writing, Closing, Ending
<1> QED
  BY <1>1, <1>2, <1>4, <1>6, <1>7

LEMMA LoadInv == ASSUME Inv, NEW r \in Runs, Load(r) PROVE Inv'
<1> USE DEF Inv
<1>1. TypeOK'
  BY LoadType
<1>2. Written'
  BY WrittenStays DEF Load
<1>3. /\ run'[r].db = run[r].db /\ run'[r].base = Checkpoint
      /\ run'[r].owned = (owner # None)
  <2> DEFINE b == Checkpoint
             o == owner # None
  <2>1. run' = [run EXCEPT ![r].base = b, ![r].owned = o, ![r].left = Notes]
    BY DEF Load
  <2>2. b \in [id : Ids, files : Files] /\ o \in BOOLEAN /\ Notes \in SUBSET Notes
    BY CheckpointType
  <2>3. TypeOK
    OBVIOUS
  <2> HIDE DEF b, o, Inv
  <2>4. /\ run'[r].db = run[r].db /\ run'[r].base = b /\ run'[r].owned = o
    BY <2>1, <2>2, <2>3, Loads
  <2> QED
    BY <2>4 DEF b, o
<1>4. Checkpoint' = Checkpoint
  BY DEF Load, disk, Checkpoint
<1>5. Place(r)'
  BY <1>3, <1>4 DEF Place, Load, Goto, disk, TypeOK, RecordsFit,
                    Loaded, Deciding, Writing, Closing, Ending
<1> QED
  BY <1>1, <1>2, <1>5, MoveInv DEF Load, Goto

LEMMA ReadNoteInv ==
    ASSUME Inv, NEW r \in Runs, NEW n \in Notes, ReadNote(r, n) PROVE Inv'
<1> USE DEF Inv
<1>1. TypeOK'
  BY ReadNoteType
<1>2. Written'
  BY WrittenStays DEF ReadNote
<1>3. /\ run'[r].db = run[r].db /\ run'[r].base = run[r].base
      /\ run'[r].owned = run[r].owned
  BY DEF ReadNote, TypeOK, Run
<1>4. Checkpoint' = Checkpoint
  BY DEF ReadNote, disk, Checkpoint
<1>5. Place(r)'
  BY <1>3, <1>4 DEF Place, ReadNote, disk, RecordsFit,
                    Loaded, Deciding, Writing, Closing, Ending
<1> QED
  BY <1>1, <1>2, <1>5, StayInv DEF ReadNote

\* Nobody else moves a run.
LEMMA PlaceStays ==
    ASSUME NEW r \in Runs, Place(r), UNCHANGED <<run, pc, disk>>,
           Checkpoint' = Checkpoint, pc[r] = "apply" => db' = db
    PROVE  Place(r)'
<1>1. Planned(r)' = Planned(r) /\ Touched(r)' = Touched(r)
  BY DEF Planned, Touched, NewOrChanged, Deleted, TagsClear
<1>2. OwnJournal(r)' = OwnJournal(r) /\ Nothing(r)' = Nothing(r)
  BY <1>1 DEF OwnJournal, Nothing, disk
<1>3. RecordsFit(run[r].db)' = RecordsFit(run[r].db)
  BY DEF RecordsFit, disk
<1>4. /\ Applied(r, Touched(r))' = Applied(r, Touched(r))
      /\ Applied(r, Touched(r) \ run[r].left)' = Applied(r, Touched(r) \ run[r].left)
  BY <1>1 DEF Applied, Wanted, disk
<1> QED
  BY <1>1, <1>2, <1>3, <1>4 DEF Place, disk

LEMMA EditInv == ASSUME Inv, NEW n \in Notes, Edit(n) PROVE Inv'
<1> USE DEF Inv
<1>1. TypeOK'
  BY EditType
<1>2. Written'
  BY WrittenStays DEF Edit
<1>3. Alone'
  BY DEF Edit, Alone
<1>4. Checkpoint' = Checkpoint
  BY DEF Edit, disk, Checkpoint
<1>5. ASSUME NEW r \in Runs PROVE Place(r)'
  BY <1>4, PlaceStays DEF Edit
<1> QED
  BY <1>1, <1>2, <1>3, <1>5

\* Before the first record every store is empty, and any of them may be meant.
LEMMA ReplaceStoreInv == ASSUME Inv, ReplaceStore PROVE Inv'
<1> USE DEF Inv
<1>1. TypeOK'
  BY ReplaceStoreType
<1>2. Alone'
  BY DEF ReplaceStore, Alone
<1>3. Checkpoint' = Checkpoint /\ Doubtful' = Doubtful
  BY DEF ReplaceStore, disk, Checkpoint, Doubtful
<1>4. Settled'
  <2>1. CASE Bound' = Bound
    BY <1>3, <2>1 DEF Settled, Written, ReplaceStore, disk
  <2>2. CASE Bound' # Bound
    <3>1. state = None /\ pending = None /\ Bound = db /\ Bound' = db'
      BY <2>2 DEF Bound, ReplaceStore, disk, Written, RecordsTogether, RecordsFit
    <3>2. store[db] = store'[db']
      BY <3>1 DEF Written, Blank, ReplaceStore, disk, TypeOK
    <3> QED
      BY <1>3, <3>1, <3>2 DEF Settled, Written
  <2> QED
    BY <2>1, <2>2
<1>5. Written'
  BY <1>3, <1>4 DEF Written, ReplaceStore, disk, RecordsTogether, RecordsFit,
                    JournalAgrees, JournalSound, Unambiguous, Blank
<1>6. ASSUME NEW r \in Runs PROVE Place(r)'
  BY <1>3, PlaceStays DEF ReplaceStore
<1> QED
  BY <1>1, <1>2, <1>5, <1>6

-----------------------------------------------------------------------------
(* Planning and freezing.                                                  *)

\* A plan touches every difference, everything the journal names, and no tag
\* twice.
LEMMA DecidePlans ==
    ASSUME TypeOK, NEW r \in Runs, NEW S \in SUBSET Notes, Decide(r, S),
           TagsClear(r),
           \A m \in S, n \in Present(run[r].notes) : TagOf(m) = TagOf(n) => m = n
    PROVE  Planned(r)' /\ S \subseteq Touched(r)'
<1> DEFINE now == Present(run[r].notes)
<1>1. /\ run'[r].base = run[r].base /\ run'[r].notes = run[r].notes
      /\ run'[r].studied = NewOrChanged(r) \cup (S \cap now)
      /\ run'[r].faded = Deleted(r) \cup (S \ now)
  BY DecideFields DEF Reconcile
<1>2. /\ NewOrChanged(r)' = NewOrChanged(r) /\ Deleted(r)' = Deleted(r)
      /\ TagsClear(r)' /\ Present(run[r].notes)' = now
  BY <1>1 DEF NewOrChanged, Deleted, TagsClear
<1>3. /\ NewOrChanged(r) \subseteq now
      /\ Deleted(r) \subseteq Present(run[r].base.files) /\ Deleted(r) \cap now = {}
  BY DEF NewOrChanged, Deleted
<1>4. /\ Touched(r)' \subseteq now \cup Present(run[r].base.files) \cup S
      /\ S \subseteq Touched(r)'
  BY <1>1, <1>3 DEF Touched
<1>5. \A m \in now \cup Present(run[r].base.files), n \in now :
          TagOf(m) = TagOf(n) => m = n
  BY DEF TagsClear, OneOwner
<1>6. \A m \in Touched(r)' \cup now, n \in now : TagOf(m) = TagOf(n) => m = n
  BY <1>4, <1>5
<1>7. OneOwner(run'[r].notes, Touched(r)')
  BY <1>1, <1>6 DEF OneOwner
<1> QED
  BY <1>1, <1>2, <1>3, <1>4, <1>7 DEF Planned

\* A journal whose target is the checkpoint in force says nothing any more.
LEMMA ForgetWritten ==
    ASSUME Written, TypeOK, pending # None, state # None,
           pending.target = state.id,
           UNCHANGED <<store, state, owner>>, pending' = None
    PROVE  Written'
<1>1. Doubtful = {} /\ Doubtful' = {}
  BY DEF Doubtful, Written, JournalSound, Checkpoint
<1>2. Bound' = Bound /\ Checkpoint' = Checkpoint
  BY DEF Bound, Checkpoint
<1>3. Settled'
  BY <1>1, <1>2 DEF Settled, Written
<1>4. RecordsTogether'
  BY DEF Written, RecordsTogether, RecordsFit
<1> QED
  BY <1>2, <1>3, <1>4 DEF Written, JournalAgrees, JournalSound, Unambiguous, Blank

LEMMA PlanRunInv == ASSUME Inv, NEW r \in Runs, PlanRun(r) PROVE Inv'
<1>1. TypeOK /\ TypeOK' /\ Written
  BY PlanRunType DEF Inv
<1>2. /\ pc[r] = "scan" /\ TagsClear(r)
      /\ UNCHANGED <<vault, db, store, state, owner, lock>>
  BY DEF PlanRun
<1>3. /\ run[r].db \in Stores /\ run[r].base = Checkpoint
      /\ RecordsFit(run[r].db) /\ (run[r].owned <=> owner # None)
  BY <1>2 DEF Inv, Place, Loaded
<1> PICK d \in Stores : d = run[r].db
  BY <1>3
<1>4. Checkpoint' = Checkpoint
  BY <1>2 DEF Checkpoint
<1>5. ASSUME NEW S \in SUBSET Notes, Decide(r, S),
             \A m \in S, n \in Present(run[r].notes) : TagOf(m) = TagOf(n) => m = n,
             Written', RecordsFit(d)',
             pending' # None => /\ pending' = pending /\ pending.db = run[r].db
                                /\ pending.base = run[r].base.id
                                /\ pending.paths = S
      PROVE  Inv'
  <2>1. Planned(r)' /\ S \subseteq Touched(r)'
    BY <1>1, <1>2, <1>5, DecidePlans
  <2>2. /\ run'[r].db = run[r].db /\ run'[r].base = run[r].base
        /\ run'[r].owned = run[r].owned /\ run'[r].target = run[r].base.id
        /\ pc' = [pc EXCEPT ![r] = IF Touched(r)' = {} THEN "check" ELSE "stage"]
    BY <1>1, <1>5, DecideFields
  <2>3. /\ run'[r].db \in Stores /\ run'[r].base = Checkpoint'
        /\ run'[r].db = d /\ RecordsFit(d)' /\ (run'[r].owned <=> owner' # None)
    BY <1>2, <1>3, <1>4, <1>5, <2>2
  <2>4. CASE Touched(r)' = {}
    <3>1. pending' = None
      BY <1>1, <1>5, <2>1, <2>4 DEF Written, JournalSound
    <3>2. Nothing(r)' /\ Applied(r, Touched(r))'
      BY <2>2, <2>4, <3>1 DEF Nothing, Applied
    <3>3. pc' = [pc EXCEPT ![r] = "check"] /\ pc'[r] = "check"
      BY <1>1, <2>2, <2>4 DEF TypeOK
    <3>4. Place(r)'
      BY <2>1, <2>3, <3>2, <3>3
         DEF Place, Loaded, Deciding, Writing, Closing, Ending, RecordsFit
    <3> QED
      BY <1>1, <1>2, <1>5, <3>3, <3>4, MoveInv
  <2>5. CASE Touched(r)' # {}
    <3>1. pc' = [pc EXCEPT ![r] = "stage"] /\ pc'[r] = "stage"
      BY <1>1, <2>2, <2>5 DEF TypeOK
    <3>2. pending' # None => /\ pending'.db = run'[r].db
                             /\ pending'.base = run'[r].base.id
                             /\ pending'.paths \subseteq Touched(r)'
      BY <1>5, <2>1, <2>2
    <3>3. Place(r)'
      BY <2>1, <2>3, <2>5, <3>1, <3>2
         DEF Place, Loaded, Deciding, Writing, Closing, Ending, RecordsFit
    <3> QED
      BY <1>1, <1>2, <1>5, <3>1, <3>3, MoveInv
  <2> QED
    BY <2>4, <2>5
<1>6. CASE pending = None /\ Decide(r, {}) /\ UNCHANGED pending
  <2>1. Written'
    BY <1>1, <1>2, <1>6, WrittenStays DEF disk
  <2>2. RecordsFit(d)'
    BY <1>2, <1>3, <1>6 DEF RecordsFit
  <2> QED
    BY <1>5, <1>6, <2>1, <2>2
<1>7. CASE Completed(r) /\ Decide(r, {}) /\ ClearCompleted
  <2>1. pending # None /\ state # None /\ pending.target = state.id
    BY <1>1, <1>3, <1>7 DEF Completed, Checkpoint, Written, JournalSound
  <2>2. Written'
    BY <1>1, <1>2, <1>7, <2>1, ForgetWritten DEF ClearCompleted
  <2>3. RecordsFit(d)'
    BY <1>2, <1>3, <2>1 DEF RecordsFit
  <2> QED
    BY <1>5, <1>7, <2>2, <2>3 DEF ClearCompleted
<1>8. CASE Active(r) /\ Decide(r, pending.paths) /\ UNCHANGED pending
  <2>1. pending.paths \in SUBSET Notes
    BY <1>1, <1>8 DEF Active, TypeOK, Journal
  <2>2. Written'
    BY <1>1, <1>2, <1>8, WrittenStays DEF disk
  <2>3. RecordsFit(d)'
    BY <1>2, <1>3, <1>8 DEF RecordsFit
  <2> QED
    BY <1>5, <1>8, <2>1, <2>2, <2>3 DEF Active, OneOwner
<1> QED
  BY <1>6, <1>7, <1>8 DEF PlanRun

LEMMA StageInv ==
    ASSUME Inv, NEW r \in Runs, NEW n \in Notes, Stage(r, n) PROVE Inv'
<1>1. TypeOK /\ TypeOK' /\ Place(r)
  BY StageType DEF Inv
<1>2. Written'
  BY WrittenStays DEF Inv, Stage
<1>3. Kept(r)
  <2>1. run[r] \in Run
    BY <1>1 DEF TypeOK
  <2>2. run'[r] = [run[r] EXCEPT !.left = run[r].left \ {n}]
    BY <1>1 DEF Stage, TypeOK
  <2> QED
    BY <2>1, <2>2 DEF Kept, Run
<1>4. Planned(r) => Planned(r)' /\ Touched(r)' = Touched(r)
  BY <1>3, KeptPlan
<1>5. Checkpoint' = Checkpoint
  BY DEF Stage, disk, Checkpoint
<1>6. Place(r)'
  BY <1>1, <1>3, <1>4, <1>5 DEF Place, Stage, disk, Kept, RecordsFit,
                                Loaded, Deciding, Writing, Closing, Ending
<1> QED
  BY <1>1, <1>2, <1>6, StayInv DEF Stage

-----------------------------------------------------------------------------
(* Writing.                                                                *)

LEMMA WriteJournalInv == ASSUME Inv, NEW r \in Runs, WriteJournal(r) PROVE Inv'
<1>1. TypeOK /\ Written /\ Place(r) /\ pc[r] = "stage"
  BY DEF Inv, WriteJournal
<1> PICK d \in Stores : d = run[r].db
  BY <1>1 DEF Place
<1>2. /\ run[r].base = Checkpoint /\ RecordsFit(d)
      /\ run[r].owned <=> owner # None
      /\ Planned(r) /\ Touched(r) # {}
      /\ pending # None => /\ pending.db = d
                           /\ pending.base = Checkpoint.id
                           /\ pending.paths \subseteq Touched(r)
  BY <1>1 DEF Place, Loaded, Deciding
<1>3. TypeOK'
  BY <1>1, WriteJournalType DEF Place
<1> PICK c \in Ids \ NamedIds :
           /\ pending' = [base |-> run[r].base.id, target |-> c,
                          baseFiles |-> run[r].base.files,
                          targetFiles |-> run[r].notes,
                          paths |-> run[r].studied \cup run[r].faded,
                          db |-> run[r].db]
           /\ run' = [run EXCEPT ![r].target = c]
  BY DEF WriteJournal
<1>4. c # EmptyId /\ c # Checkpoint.id
  BY DEF NamedIds
<1>5. UNCHANGED <<vault, db, store, state, owner, lock>> /\ Checkpoint' = Checkpoint
  BY DEF WriteJournal, Checkpoint
<1>6. /\ run'[r].db = d /\ run'[r].base = run[r].base
      /\ run'[r].owned = run[r].owned /\ run'[r].notes = run[r].notes
      /\ run'[r].studied = run[r].studied /\ run'[r].faded = run[r].faded
      /\ run'[r].target = c
  BY <1>1 DEF TypeOK, Run
<1>7. /\ pending' # None /\ pending'.db = d
      /\ pending'.base = Checkpoint.id /\ pending'.baseFiles = Checkpoint.files
      /\ pending'.target = c /\ pending'.targetFiles = run[r].notes
      /\ pending'.paths = Touched(r)
  <2>1. pending' \in Journal
    BY <1>1 DEF TypeOK, Run, Journal
  <2> QED
    BY <2>1, <1>2, RecordAssumption DEF Touched
<1>8. Settled'
  <2>1. Doubtful' = TagsOf(Touched(r)) /\ Bound' = d
    BY <1>2, <1>5, <1>7 DEF Doubtful, Bound, RecordsFit
  <2>2. ASSUME NEW t \in Tags \ TagsOf(Touched(r))
        PROVE  store[d][t] = Recorded(Checkpoint.files, t)
    <3>1. CASE state = None /\ pending = None
      <4>1. Recorded(Checkpoint.files, t) = None
        BY <3>1, NoFilesType, RecordedNone DEF Checkpoint, Present
      <4> QED
        BY <3>1, <4>1, <1>1 DEF Written, Blank
    <3>2. CASE state # None \/ pending # None
      <4>1. Bound = d
        BY <3>2, <1>2 DEF Bound, RecordsFit
      <4>2. t \notin Doubtful
        BY <1>2 DEF Doubtful, TagsOf
      <4> QED
        BY <4>1, <4>2, <1>1 DEF Written, Settled
    <3> QED
      BY <3>1, <3>2
  <2> QED
    BY <2>1, <2>2, <1>5 DEF Settled
<1>9. Written'
  <2>1. RecordsTogether'
    BY <1>2, <1>5, <1>7 DEF RecordsTogether, RecordsFit
  <2> QED
    BY <2>1, <1>1, <1>2, <1>4, <1>5, <1>7, <1>8
       DEF Written, JournalAgrees, JournalSound, Unambiguous, Blank
<1>10. Planned(r)' /\ Touched(r)' = Touched(r)
  BY <1>2, <1>6 DEF Planned, Touched, NewOrChanged, Deleted, TagsClear
<1>11. OwnJournal(r)'
  BY <1>2, <1>6, <1>7, <1>10 DEF OwnJournal
<1>12. /\ run'[r].base = Checkpoint' /\ RecordsFit(d)'
       /\ run'[r].owned <=> owner' # None
  BY <1>2, <1>5, <1>6, <1>7 DEF RecordsFit
<1>13. pc' = [pc EXCEPT ![r] = IF run[r].owned THEN "open" ELSE "own"]
  BY DEF WriteJournal, Goto
<1>14. CASE run[r].owned
  <2>1. pc' = [pc EXCEPT ![r] = "open"] /\ pc'[r] = "open"
    BY <1>1, <1>13, <1>14 DEF TypeOK
  <2>2. owner' = d
    BY <1>2, <1>5, <1>14 DEF RecordsFit
  <2>3. Place(r)'
    BY <2>1, <2>2, <1>6, <1>10, <1>11, <1>12
       DEF Place, Loaded, Deciding, Writing, Closing, Ending, RecordsFit
  <2> QED
    BY <2>1, <2>3, <1>1, <1>3, <1>5, <1>9, MoveInv
<1>15. CASE ~run[r].owned
  <2>1. pc' = [pc EXCEPT ![r] = "own"] /\ pc'[r] = "own"
    BY <1>1, <1>13, <1>15 DEF TypeOK
  <2>2. Place(r)'
    BY <2>1, <1>6, <1>10, <1>11, <1>12
       DEF Place, Loaded, Deciding, Writing, Closing, Ending, RecordsFit
  <2> QED
    BY <2>1, <2>2, <1>1, <1>3, <1>5, <1>9, MoveInv
<1> QED
  BY <1>14, <1>15

\* The owner record changes nothing but the owner.
LEMMA OwnerWritten ==
    ASSUME Written, TypeOK, NEW d \in Stores, RecordsFit(d),
           state # None \/ pending # None, pending # None => pending.db = d,
           UNCHANGED <<store, state, pending>>, owner' = d
    PROVE  Written' /\ RecordsFit(d)'
<1>1. /\ Doubtful' = Doubtful /\ Bound' = Bound /\ Checkpoint' = Checkpoint
  BY DEF Doubtful, Bound, Checkpoint
<1>2. RecordsFit(d)'
  BY DEF RecordsFit
<1>3. RecordsTogether'
  BY <1>2 DEF RecordsTogether
<1> QED
  BY <1>1, <1>2, <1>3
     DEF Written, JournalAgrees, JournalSound, Unambiguous, Blank, Settled

LEMMA WriteOwnerInv == ASSUME Inv, NEW r \in Runs, WriteOwner(r) PROVE Inv'
<1>1. TypeOK /\ Written /\ Place(r) /\ pc[r] \in {"own", "own_late"}
  BY DEF Inv, WriteOwner
<1> PICK d \in Stores : d = run[r].db
  BY <1>1 DEF Place
<1>2. TypeOK'
  BY <1>1, WriteOwnerType DEF Place
<1>3. /\ UNCHANGED <<vault, db, store, state, pending, lock>> /\ owner' = d
      /\ Checkpoint' = Checkpoint
  BY DEF WriteOwner, Checkpoint
<1>4. /\ run'[r].db = d /\ run'[r].base = run[r].base
      /\ run'[r].owned /\ run'[r].notes = run[r].notes
      /\ run'[r].studied = run[r].studied /\ run'[r].faded = run[r].faded
      /\ run'[r].target = run[r].target
  <2>1. run[r] \in Run
    BY <1>1 DEF TypeOK
  <2>2. [run[r] EXCEPT !.owned = TRUE] \in Run
    BY <2>1 DEF Run
  <2>3. run'[r] = [run[r] EXCEPT !.owned = TRUE]
    BY <1>1 DEF TypeOK, WriteOwner
  <2> QED
    BY <2>1, <2>3 DEF Run
<1>5. /\ RecordsFit(d)
      /\ state # None \/ pending # None
      /\ pending # None => pending.db = d
  BY <1>1 DEF Place, Loaded, Deciding, Writing, Closing, Ending, OwnJournal
<1>6. Written' /\ RecordsFit(d)'
  BY <1>1, <1>3, <1>5, OwnerWritten
<1>7. owner' # None
  BY <1>3, NoneAssumption
<1>8. CASE pc[r] = "own"
  <2>1. pc' = [pc EXCEPT ![r] = "open"] /\ pc'[r] = "open"
    BY <1>1, <1>8 DEF TypeOK, WriteOwner, Goto
  <2>2. Planned(r) /\ OwnJournal(r) /\ run[r].base = Checkpoint
    BY <1>1, <1>8 DEF Place, Loaded, Deciding, Writing
  <2>3. Planned(r)' /\ Touched(r)' = Touched(r)
    BY <1>4, <2>2 DEF Planned, Touched, NewOrChanged, Deleted, TagsClear
  <2>4. OwnJournal(r)'
    BY <1>3, <1>4, <2>2, <2>3 DEF OwnJournal
  <2>5. Place(r)'
    BY <1>3, <1>4, <1>6, <1>7, <2>1, <2>2, <2>3, <2>4
       DEF Place, Loaded, Deciding, Writing, Closing, Ending, RecordsFit
  <2> QED
    BY <1>1, <1>2, <1>3, <1>6, <2>1, <2>5, MoveInv
<1>9. CASE pc[r] = "own_late"
  <2>1. pc' = [pc EXCEPT ![r] = "clear"] /\ pc'[r] = "clear"
    BY <1>1, <1>9 DEF TypeOK, WriteOwner, Goto
  <2>2. state # None /\ (pending # None => pending.target = state.id)
    BY <1>1, <1>9 DEF Place, Ending
  <2>3. Place(r)'
    BY <1>3, <1>4, <1>5, <1>6, <2>1, <2>2
       DEF Place, Loaded, Deciding, Writing, Closing, Ending, RecordsFit
  <2> QED
    BY <1>1, <1>2, <1>3, <1>6, <2>1, <2>3, MoveInv
<1> QED
  BY <1>1, <1>8, <1>9

-----------------------------------------------------------------------------
(* The store is open.                                                      *)

LEMMA OpenStoreInv == ASSUME Inv, NEW r \in Runs, OpenStore(r) PROVE Inv'
<1>1. TypeOK /\ TypeOK' /\ Place(r) /\ pc[r] = "open" /\ db = run[r].db
  BY OpenStoreType DEF Inv, OpenStore, SameStore
<1>2. Written'
  BY WrittenStays DEF Inv, OpenStore
<1>3. Kept(r) /\ run'[r].left = Touched(r)
  <2>1. run[r] \in Run
    BY <1>1 DEF TypeOK
  <2>2. run'[r] = [run[r] EXCEPT !.left = Touched(r)]
    BY <1>1 DEF OpenStore, TypeOK, Touched
  <2> QED
    BY <2>1, <2>2 DEF Kept, Run
<1>4. /\ Planned(r) => Planned(r)'
      /\ Touched(r)' = Touched(r)
  BY <1>3, KeptPlan
<1>5. Applied(r, Touched(r) \ run[r].left)'
  BY <1>3, <1>4 DEF Applied
<1>6. /\ pc' = [pc EXCEPT ![r] = "apply"] /\ pc'[r] = "apply"
      /\ Checkpoint' = Checkpoint
  BY <1>1 DEF OpenStore, Goto, TypeOK, Checkpoint, disk
<1>7. OwnJournal(r)'
  BY <1>1, <1>3, <1>4 DEF Place, Writing, OwnJournal, Kept, OpenStore, disk
<1>8. Place(r)'
  BY <1>1, <1>3, <1>4, <1>5, <1>6, <1>7
     DEF Place, OpenStore, disk, Kept, RecordsFit,
         Loaded, Deciding, Writing, Closing, Ending
<1> QED
  BY <1>1, <1>2, <1>6, <1>8, MoveInv DEF OpenStore

\* One document of the plan is put in the store.
LEMMA PutInv ==
    ASSUME Inv, NEW r \in Runs, NEW n \in Notes, pc[r] = "apply",
           n \in run[r].left \cap Touched(r), Put(r, n, Wanted(r, n)), TypeOK',
           \A m \in Touched(r) : TagOf(m) = TagOf(n) => Wanted(r, m) = Wanted(r, n)
    PROVE  Inv'
<1>1. TypeOK /\ Written /\ Place(r)
  BY DEF Inv
<1>2. /\ db = run[r].db /\ db \in Stores /\ RecordsFit(db) /\ OwnJournal(r)
      /\ Planned(r) /\ run[r].base = Checkpoint
      /\ Applied(r, Touched(r) \ run[r].left)
  BY <1>1 DEF Place, Loaded, Deciding, Writing
<1>3. Doubtful = TagsOf(Touched(r)) /\ Bound = db
  BY <1>2 DEF Doubtful, Bound, OwnJournal, RecordsFit
<1>4. /\ UNCHANGED <<vault, db, state, pending, owner, lock, pc>>
      /\ Doubtful' = Doubtful /\ Bound' = Bound /\ Checkpoint' = Checkpoint
  BY DEF Put, Doubtful, Bound, Checkpoint
<1>5. /\ store'[db][TagOf(n)] = Wanted(r, n)
      /\ \A t \in Tags : t # TagOf(n) => store'[db][t] = store[db][t]
  BY <1>1, <1>2, TagAssumption DEF Put, TypeOK
<1>6. Settled'
  BY <1>1, <1>3, <1>4, <1>5 DEF Settled, Written, TagsOf
<1>7. Written'
  BY <1>1, <1>2, <1>4, <1>6
     DEF Written, OwnJournal, RecordsTogether, RecordsFit, JournalAgrees,
         JournalSound, Unambiguous, Blank
<1>8. Kept(r) /\ run'[r].left = run[r].left \ {n}
  <2>1. run[r] \in Run
    BY <1>1 DEF TypeOK
  <2>2. run'[r] = [run[r] EXCEPT !.left = run[r].left \ {n}]
    BY <1>1 DEF Put, TypeOK
  <2> QED
    BY <2>1, <2>2 DEF Kept, Run
<1>9. /\ Planned(r)' /\ Touched(r)' = Touched(r)
      /\ \A m \in Notes : Wanted(r, m)' = Wanted(r, m)
  BY <1>2, <1>8, KeptPlan
<1>10. Applied(r, Touched(r) \ run[r].left)'
  <2> SUFFICES ASSUME NEW m \in Touched(r), m \notin run'[r].left
               PROVE  store'[db][TagOf(m)] = Wanted(r, m)
    BY <1>1, <1>2, <1>8, <1>9, TouchedType DEF Applied, Kept
  <2>1. m \in Notes /\ TagOf(m) \in Tags
    BY <1>1, TouchedType, TagAssumption
  <2>2. CASE TagOf(m) = TagOf(n)
    BY <1>5, <2>2
  <2>3. CASE TagOf(m) # TagOf(n)
    <3>1. m \in Touched(r) \ run[r].left
      BY <1>8, <2>3
    <3> QED
      BY <1>2, <1>5, <2>1, <2>3, <3>1 DEF Applied
  <2> QED
    BY <2>2, <2>3
<1>11. OwnJournal(r)'
  BY <1>2, <1>4, <1>8, <1>9 DEF OwnJournal, Kept
<1>12. RecordsFit(run[r].db)'
  BY <1>2, <1>4, <1>8 DEF RecordsFit, Kept
<1>13. Place(r)'
  BY <1>1, <1>2, <1>4, <1>8, <1>9, <1>10, <1>11, <1>12
     DEF Place, Kept, Loaded, Deciding, Writing, Closing, Ending
<1> QED
  BY <1>1, <1>4, <1>7, <1>13, StayInv

LEMMA StudyInv ==
    ASSUME Inv, NEW r \in Runs, NEW n \in Notes, Study(r, n) PROVE Inv'
<1>1. TypeOK /\ Planned(r) /\ pc[r] = "apply"
  BY DEF Inv, Place, Deciding, Writing, Study
<1>2. TypeOK'
  BY <1>1, StudyType DEF Planned
<1>3. /\ n \in run[r].left \cap Touched(r) /\ n \in Present(run[r].notes)
      /\ Wanted(r, n) = run[r].notes[n].text
  BY <1>1 DEF Study, Touched, Wanted, Planned
<1>4. \A m \in Touched(r) : TagOf(m) = TagOf(n) => m = n
  BY <1>1, <1>3 DEF Planned, OneOwner
<1> QED
  BY <1>1, <1>2, <1>3, <1>4, PutInv DEF Study

LEMMA FadeInv ==
    ASSUME Inv, NEW r \in Runs, NEW n \in Notes, Fade(r, n) PROVE Inv'
<1>1. TypeOK /\ Planned(r) /\ pc[r] = "apply"
  BY DEF Inv, Place, Deciding, Writing, Fade
<1>2. TypeOK'
  BY <1>1, FadeType
<1>3. /\ n \in run[r].left \cap Touched(r) /\ n \notin Present(run[r].notes)
      /\ Wanted(r, n) = None
  BY <1>1 DEF Fade, Touched, Wanted, Planned
<1>4. \A m \in Touched(r) : TagOf(m) = TagOf(n) => Wanted(r, m) = None
  <2>1. \A m \in Touched(r) : TagOf(m) = TagOf(n) => m \notin Present(run[r].notes)
    BY <1>1, <1>3 DEF Planned, OneOwner
  <2> QED
    BY <1>1, <2>1 DEF Planned, Wanted
<1> QED
  BY <1>1, <1>2, <1>3, <1>4, PutInv DEF Fade

LEMMA CloseStoreInv == ASSUME Inv, NEW r \in Runs, CloseStore(r) PROVE Inv'
<1>1. TypeOK /\ TypeOK' /\ Place(r) /\ pc[r] = "apply" /\ run[r].left = {}
  BY CloseStoreType DEF Inv, CloseStore
<1>2. Written'
  BY WrittenStays DEF Inv, CloseStore
<1>3. /\ pc' = [pc EXCEPT ![r] = "check"] /\ pc'[r] = "check"
      /\ Checkpoint' = Checkpoint /\ Touched(r) \ {} = Touched(r)
  BY <1>1 DEF CloseStore, Goto, TypeOK, Checkpoint, disk
<1>4. /\ OwnJournal(r) /\ Planned(r) /\ run[r].base = Checkpoint
      /\ RecordsFit(run[r].db) /\ (run[r].owned <=> owner # None)
      /\ run[r].db \in Stores /\ Applied(r, Touched(r))
  BY <1>1, <1>3 DEF Place, Loaded, Deciding, Writing
<1>5. /\ OwnJournal(r)' /\ Planned(r)' /\ RecordsFit(run[r].db)'
      /\ Applied(r, Touched(r))'
  BY <1>4 DEF CloseStore, disk, OwnJournal, Planned, RecordsFit, Applied,
              Touched, Wanted, NewOrChanged, Deleted, TagsClear
<1>6. Place(r)'
  BY <1>3, <1>4, <1>5 DEF Place, CloseStore, disk,
                          Loaded, Deciding, Writing, Closing, Ending
<1> QED
  BY <1>1, <1>2, <1>3, <1>6, MoveInv DEF CloseStore

LEMMA RecheckInv == ASSUME Inv, NEW r \in Runs, Recheck(r) PROVE Inv'
<1>1. TypeOK /\ TypeOK' /\ Place(r) /\ pc[r] = "check"
  BY RecheckType DEF Inv, Recheck
<1>2. Written'
  BY WrittenStays DEF Inv, Recheck
<1>3. /\ pc' = [pc EXCEPT ![r] = "commit"] /\ pc'[r] = "commit"
      /\ Checkpoint' = Checkpoint
  BY <1>1 DEF Recheck, Goto, TypeOK, Checkpoint, disk
<1>4. /\ OwnJournal(r) \/ Nothing(r)
      /\ Planned(r) /\ run[r].base = Checkpoint
      /\ RecordsFit(run[r].db) /\ (run[r].owned <=> owner # None)
      /\ run[r].db \in Stores /\ Applied(r, Touched(r))
  BY <1>1, <1>3 DEF Place, Loaded, Deciding, Closing
<1>5. /\ OwnJournal(r)' \/ Nothing(r)'
      /\ Planned(r)' /\ RecordsFit(run[r].db)' /\ Applied(r, Touched(r))'
  BY <1>4 DEF Recheck, disk, OwnJournal, Nothing, Planned, RecordsFit, Applied,
              Touched, Wanted, NewOrChanged, Deleted, TagsClear
<1>6. Place(r)'
  BY <1>3, <1>4, <1>5 DEF Place, Recheck, disk,
                          Loaded, Deciding, Writing, Closing, Ending
<1> QED
  BY <1>1, <1>2, <1>3, <1>6, MoveInv DEF Recheck

-----------------------------------------------------------------------------
(* The end of the run, and all steps together.                             *)

\* What the snapshot says of a tag no touched document has, the checkpoint
\* said already.
LEMMA UntouchedAgree ==
    ASSUME Inv, NEW r \in Runs, pc[r] = "commit",
           NEW t \in Tags, t \notin TagsOf(Touched(r))
    PROVE  Recorded(run[r].notes, t) = Recorded(Checkpoint.files, t)
<1> DEFINE now == run[r].notes
           old == Checkpoint.files
<1>1. Planned(r) /\ run[r].base.files = old /\ Unambiguous
  BY DEF Inv, Place, Loaded, Deciding, Closing, Written
<1>2. \A n \in Notes : TagOf(n) = t => n \notin Touched(r)
  BY DEF TagsOf
<1>3. CASE \E n \in Present(now) : TagOf(n) = t
  <2>1. PICK n \in Present(now) : TagOf(n) = t
    BY <1>3
  <2>2. n \in Notes /\ n \notin NewOrChanged(r)
    BY <1>1, <1>2, <2>1 DEF Planned, Present, Touched
  <2>3. n \in Present(old) /\ old[n].text = now[n].text
    BY <1>1, <2>1, <2>2 DEF NewOrChanged, Present
  <2>4. \A m \in Present(now) : TagOf(m) = TagOf(n) => m = n
    BY <1>1, <2>1 DEF Planned, TagsClear, OneOwner
  <2>5. \A m \in Present(old) : TagOf(m) = TagOf(n) => m = n
    BY <1>1, <2>3 DEF Unambiguous
  <2>6. Recorded(now, TagOf(n)) = now[n].text
    BY <2>1, <2>4, RecordedOne
  <2>7. Recorded(old, TagOf(n)) = old[n].text
    BY <2>3, <2>5, RecordedOne
  <2> QED
    BY <2>1, <2>3, <2>6, <2>7
<1>4. CASE \A n \in Present(now) : TagOf(n) # t
  <2>1. ASSUME NEW n \in Present(old), TagOf(n) = t PROVE FALSE
    <3>1. n \in Notes /\ n \notin Deleted(r)
      BY <1>1, <1>2, <2>1 DEF Planned, Present, Touched
    <3> QED
      BY <1>1, <1>4, <2>1, <3>1 DEF Deleted
  <2>2. Recorded(old, t) = None
    BY <2>1, RecordedNone
  <2>3. Recorded(now, t) = None
    BY <1>4, RecordedNone
  <2> QED
    BY <2>2, <2>3
<1> QED
  BY <1>3, <1>4

\* Before the new checkpoint is written, the store holds what it says.
LEMMA ReadyToCommit ==
    ASSUME Inv, NEW r \in Runs, pc[r] = "commit"
    PROVE  \A t \in Tags : store[run[r].db][t] = Recorded(run[r].notes, t)
<1> SUFFICES ASSUME NEW t \in Tags
             PROVE  store[run[r].db][t] = Recorded(run[r].notes, t)
  OBVIOUS
<1>1. TypeOK /\ Written /\ Place(r)
  BY DEF Inv
<1>2. /\ run[r].db \in Stores /\ run[r].base = Checkpoint
      /\ RecordsFit(run[r].db) /\ Planned(r)
      /\ OwnJournal(r) \/ Nothing(r)
      /\ Applied(r, Touched(r))
  BY <1>1 DEF Place, Loaded, Deciding, Closing
<1>3. CASE t \in TagsOf(Touched(r))
  <2>1. PICK n \in Touched(r) : TagOf(n) = t
    BY <1>3 DEF TagsOf
  <2>2. store[run[r].db][t] = Wanted(r, n)
    BY <1>2, <2>1 DEF Applied
  <2>3. CASE n \in run[r].studied
    <3>1. n \in Present(run[r].notes)
      BY <1>2, <2>3 DEF Planned
    <3>2. \A m \in Present(run[r].notes) : TagOf(m) = TagOf(n) => m = n
      BY <1>2, <2>1 DEF Planned, OneOwner
    <3> QED
      BY <2>1, <2>2, <2>3, <3>1, <3>2, RecordedOne DEF Wanted
  <2>4. CASE n \notin run[r].studied
    <3>1. n \notin Present(run[r].notes)
      BY <1>2, <2>1, <2>4 DEF Planned, Touched
    <3>2. \A m \in Present(run[r].notes) : TagOf(m) # t
      BY <1>2, <2>1, <3>1 DEF Planned, OneOwner
    <3> QED
      BY <2>2, <2>4, <3>2, RecordedNone DEF Wanted
  <2> QED
    BY <2>3, <2>4
<1>4. CASE t \notin TagsOf(Touched(r))
  <2>1. Recorded(run[r].notes, t) = Recorded(Checkpoint.files, t)
    BY <1>4, UntouchedAgree
  <2>2. CASE state = None /\ pending = None
    <3>1. Recorded(Checkpoint.files, t) = None
      BY <2>2, NoFilesType, RecordedNone DEF Checkpoint, Present
    <3> QED
      BY <1>1, <1>2, <2>1, <2>2, <3>1 DEF Written, Blank
  <2>3. CASE state # None \/ pending # None
    <3>1. Bound = run[r].db
      BY <1>2, <2>3 DEF Bound, RecordsFit, OwnJournal, Nothing
    <3>2. t \notin Doubtful
      BY <1>2, <1>4 DEF Doubtful, OwnJournal, Nothing
    <3> QED
      BY <1>1, <2>1, <3>1, <3>2 DEF Written, Settled
  <2> QED
    BY <2>2, <2>3
<1> QED
  BY <1>3, <1>4

\* What a checkpoint written by run r looks like.
LEMMA Committed ==
    ASSUME Inv, NEW r \in Runs, WriteState(r)
    PROVE  /\ state' # None /\ state'.id = run[r].target
           /\ state'.files = run[r].notes /\ state'.db = run[r].db
           /\ Checkpoint'.id = run[r].target /\ Checkpoint'.files = run[r].notes
           /\ Bound' = run[r].db
           /\ Doubtful' = {}
<1>1. TypeOK /\ Written /\ Place(r) /\ pc[r] = "commit"
  BY DEF Inv, WriteState
<1>2. run[r].db \in Stores /\ (OwnJournal(r) \/ Nothing(r))
  BY <1>1 DEF Place, Deciding, Closing
<1>3. state' = [id |-> run[r].target, files |-> run[r].notes, db |-> run[r].db]
  BY DEF WriteState
<1>4. state' \in StateRecord
  BY <1>1, <1>2, <1>3 DEF TypeOK, Run, StateRecord
<1>5. state' # None
  BY <1>4, RecordAssumption
<1>6. Checkpoint'.id = run[r].target /\ Checkpoint'.files = run[r].notes
  BY <1>3, <1>5 DEF Checkpoint
<1>7. Doubtful' = {}
  BY <1>1, <1>2, <1>6
     DEF WriteState, Doubtful, OwnJournal, Nothing, Written, JournalSound
<1> QED
  BY <1>3, <1>5, <1>6, <1>7 DEF Bound

LEMMA WriteStateInv == ASSUME Inv, NEW r \in Runs, WriteState(r) PROVE Inv'
<1>1. TypeOK /\ Written /\ Place(r) /\ pc[r] = "commit"
  BY DEF Inv, WriteState
<1> PICK d \in Stores : d = run[r].db
  BY <1>1 DEF Place
<1>2. TypeOK'
  BY <1>1, WriteStateType DEF Place
<1>3. /\ RecordsFit(d) /\ Planned(r) /\ run[r].base = Checkpoint
      /\ OwnJournal(r) \/ Nothing(r)
  BY <1>1 DEF Place, Loaded, Deciding, Closing
<1>4. /\ state' # None /\ state'.id = run[r].target
      /\ state'.files = run[r].notes /\ state'.db = d
      /\ Checkpoint'.id = run[r].target /\ Checkpoint'.files = run[r].notes
      /\ Bound' = d /\ Doubtful' = {}
  BY Committed
<1>5. UNCHANGED <<vault, db, store, pending, owner, lock, run>>
  BY DEF WriteState
<1>6. Settled'
  BY <1>1, <1>4, <1>5, ReadyToCommit DEF Settled
<1>7. RecordsFit(d)' /\ (pending' # None => pending'.db = d)
  BY <1>3, <1>4, <1>5 DEF RecordsFit, OwnJournal, Nothing
<1>8. Unambiguous'
  BY <1>3, <1>4 DEF Planned, TagsClear, OneOwner, Unambiguous
<1>9. JournalAgrees'
  BY <1>3, <1>4, <1>5 DEF JournalAgrees, OwnJournal, Nothing
<1>10. RecordsTogether'
  BY <1>7 DEF RecordsTogether
<1>11. Written'
  BY <1>1, <1>4, <1>5, <1>6, <1>8, <1>9, <1>10 DEF Written, JournalSound, Blank
<1>12. pending' # None => pending'.db = d /\ pending'.target = state'.id
  BY <1>3, <1>4, <1>5 DEF OwnJournal, Nothing
<1>13. ASSUME NEW l \in Ending, pc' = [pc EXCEPT ![r] = l] PROVE Inv'
  <2>1. pc'[r] = l
    BY <1>1, <1>13 DEF TypeOK
  <2>2. Place(r)'
    BY <1>4, <1>5, <1>7, <1>12, <2>1
       DEF Place, Loaded, Deciding, Writing, Closing, Ending, RecordsFit
  <2> QED
    BY <1>1, <1>2, <1>5, <1>11, <1>13, <2>2, MoveInv DEF Ending
<1> QED
  BY <1>13 DEF WriteState, Goto, Ending

LEMMA ClearPendingInv == ASSUME Inv, NEW r \in Runs, ClearPending(r) PROVE Inv'
<1>1. TypeOK /\ TypeOK' /\ Written /\ Place(r) /\ pc[r] = "clear"
  BY ClearPendingType DEF Inv, ClearPending
<1>2. state # None /\ (pending # None => pending.target = state.id)
  BY <1>1 DEF Place, Ending
<1>3. UNCHANGED <<vault, db, store, state, owner>> /\ pending' = None
  BY DEF ClearPending
<1>4. Written'
  <2>1. CASE pending = None
    BY <1>1, <1>3, <2>1, WrittenStays DEF disk
  <2>2. CASE pending # None
    BY <1>1, <1>2, <1>3, <2>2, ForgetWritten
  <2> QED
    BY <2>1, <2>2
<1> QED
  BY <1>1, <1>4, EndInv DEF ClearPending

LEMMA StutterInv == Inv /\ UNCHANGED vars => Inv'
<1> SUFFICES ASSUME Inv, UNCHANGED vars PROVE Inv'
  OBVIOUS
<1>1. TypeOK' /\ Alone'
  BY DEF Inv, TypeOK, Alone, vars, disk
<1>2. Written' /\ Checkpoint' = Checkpoint
  BY WrittenStays DEF Inv, vars, disk, Checkpoint
<1>3. \A r \in Runs : Place(r)'
  BY <1>2, PlaceStays DEF Inv, vars
<1> QED
  BY <1>1, <1>2, <1>3 DEF Inv

LEMMA NextInv == Inv /\ [Next]_vars => Inv'
<1> SUFFICES ASSUME Inv, [Next]_vars PROVE Inv'
  OBVIOUS
<1>1. ASSUME NEW r \in Runs, RunStep(r) PROVE Inv'
  BY <1>1, StartInv, LoadInv, PlanRunInv, WriteJournalInv, WriteOwnerInv,
     OpenStoreInv, CloseStoreInv, RecheckInv, WriteStateInv, ClearPendingInv,
     ReadNoteInv, StageInv, StudyInv, FadeInv DEF RunStep
<1> QED
  BY <1>1, FailInv, ApplyFailsInv, EditInv, ReplaceStoreInv, StutterInv DEF Next

\* The invariant, the types among it.
THEOREM Invariance == Spec => []Inv
<1> QED
  BY InitInv, NextInv, PTL DEF Spec

\* Every variable keeps its type, however runs, crashes and edits interleave.
THEOREM TypeCorrect == Spec => []TypeOK
<1>1. Inv => TypeOK
  BY DEF Inv
<1> QED
  BY <1>1, Invariance, PTL

\* Whatever the moment of a crash, the three records are about one store file,
\* and no owner record stands alone.
THEOREM RecordsTogetherHolds == Spec => []RecordsTogether
<1>1. Inv => RecordsTogether
  BY DEF Inv, Written
<1> QED
  BY <1>1, Invariance, PTL

\* Whatever the moment of a crash, the next run's load_pending recognises the
\* journal.
THEOREM JournalAgreesHolds == Spec => []JournalAgrees
<1>1. Inv => JournalAgrees
  BY DEF Inv, Written
<1> QED
  BY <1>1, Invariance, PTL

-----------------------------------------------------------------------------
(* Writing to the store.                                                   *)

\* A step that writes to a store writes to the one the journal is about, and
\* only documents the journal names.
Writes == /\ pending # None /\ pending.db = db /\ owner = db
          /\ state # None => state.db = db
          /\ Bound = db
          /\ UNCHANGED <<db, state, pending, owner>>
          /\ \A d \in Stores \ {db} : store'[d] = store[d]
          /\ \A t \in Tags \ Doubtful : store'[db][t] = store[db][t]

LEMMA ApplyWrites ==
    ASSUME Inv, NEW r \in Runs, pc[r] = "apply",
           UNCHANGED <<db, state, pending, owner>>,
           \A d \in Stores \ {db} : store'[d] = store[d],
           \A t \in Tags \ TagsOf(Touched(r)) : store'[db][t] = store[db][t]
    PROVE  Writes
<1>1. /\ db = run[r].db /\ owner = db /\ RecordsFit(db) /\ OwnJournal(r)
      /\ run[r].base = Checkpoint
  BY DEF Inv, Place, Loaded, Deciding, Writing
<1>2. Doubtful = TagsOf(Touched(r)) /\ Bound = db
  BY <1>1 DEF Doubtful, Bound, OwnJournal, RecordsFit
<1> QED
  BY <1>1, <1>2 DEF Writes, OwnJournal, RecordsFit

LEMMA ApplyFailsWrites ==
    ASSUME Inv, NEW r \in Runs, ApplyFails(r) PROVE Writes
<1>1. PICK S \in SUBSET TagsOf(Touched(r)) :
          store' = [store EXCEPT ![db] =
              [t \in Tags |-> IF t \in S THEN Torn ELSE store[db][t]]]
  BY DEF ApplyFails, Touched
<1>2. /\ \A d \in Stores \ {db} : store'[d] = store[d]
      /\ \A t \in Tags \ TagsOf(Touched(r)) : store'[db][t] = store[db][t]
  BY <1>1 DEF Inv, TypeOK
<1> QED
  BY <1>2, ApplyWrites DEF ApplyFails

LEMMA PutWrites ==
    ASSUME Inv, NEW r \in Runs, NEW n \in Touched(r), NEW x, pc[r] = "apply",
           Put(r, n, x)
    PROVE  Writes
<1>1. /\ \A d \in Stores \ {db} : store'[d] = store[d]
      /\ \A t \in Tags \ {TagOf(n)} : store'[db][t] = store[db][t]
  BY DEF Inv, TypeOK, Put
<1>2. TagOf(n) \in TagsOf(Touched(r))
  BY DEF TagsOf
<1> QED
  BY <1>1, <1>2, ApplyWrites DEF Put

LEMMA StudyWrites ==
    ASSUME Inv, NEW r \in Runs, NEW n \in Notes, Study(r, n) PROVE Writes
  BY PutWrites DEF Study, Touched

LEMMA FadeWrites ==
    ASSUME Inv, NEW r \in Runs, NEW n \in Notes, Fade(r, n) PROVE Writes
  BY PutWrites DEF Fade, Touched

\* Every other step leaves every store alone.
LEMMA StoreWrites == Inv /\ [Next]_vars => Writes \/ UNCHANGED store
<1> SUFFICES ASSUME Inv, [Next]_vars PROVE Writes \/ UNCHANGED store
  OBVIOUS
<1>1. ASSUME NEW r \in Runs, RunStep(r) PROVE Writes \/ UNCHANGED store
  <2>1. CASE Start(r) \/ Load(r) \/ OpenStore(r) \/ CloseStore(r) \/ Recheck(r)
    BY <2>1 DEF Start, Load, OpenStore, CloseStore, Recheck, disk
  <2>2. CASE \/ PlanRun(r) \/ WriteJournal(r) \/ WriteOwner(r) \/ WriteState(r)
             \/ ClearPending(r)
    BY <2>2 DEF PlanRun, WriteJournal, WriteOwner, WriteState, ClearPending
  <2>3. CASE \E n \in Notes : ReadNote(r, n) \/ Stage(r, n)
    BY <2>3 DEF ReadNote, Stage, disk
  <2> QED
    BY <1>1, <2>1, <2>2, <2>3, StudyWrites, FadeWrites DEF RunStep
<1>2. CASE \/ \E r \in Runs : Fail(r)
           \/ \E n \in Notes : Edit(n)
           \/ ReplaceStore \/ UNCHANGED vars
  BY <1>2 DEF Fail, Edit, ReplaceStore, vars, disk
<1> QED
  BY <1>1, <1>2, ApplyFailsWrites DEF Next

\* iai's store is written only while journal and owner record are on disk for
\* that very store file.
THEOREM JournalFirstHolds == Spec => JournalFirst
<1> DEFINE Guarded == \A d \in Stores : store'[d] # store[d] =>
               /\ pending # None /\ pending.db = d
               /\ owner = d
               /\ state # None => state.db = d
<1>1. Inv /\ [Next]_vars => Guarded
  BY StoreWrites DEF Writes
<1>2. Inv /\ [Next]_vars => [Guarded]_vars
  BY <1>1
<1> HIDE DEF Guarded
<1>3. Spec => [][Guarded]_vars
  BY <1>2, Invariance, PTL DEF Spec
<1> QED
  BY <1>3 DEF JournalFirst, Guarded

-----------------------------------------------------------------------------
(* The ingestion implements the ledger.                                    *)

Synced == [t \in Tags |-> Recorded(Checkpoint.files, t)]

LEMMA BoundType == TypeOK => Bound \in Stores
  BY DEF TypeOK, Bound, StateRecord, Journal

LEMMA ContentType == TypeOK => store[Bound] \in [Tags -> Texts \cup {Torn, None}]
  BY BoundType DEF TypeOK

\* Without checkpoint and journal the ledger is empty, whichever store counts.
LEMMA BlankView ==
    ASSUME Inv, state = None, pending = None
    PROVE  /\ \A d \in Stores : store[d] = [t \in Tags |-> None]
           /\ Synced = [t \in Tags |-> None]
<1>1. \A d \in Stores : store[d] = [t \in Tags |-> None]
  BY DEF Inv, TypeOK, Written, Blank
<1>2. \A t \in Tags : Recorded(Checkpoint.files, t) = None
  BY NoFilesType, RecordedNone DEF Checkpoint, Present
<1> QED
  BY <1>1, <1>2 DEF Synced

LEMMA WritesTouch == ASSUME Inv, TypeOK', Writes PROVE Ledger!Touch
<1>1. /\ Doubtful' = Doubtful /\ Bound' = Bound /\ Synced' = Synced
  BY DEF Writes, Doubtful, Bound, Synced, Checkpoint
<1>2. store'[Bound'] \in [Tags -> Texts \cup {Torn, None}]
  BY <1>1, BoundType DEF Inv, TypeOK
<1>3. \A t \in Tags \ Doubtful : store'[Bound'][t] = store[Bound][t]
  BY <1>1 DEF Writes
<1> QED
  BY <1>1, <1>2, <1>3 DEF Ledger!Touch, Synced

LEMMA WriteJournalDeclares ==
    ASSUME Inv, NEW r \in Runs, WriteJournal(r)
    PROVE  Ledger!Declare(TagsOf(Touched(r)))
<1>1. TypeOK /\ Place(r) /\ pc[r] = "stage"
  BY DEF Inv, WriteJournal
<1>2. /\ run[r].base = Checkpoint /\ RecordsFit(run[r].db) /\ run[r].db \in Stores
      /\ pending # None => /\ pending.db = run[r].db
                           /\ pending.paths \subseteq Touched(r)
  BY <1>1 DEF Place, Loaded, Deciding
<1>3. /\ pending' # None /\ pending'.db = run[r].db
      /\ pending'.base = Checkpoint.id /\ pending'.paths = Touched(r)
  <2>1. PICK c \in Ids : pending' = [base |-> run[r].base.id, target |-> c,
                          baseFiles |-> run[r].base.files,
                          targetFiles |-> run[r].notes,
                          paths |-> run[r].studied \cup run[r].faded,
                          db |-> run[r].db]
    BY DEF WriteJournal
  <2>2. pending' \in Journal
    BY <1>1, <1>2, <2>1 DEF TypeOK, Run, Journal
  <2> QED
    BY <1>2, <2>1, <2>2, RecordAssumption DEF Touched
<1>4. UNCHANGED <<store, state, owner>> /\ Checkpoint' = Checkpoint
  BY DEF WriteJournal, Checkpoint
<1>5. Doubtful' = TagsOf(Touched(r)) /\ Bound' = run[r].db
  BY <1>2, <1>3, <1>4 DEF Doubtful, Bound, RecordsFit
<1>6. Doubtful \subseteq TagsOf(Touched(r))
  BY <1>2 DEF Doubtful, TagsOf
<1>7. store[run[r].db] = store[Bound]
  <2>1. CASE state = None /\ pending = None
    BY <1>1, <1>2, <2>1, BlankView, BoundType
  <2>2. CASE state # None \/ pending # None
    BY <1>2, <2>2 DEF Bound, RecordsFit
  <2> QED
    BY <2>1, <2>2
<1> QED
  BY <1>4, <1>5, <1>6, <1>7 DEF Ledger!Declare

LEMMA WriteStateSettles ==
    ASSUME Inv, NEW r \in Runs, WriteState(r) PROVE Ledger!Settle
<1>1. TypeOK /\ Place(r) /\ pc[r] = "commit"
  BY DEF Inv, WriteState
<1>2. /\ run[r].db \in Stores /\ RecordsFit(run[r].db)
      /\ OwnJournal(r) \/ Nothing(r)
  BY <1>1 DEF Place, Loaded, Deciding, Closing
<1>3. /\ Checkpoint'.files = run[r].notes /\ Bound' = run[r].db
      /\ Doubtful' = {} /\ store' = store
  BY Committed DEF WriteState
<1>4. store[run[r].db] = store[Bound]
  <2>1. CASE state = None /\ pending = None
    BY <1>1, <1>2, <2>1, BlankView, BoundType
  <2>2. CASE state # None \/ pending # None
    BY <1>2, <2>2 DEF Bound, RecordsFit, OwnJournal, Nothing
  <2> QED
    BY <2>1, <2>2
<1>5. store[Bound] = [t \in Tags |-> Recorded(Checkpoint'.files, t)]
  <2>1. \A t \in Tags : store[Bound][t] = Recorded(Checkpoint'.files, t)
    BY <1>1, <1>3, <1>4, ReadyToCommit
  <2> QED
    BY <1>1, <2>1, ContentType
<1> QED
  BY <1>3, <1>4, <1>5 DEF Ledger!Settle

\* The ledger does not see the other steps.
LEMMA SameView ==
    ASSUME UNCHANGED store, Checkpoint' = Checkpoint, Doubtful' = Doubtful,
           store[Bound'] = store[Bound]
    PROVE  UNCHANGED Ledger!vars
  BY DEF Ledger!vars

LEMMA SameDisk == ASSUME UNCHANGED <<disk, db>> PROVE UNCHANGED Ledger!vars
<1>1. Checkpoint' = Checkpoint /\ Doubtful' = Doubtful /\ Bound' = Bound
  BY DEF disk, Checkpoint, Doubtful, Bound
<1> QED
  BY <1>1, SameView DEF disk

\* Nor the removal of a journal that has reached its checkpoint.
LEMMA ForgetUnseen ==
    ASSUME Inv, pending # None, state # None, pending.target = state.id,
           UNCHANGED <<store, state, owner>>, pending' = None
    PROVE  UNCHANGED Ledger!vars
<1>1. Doubtful = {} /\ Doubtful' = {}
  BY DEF Doubtful, Inv, Written, JournalSound, Checkpoint
<1>2. Bound' = Bound /\ Checkpoint' = Checkpoint
  BY DEF Bound, Checkpoint
<1> QED
  BY <1>1, <1>2, SameView

LEMMA StepImplements ==
    ASSUME Inv, TypeOK', NEW r \in Runs, RunStep(r)
    PROVE  [Ledger!Next]_(Ledger!vars)
<1>1. CASE Start(r) \/ Load(r) \/ OpenStore(r) \/ CloseStore(r) \/ Recheck(r)
  BY <1>1, SameDisk DEF Start, Load, OpenStore, CloseStore, Recheck
<1>2. CASE \E n \in Notes : ReadNote(r, n) \/ Stage(r, n)
  BY <1>2, SameDisk DEF ReadNote, Stage
<1>3. CASE PlanRun(r)
  <2>1. UNCHANGED <<db, store, state, owner>> /\ run[r].base = Checkpoint
    BY <1>3 DEF PlanRun, Inv, Place, Loaded
  <2>2. CASE UNCHANGED pending
    BY <2>1, <2>2, SameDisk DEF disk
  <2>3. CASE Completed(r) /\ ClearCompleted
    <3>1. pending # None /\ state # None /\ pending.target = state.id
      BY <2>1, <2>3 DEF Completed, Checkpoint, Inv, Written, JournalSound
    <3> QED
      BY <2>1, <2>3, <3>1, ForgetUnseen DEF ClearCompleted
  <2> QED
    BY <1>3, <2>2, <2>3 DEF PlanRun
<1>4. CASE WriteJournal(r)
  <2>1. TagsOf(Touched(r)) \in SUBSET Tags
    BY TouchedType, TagAssumption DEF Inv, TagsOf
  <2> QED
    BY <1>4, <2>1, WriteJournalDeclares DEF Ledger!Next
<1>5. CASE WriteOwner(r)
  <2>1. /\ UNCHANGED <<store, state, pending>> /\ Checkpoint' = Checkpoint
        /\ Doubtful' = Doubtful
    BY <1>5 DEF WriteOwner, Checkpoint, Doubtful
  <2>2. state # None \/ pending # None
    BY <1>5 DEF WriteOwner, Inv, Place, Writing, Ending, OwnJournal
  <2>3. Bound' = Bound
    BY <2>1, <2>2 DEF Bound
  <2> QED
    BY <2>1, <2>3, SameView
<1>6. CASE \E n \in Notes : Study(r, n) \/ Fade(r, n)
  BY <1>6, StudyWrites, FadeWrites, WritesTouch DEF Ledger!Next
<1>7. CASE WriteState(r)
  BY <1>7, WriteStateSettles DEF Ledger!Next
<1>8. CASE ClearPending(r)
  <2>1. state # None /\ (pending # None => pending.target = state.id)
    BY <1>8 DEF ClearPending, Inv, Place, Ending
  <2>2. UNCHANGED <<db, store, state, owner>> /\ pending' = None
    BY <1>8 DEF ClearPending
  <2>3. CASE pending = None
    BY <2>2, <2>3, SameDisk DEF disk
  <2>4. CASE pending # None
    BY <2>1, <2>2, <2>4, ForgetUnseen
  <2> QED
    BY <2>3, <2>4
<1> QED
  BY <1>1, <1>2, <1>3, <1>4, <1>5, <1>6, <1>7, <1>8 DEF RunStep

\* Outside the documents of an active journal the store holds exactly the
\* checkpoint, at every moment and after every crash.
THEOREM IngestImplementsSync == Spec => ImplementsSync
<1>1. Init => Ledger!Init
  <2> SUFFICES ASSUME Init PROVE Ledger!Init
    OBVIOUS
  <2>1. Inv /\ state = None /\ pending = None /\ Bound \in Stores
    BY InitInv, BoundType DEF Init, Inv
  <2> QED
    BY <2>1, BlankView DEF Ledger!Init, Synced, Doubtful
<1>2. Inv /\ Inv' /\ [Next]_vars => [Ledger!Next]_(Ledger!vars)
  <2> SUFFICES ASSUME Inv, Inv', [Next]_vars PROVE [Ledger!Next]_(Ledger!vars)
    OBVIOUS
  <2>1. TypeOK /\ TypeOK'
    BY DEF Inv
  <2>2. CASE \E r \in Runs : RunStep(r)
    BY <2>1, <2>2, StepImplements
  <2>3. CASE \E r \in Runs : ApplyFails(r)
    BY <2>1, <2>3, ApplyFailsWrites, WritesTouch DEF Ledger!Next
  <2>4. CASE \/ \E r \in Runs : Fail(r)
             \/ \E n \in Notes : Edit(n)
             \/ UNCHANGED vars
    BY <2>4, SameDisk DEF Fail, Edit, vars, disk
  <2>5. CASE ReplaceStore
    <3>1. UNCHANGED disk /\ Checkpoint' = Checkpoint /\ Doubtful' = Doubtful
      BY <2>5 DEF ReplaceStore, disk, Checkpoint, Doubtful
    <3>2. store[Bound'] = store[Bound]
      <4>1. CASE state = None /\ pending = None
        <5>1. Bound \in Stores /\ Bound' \in Stores
          BY <2>1, <2>5, <4>1, BoundType DEF ReplaceStore, disk, Bound, TypeOK
        <5> QED
          BY <4>1, <5>1, BlankView
      <4>2. CASE state # None \/ pending # None
        BY <3>1, <4>2 DEF Bound, disk
      <4> QED
        BY <4>1, <4>2
    <3> QED
      BY <3>1, <3>2, SameView DEF disk
  <2> QED
    BY <2>2, <2>3, <2>4, <2>5 DEF Next
<1> QED
  BY <1>1, <1>2, Invariance, PTL DEF Spec, ImplementsSync, Ledger!Spec
=============================================================================
