# Orion Personal AI: TLA+ models, checks and proofs

This directory holds TLA+ models of the parts of Orion whose correctness rests
on the order of steps: durable transactions on the owner's Markdown vault, the
human approval in front of them, the ingestion of that vault into the semantic
store, the scripts that used the transactions for the first time, the HUD that
shows them, and the controls that start and stop it all. Each model follows the source step by step; `PROJECT.json`
("map") gives the lines every definition stands for.

## 1. Inventory of the system

Orion runs natively on Windows: an external agent runtime (Hermes) loads two
Orion plugins, an external store (iai) holds semantic memory, a loopback bridge
serves a HUD to the browser, and PowerShell scripts start and stop it all.

| Component | State | Operations | Talks to | Hard behaviour |
|---|---|---|---|---|
| Production executor and recovery records (`hermes_plugins/orion-vault-actions/__init__.py`) | vault and inbox files; per transaction a directory with backup, manifest, receipt; temporary files; consumed plans | execute edit, delete, move, restore of an edit, restore of a moved source; inspect and enumerate records | file system (other programs write it too), preview cache, approval | handler threads overlap; a crash or exception between any two file-system calls; other programs between check and change |
| Previews and their cache (same file) | `_PREVIEWS`, `_PREVIEW_TIMES` (32 entries, 600 s) | preview edit, delete, move, restore; look up; evict | executor | expiry while a human decides; changed without a lock |
| Fresh-once approval (same file) | `_APPROVAL_ATTEMPTS` (32 entries, locked), consumed attempts | register, block in Hermes, observe the event, remove | Hermes `request_tool_approval`, hook `post_approval_response` | late, repeated, lost, coalesced or altered events; automatic grants; timeouts |
| Read-only tools, disposable executors, configuration (same file) | none of their own | retrieve, recommend, qualify | | none, or twins of the production executor |
| Vault ingestion (`scripts/dc02/`) | checkpoint, journal and owner record, apply lock, staged copies | one run: lock, read, scan, plan, stage, journal, study and fade, commit | vault, iai store | crash between store write and checkpoint; the vault moves during a run; overlapping runs; store replaced; tag collisions |
| Recall injector (`hermes_plugins/orion-vault-recall-injector`) | none that outlives a call | select notes for a prompt | Hermes hook | text ranking |
| HUD bridge and projection (`hud/orion_hud_bridge.py`, `hud/action_projection.py`) | none per client | proxy requests and the event stream, project tool results, previews and approvals | Hermes API, browser | upstream stream that ends early; results that lost fields, structure or tool name |
| HUD client (`hud/static/app.js`, `reconnect-state.js`) | session, active run, interlock, stored run locator, approval card, evidence shown | send, decide, select, new session, poll, reconnect, reload | bridge | awaits between reading and using session and run; answers that overtake each other |
| Operator package (`scripts/operator/packages/2.7.4-candidate2/`) | lifecycle lock, journal, session record | start, stop, recover | Hermes commands in worker processes, Ollama | crash between launch and record; worker that outlives its control; reuse of process ids; Windows restart |
| Older operator controls (`scripts/operator/*.ps1`) | session state file, descendant snapshot | Start, Stop, HUD start and stop | processes | replaced by the package, which refuses while their records exist |
| Canary campaign (`scripts/phase5/`, setup gates p5-02j, k, l, o, w; fixtures and mutating gates p5-02p to u, x; cleanup p5-02y) | recovery root, `.env`, installed plugin; documents; recovery records; printed ids; cleanup audits | one exact transaction per script, verification, rollback; audited removal | executor, owner | any script started again, out of order or in two terminals; a kill amid change or rollback; the owner edits |
| Other phase, upgrade and qualification scripts, patches, visuals | | | | not part of the running system |

What makes each correct:

- **Executor**: no document changes before its evidence is durable; the record
  left by a crash tells what happened; a result never claims less than was
  done; nobody's bytes are lost unrecorded; calls end; unresolved work stops
  further work.
- **Approval**: one human "once", for exactly this call and text, in time; no
  attempt leaks.
- **Ingestion**: outside an active journal the store equals the checkpoint; the
  records agree after every crash; retrying gets everything in step.
- **HUD**: what the browser shows never claims more than happened; late answers
  undo nothing and never land in another session; no turn competes with a run
  that is still going; the controls come free in the end.
- **Operator**: whatever a control has set going is on record for the next one;
  nothing but an Ollama it started is terminated; the advice of refusals leads
  back to clean records.
- **Campaign**: each transaction happens once; a failure freezes everything
  behind it; what is removed is accounted for, at any crash.

## 2. The modules

| Module | Models | Extends / instantiates |
|---|---|---|
| `TransactionLedger` | abstract: evidence, at most one change, final record | |
| `VaultTransaction` | the production executor with its recovery records | instantiates `TransactionLedger` |
| `VaultTransaction_proofs` | inductive invariant, evidence and refinement | `VaultTransaction`, `TLAPS` |
| `VaultOutcome_proofs` | what calls report, leave behind and keep | `VaultTransaction_proofs` |
| `ApprovalGate` | the fresh-once approval | |
| `ApprovalGate_proofs` | inductive invariant and theorems | `ApprovalGate`, `TLAPS` |
| `SyncLedger` | abstract: store = checkpoint outside doubtful documents | |
| `VaultIngest` | one ingestion run and its overlaps, crashes and retries | instantiates `SyncLedger` |
| `VaultIngest_proofs` | inductive invariant and theorems | `VaultIngest`, `TLAPS` |
| `CampaignSetup` | the campaign's setup gates J, K, L, O, W: change, verification, rollback, kill | |
| `CanaryCampaign` | fixtures, the gates Q, R, T, U, X and the cleanup Y, composed with the setup | `CampaignSetup` |
| `CanaryCampaign_proofs` | inductive invariant and theorems | `CanaryCampaign`, `TLAPS` |
| `ActionProjection` | the bridge's judgement of tool messages, as operators | |
| `HudSession` | browser client, bridge answers, event stream and the Hermes runs behind them | `ActionProjection` |
| `HudSession_proofs` | inductive invariant and theorems | `HudSession`, `TLAPS` |
| `OperatorControl` | start, stop and recover of the operator package | |
| `OperatorControl_proofs` | inductive invariant and theorems | `OperatorControl`, `TLAPS` |
| `MC...` | instances for TLC, one per component | |

### VaultTransaction

A call of `_execute_production_plan_candidate` is a worker with a program
counter; each place is one file-system call or one decision of the code, so any
two can be separated by another worker, another program, an exception (`Fail`)
or a crash (`Crash`).

| Variables | In the code |
|---|---|
| `fs`, `temp` | documents under vault and inbox; the edit's temporary file |
| `rec` | `<recovery_root>/<plan_token>/` with `original.bin` or `restore.bin`, `manifest.json`, `receipt.json` |
| `plan`, `cached` | the plan a token is the hash of; `_PREVIEWS` |
| `consumed` | `_CANDIDATE_CONSUMED_PLANS` |
| `pc`, `tok`, `made`, `started`, `guard`, `marked`, `result` | locals of the call: `plan_token`, `recovery_dir`, `mutation_started`, `_WindowsSourceGuard` and its mark, the returned JSON |
| `did`, `touched` | history variables for the properties |

- Common path: `Call` (preflight inventory, live plan), `Approve`, `Revalidate`,
  `Inventory`, `Open`, `MakeDir`, `WriteBackup`, `PrepareManifest`,
  `PrepareReceipt`, `Consume`.
- Edit and restore of an edit: `WriteTemp`, `Check`, `Replace`.
- Move and restore of a moved source: `CheckAbsent`, `Create`, `Fill`; a move
  continues with `CheckLanded`.
- Delete, and the source of a move: `Recheck`, `MarkDelete`, `CloseHandle`.
- All: `Verify`, `CommitManifest`, `CommitReceipt`.

A manifest is moved into place (`os.replace`) and is never half written. Backup,
receipt, temporary file and moved document are created first and written second,
so a crash leaves them `Torn`. A SHA-256 comparison is equality of contents.
File-identity checks only refuse more, which `Fail` covers. The restore preview
exists in the code for every finished record but has no registered tool; it is
modelled as its function stands.

### ApprovalGate

Handler threads, the attempt table, the set of events Hermes has for the hook,
and a clock in units of the time to live. `HumanDecides` produces a decision and
its event. `GateReturns`, `GateReturnsAlone` and `GateRaises` produce the result
of the blocking request: after a decision, without one (automatic approval,
cached grant, scheduled job, timeout), or not at all. An event may be delivered
any number of times, before or after the result, or never. Hermes is external:
those actions are its contract as the plugin uses it, with every misbehaviour
the plugin defends against. The reading of the marker and the removal of the
attempt are two locked sections in the code and two steps here.

The gate is a module of its own rather than the `approve` place of
`VaultTransaction` unfolded: `Approve` there answers yes or no freely, which
includes whatever the gate answers.

### VaultIngest

A run is one invocation of the script with `--apply`. Its steps are the
boundaries at which other things can happen: lock, each note read, planning,
each note staged, each record written, the store opened, each document studied
or faded, the store closed, each identity check. `Fail` ends a run anywhere
outside the store; `ApplyFails` ends it inside and leaves any subset of the
planned documents `Torn`. `Edit` changes the vault at any moment. `ReplaceStore`
puts another store file in place at any moment except between the identity check
that precedes the opening and the close, which the code declares unsupported. A
note version is bytes and modification time: `build_plan` compares bytes,
staging compares both.

### CampaignSetup and CanaryCampaign

The scripts of phase 5 each perform one exact transaction and quote what the
scripts before them printed. A setup gate is a three-place process (`step`):
idle, `begun` between two halves of its change, `placed` when only the
verification is left. It passes, rolls back (`Undo...`) or is killed (`Killed`)
anywhere. A mutating gate or a cleanup is a run (`pc`, `gate`); the runs share
`docs`, `records` and `accepted`, the ids a PASS printed.

| In the model | In the code |
|---|---|
| `root`, `assigned`, `plugin` | the recovery directory and its access list, the line in the profile's `.env`, the plugin directory |
| `docs` | canary, inbox source, moved target: bytes and Windows file identity |
| `Frozen...`, `Ready...`, `Previewed...`, `Landed...` | the frozen constants of each script and the comparisons before and after its call |
| `Dispatch`, `Admit`, `Prepare`, `Change`, `Commit` | the one executor call, in the places a second script can tell apart |
| `Accept`, `Stop` | PASS, and every other end |
| `PrepareAudit`, `Tear`, `Remove`, `Journal`, `Finalize` | the cleanup's audit, `Remove-Item -Recurse`, and its journal |

The executor's own steps are those of `VaultTransaction`; here a call is five
steps. A run that ended without leaving a record or an audit gives its slot
back, since nothing can tell that it ever was. A file is named by who created
it: a run, the fixtures, or an edit of the owner, each of which makes a new one,
as Windows gives a new file an identity of its own. Hashes, backups of configuration
and source pins are taken as given.

### ActionProjection and HudSession

`ActionProjection` translates the decision tables of `action_projection.py`. A
tool message is a record of what the projection reads; `Remains(m)` is whatever
can be left of a message that lost fields, its structure or its tool's name on
the way. Nothing in a message is ever altered: the projection does not claim to
resist that, either.

In `HudSession` a handler of the browser runs without interruption up to its
next `await`. A chain of awaits is a record in `calls`, an answer continues it,
and everything the chain read before the await is a field of that record. The
counters the client compares (`historyRequestId`, `reconnectRequestId`, ...) are
modelled by what the comparison tells: whether a later request of that kind has
been made. `since` dates an answer: it shows Hermes as it was at some moment
between request and arrival, so answers can be stale and overtake each other.

A request for a run's status has three ends, as in `reconcileReconnectState`. It
fails, and everything that blocks a turn is kept. Its answer is classified
(`Classify`, after `classifyReconnectRunStatus`) as active, terminal or, for a
404 or 410, expired. Or an answer comes that is none of these, since the bridge
passes any status code on and may leave the session out: "unavailable", after
which the client drops interlock, `activeRunId` and locator as if the run were
over. Such an answer counts as a fault; that a new session overtook the turn
has the same effect without one. The history variable `known` holds the runs the
browser saw start, or active in a status answer, and loses a run on an
unavailable answer about it. `ended` holds those it saw end.

| In the model | In the code |
|---|---|
| `hud.active`, `interlock`, `streaming`, `locator`, `card`, `shown` | `activeRunId`, the reconnect interlock, `isStreaming`, the run locator in `sessionStorage`, the approval card, the projection on the panel |
| `Poll`, `Answer...`, `Select`, `NewSession`, `Send`, `Decide`, `Reload` | the handlers of `app.js`, split at their awaits |
| `RunStarted` ... `StreamEnds` | `handleStreamEvent`: the events of a session's `/chat/stream` as the bridge projects them |
| `RunEnds`, `RunForgotten`, `DeleteSession` | external: Hermes |

### OperatorControl

A control is a process in a terminal with its own memory (`ctl`); it ends at any
crash and its lock with it. `journal` and `session` are the two files; a journal
is created exclusively and then written, so a crash between leaves it `Torn`. A
worker runs one command of Hermes and outlives its control: it waits for consent,
acts, and leaves a receipt by its exit (`Spawn`, `Consent`, `Act`, `Await`). A
process is an id and a creation time, the id is given out again as soon as the
process is gone and no handle holds it. `Fault` is any failing health check,
time-out or write, and leaves in the journal what the control's error path
writes or what was there.

### How they compose

The gate's `Execute` is the executor's `Revalidate` onwards. The vault is where
executor and ingestion meet: to the ingestion an executor is one more editor
(`Edit`), to the executor the ingestion only reads. Each model therefore lets
its environment do everything the other can do. The campaign is the executor's first
caller and adds what lies around a call. The HUD sees the executor only through
`Result`, the JSON it returns for each outcome that `VaultTransaction` can end
in, and through the gate's events. The operator starts and ends the runtime all
of this runs in; a restart there is a crash everywhere else.

## 3. What is checked

All runs use two TLC workers; each finishes within four minutes.

| Run | Instance | Properties | Shows |
|---|---|---|---|
| `vault_restart` | 1 call, 3 transactions, limit 1, crashes | `TypeOK`, `DiagnosisExact`, `RecordsBounded`, `UnresolvedBounded` | inspection tells exactly whether a left-behind step took effect; the scan limit holds; a sequential caller never has two records unresolved |
| `vault_editor` | 1 call, 2 transactions, another program on every path, fairness | `WriteAhead`, `ReportsHonestly`, `StrayTempFlagged`, `NothingLost`, `CallReturns` | durable evidence first; truthful results; no bytes lost outside the two windows named below; every call returns |
| `vault_race` | 2 concurrent calls, 2 transactions | `ReceiptLast`, `OrphansFrozen`, `ImplementsLedger` | every interleaving implements the ledger |
| `vault_layering` | 2 concurrent calls | `NeverLayered` violated | the first finding below |
| `gate` | 2 threads, 1 plan, 2 attempts | `OwnDecision`, `ExactAndAlone`, `NoLeak`, `DecidedInTime` | one human decision, one call |
| `ingest_sync` | 2 overlapping runs, 2 notes | `RecordsTogether`, `JournalFirst`, `ImplementsSync` | the lock and the journal keep store, checkpoint and records together |
| `ingest_retry` | retried runs, 2 notes with one tag, fairness | `JournalAgrees`, `ImplementsSync`, `RetrySyncs` | retrying converges from whatever crashes left |
| `campaign` | 7 runs, 2 at once, 1 edit by the owner | `CampaignTypeOK`, `EachGateOnce`, `EvidenceListed`, `AuditExact`, `FailureFreezes`, `ClosedForGood` | each transaction once, failures freeze, the cleanup's journal is exact |
| `operator` | 2 terminals, 2 process ids, 2 worker slots, 3 births, 2 faults, fairness | `NothingUnrecorded`, `SparesOthers`, `WayOut` | nothing runs unrecorded, nobody else's process dies, there is a way out |
| `hud_turns` | 1 session, 2 turns, 1 approval each, 2 chains, 1 fault (a failed or unclear answer, a broken stream), 1 reload, 1 deletion | `HudTypeOK`, `CardOnItsTransport`, `LocatorBacksStop`, `EndedStaysEnded`, `NoCompetingTurn`, `NeverOlder` | run control, locator and card never come apart; late answers undo nothing; only an unclear status answer lets a turn compete (the third finding below) |
| `hud_sessions` | 2 sessions, 1 turn, 1 fault, 1 reload, fairness | `ClaimsTrue`, `EvidenceLands`, `Unblocks` | evidence lands under its session and claims no more than happened; the controls come free |
| `hud_newsession` | 2 sessions, 1 turn, 1 fault | `NoBleed` violated | the second finding below |

### Bounds, and why they are enough

- *Two callers.* The executor's calls interact pairwise: over a document, over a
  record directory, over the inventory. Three transactions with limit 1 reach
  both a full and an overfull directory; a third can be a restore of the first
  after the second changed the same document.
- *One note, one draft, two contents.* Plans interact only over the same
  document; two contents tell "before" from "after", and an edit may also be a
  no-op.
- *Two attempts of one plan.* The second is the retry of the first or its twin;
  one time unit of life tells live from expired.
- *Four checkpoint ids.* A run draws one that no record and no run names; more
  cannot be named at once by one run's records.
- *Seven runs of the campaign, two at once, one edit.* Five gates and a cleanup
  must pass for the campaign to close; the seventh is the run that is started
  again, waits, or fails in between. Slots of runs that left nothing are used
  again, so any number of refused runs occurs. The two exceptions the properties
  name (`U` after the owner deleted the restored source) need one edit.
- *Two turns, two chains.* A late answer needs one turn to be asked about and a
  second to be late for; two chains suffice for one to overtake the other. A
  handler that finds both chains taken waits, which is an answer that takes
  longer.
- *Three births, two ids.* A process that is recorded, one that takes its id
  after a restart, and one beside them. What others start leaves a birth and an
  id for a start under way (`Spare`), which bounds the environment and never a
  control.
- *Two faults.* One that leaves a record behind and one amid its recovery.
- *Interference is switched on where the property needs it.* `DiagnosisExact`
  is about Orion's own steps and is checked without other writers: with them a
  document can return to its old bytes and hide what happened.

Symmetry (calls, transactions, runs, contents, stores, ids) is used in runs that
check only safety.

### Fairness

`vault_editor` assumes weak fairness of each call's own steps (`Step`). The
code has no wait but the human decision, which Hermes ends with an answer or a
timeout (`docs/phase5/p5-02a-approval-integrity.md:22`). A step that another call's handle blocks raises a sharing
violation, so a call can always end (`Fail`). Previews, new calls, crashes and
other programs get no fairness.

`ingest_retry` assumes that the operator starts the script again and that a
started run goes on or ends. It does not assume that runs succeed: the property
says that if from some moment on neither vault nor store file is disturbed, and
no run is cut short other than by a refusal of the code itself, then everything
gets in step.

`hud_sessions` assumes that the 15 s timer polls, that requests are answered
(or fail), that a turn's stream goes on or breaks, and that runs end: weak
fairness each. A status or evidence answer that the next poll supersedes is
discarded; `SF` on the answers that are still current says that not every one
takes longer than 15 s. Without it `Unblocks` is false, and rightly so.

`operator` assumes that controls and workers run on (each has a time-out, and
the end of a worker that was not told is its own), and `WF_vars(Advised)`: an
owner whose control was refused does what the message says, stop, recover or
restart Windows. Faults are bounded, as is whatever others do.

### The findings

`docs/phase5/p5-02g-production-mutation-guardrails.md:108` says that the
inventory "prevents a new mutation from being layered over unresolved transaction
state", and `hermes_plugins/orion-vault-actions/README.md:169` says that it is
revalidated "immediately before the protected filesystem primitive". The code
runs the inventory once after the approval, before its own recovery record
exists, and nothing excludes a second call. In `vault_layering` two calls both
pass the inventory, then both change a document. A sequential caller never has two
unresolved records at once (`UnresolvedBounded` in `vault_restart`), and
`OrphansFrozen` and `WriteAhead` say what still holds when it happens.

`docs/phase5/p5-03c-reconnect-hydration-qualification-plan.md:267` requires that
"cross-session and late-hydration evidence cannot bleed into the selected
session", and `docs/phase5/p5-03a2-browser-safe-projection-implementation.md:109`
says that a session change clears the prior projection. Selecting a session does
(`app.js:1775-1794`). `createSession` (`app.js:1143-1162`) links the new session
without clearing it and relies on the list request that follows; in
`hud_newsession` that request fails and the old session's result stays on the
panel of the new one. `EvidenceLands` says what holds all the same: a record
*comes* to be shown only under its own session. The properties except a session
that is linked while a turn is on (`overtaken`), for the same reason:
`createSession` clears the run locator after its await, whatever was sent
meanwhile.

`app.js:974-978` says of a status that cannot be looked up: "A 404/410 is
authoritative negative evidence for this run locator. Other lookup failures are
uncertainty, not evidence that the run ended", and that the interlock is kept "so
competing turns remain blocked"; `app.js:1011` shows "new turns blocked until run
state is authoritative", and `docs/reviews/2026-10-10-source-review.md:19` says
that "a locator-only reconnect interlock blocks competing turns/session changes".
The code does this for a request that fails. For an answer that comes but cannot
be classified (an unknown status code, no session id, another run's or session's
id) `reconnect-state.js:72-97` says "unavailable", which
`test_reconnect_state.cjs:118-148` fixes for the status "mystery", and
`app.js:1042-1044` and `1067-1069` drop interlock, active run and locator of a run
that may be live. `NoCompetingTurn` therefore holds in `hud_turns` with this
answer as its exception, by `known`, beside `overtaken`: no failed request, broken
stream or reload lets a second turn through. If `known` kept the run, TLC would
refute it in seven steps: `Send`, `RunStarted`, `Reload` (which arms the
interlock), `Poll`, `AnswerList`, `AnswerStatus` with an unclear answer, which
clears it, and `Send`: two live turns of one session.

### Known windows

`NothingLost` leaves out two windows (`Unseen`): bytes another program saves
between the last check of an edit and `ReplaceFileW`, which
`docs/phase5/p5-02e` acknowledges, and bytes saved into a file that an exclusive
create has open. Everything else, the whole of delete and the source of a move
included, is protected by the handle that shares only READ: the mutant that
shares everything violates the property.

## 4. What is proved

For every value of the constants (any number of calls, plans, documents,
contents, threads, keys, runs, sessions, answers under way, edits, faults and
reloads, any limits), by TLAPS:

| Theorem | Says |
|---|---|
| `VaultTransaction_proofs!TypeCorrect` | `Spec => []TypeOK` |
| `VaultTransaction_proofs!WriteAheadHolds` | `Spec => []WriteAhead` |
| `VaultTransaction_proofs!ReceiptLastHolds` | `Spec => []ReceiptLast` |
| `VaultTransaction_proofs!ExecutorImplementsLedger` | `Spec => ImplementsLedger` |
| `ApprovalGate_proofs!OwnDecisionHolds` | `Spec => []OwnDecision` |
| `ApprovalGate_proofs!ExactAndAloneHolds` | `Spec => []ExactAndAlone` |
| `ApprovalGate_proofs!NoLeakHolds` | `Spec => []NoLeak` |
| `ApprovalGate_proofs!DecidedInTimeHolds` | `Spec => DecidedInTime` |
| `VaultIngest_proofs!TypeCorrect` | `Spec => []TypeOK` |
| `VaultIngest_proofs!RecordsTogetherHolds` | `Spec => []RecordsTogether` |
| `VaultIngest_proofs!JournalAgreesHolds` | `Spec => []JournalAgrees` |
| `VaultIngest_proofs!JournalFirstHolds` | `Spec => JournalFirst` |
| `VaultIngest_proofs!IngestImplementsSync` | `Spec => ImplementsSync` |
| `VaultOutcome_proofs!ReportsHonestlyHolds` | `Spec => []ReportsHonestly` |
| `VaultOutcome_proofs!StrayTempFlaggedHolds` | `Spec => []StrayTempFlagged` |
| `VaultOutcome_proofs!OrphansFrozenHolds` | `Spec => OrphansFrozen` |
| `VaultOutcome_proofs!RecordsBoundedHolds` | `Spec => []RecordsBounded` |
| `VaultOutcome_proofs!UnresolvedBoundedHolds` | `Spec => []UnresolvedBounded` |
| `VaultOutcome_proofs!NothingLostHolds` | `Spec => NothingLost` |
| `VaultOutcome_proofs!DiagnosisExactHolds` | `Spec => []DiagnosisExact`, assuming `Alone` |
| `CanaryCampaign_proofs!CampaignTypeHolds` | `Spec => []CampaignTypeOK` |
| `CanaryCampaign_proofs!EachGateOnceHolds` | `Spec => []EachGateOnce` |
| `CanaryCampaign_proofs!EvidenceListedHolds` | `Spec => []EvidenceListed` |
| `CanaryCampaign_proofs!AuditExactHolds` | `Spec => []AuditExact` |
| `CanaryCampaign_proofs!FailureFreezesHolds` | `Spec => FailureFreezes` |
| `CanaryCampaign_proofs!ClosedForGoodHolds` | `Spec => ClosedForGood` |
| `HudSession_proofs!HudTypeHolds` | `Spec => []HudTypeOK` |
| `HudSession_proofs!CardOnItsTransportHolds` | `Spec => []CardOnItsTransport` |
| `HudSession_proofs!LocatorBacksStopHolds` | `Spec => []LocatorBacksStop` |
| `HudSession_proofs!EndedStaysEndedHolds` | `Spec => []EndedStaysEnded` |
| `HudSession_proofs!ClaimsTrueHolds` | `Spec => []ClaimsTrue` |
| `HudSession_proofs!NoCompetingTurnHolds` | `Spec => NoCompetingTurn` |
| `HudSession_proofs!EvidenceLandsHolds` | `Spec => EvidenceLands` |
| `HudSession_proofs!NeverOlderHolds` | `Spec => NeverOlder` |
| `OperatorControl_proofs!SparesOthersHolds` | `Spec => []SparesOthers` |
| `OperatorControl_proofs!NothingUnrecordedHolds` | `Spec => []NothingUnrecorded` |

**Executor.** `WriteAhead` is not inductive: it says nothing of a call about to
change a document. The invariant `Inv` adds three parts. `Owned` says that a
record directory belongs to the one call whose exclusive `mkdir` made it.
`Stands` says how complete the record of a call is at each place. `Recorded`
says what a record on disk says by itself, which is what survives a crash. Every
action is one case of `Invariance`. The refinement then only needs, of each
action, which stage it moves and that `Inv` allows the move; a crash may apply
several marked deletions at once, hence `Apply(S)` in the ledger.

**Outcomes of the executor.** Each of these properties needs something that
`Inv` does not keep, so each extends it.
`CallInvariant` adds what a call knows of itself: its flags fit its place
(`Flagged`), its result what it did (`Truthful`), and a consumed token has a
directory (`Spent`), which is why of two calls admitted for one plan only the
maker of the directory goes on, and an orphan is frozen.
`ScratchInvariant` follows the temporary file: only the places in `HasTemp` have
one, and the one failure that leaves it (its `unlink`) leaves an open record
beside it.
`BoundInvariant` counts. Each call the inventory let through (`Passed`) may add
one record, so the records and those calls together stay under the limit plus
the number of callers; and each unresolved record was added after the inventory
last found none, so they stay under the number of callers. The cardinality of
the set of callers is why it must be finite.
`KeepInvariant` says of each handle between opening and close (`Holding`) that
complete bytes about to be deleted stand in a record of that document. With the
sharing mode (`Free`) nobody else changes them meanwhile.
`DiagInvariant` relates the documents to the record of a call at each place
(`Intact`, `Altered`) and says of every orphan that its hashes tell (`Exact`).
It holds under `Alone`: one caller, and `EditPaths = {}`. Neither is there for
the proof's sake: with a second admitted call, or another program, the bytes an
orphan's primitive changed can be changed back, and an inspection that reads
hashes only then reports `prepared_no_effect` of a step that took effect. The
run `vault_restart` checks the same situation.

**Gate.** `Owner` ties each table entry to one waiting call. `Truthful` says
that an event for a waiting call's key reports that call's decision, which needs
that keys are never drawn twice. `Behind` says that a marker has a good decision
behind it. `InTime` says that a live preview is at least as old as it was when
the human decided about it. `DecidedInTime` is an action property and follows
from `Inv` and the guard of `Revalidate`.

**Ingestion.** `Written` is what the records say by themselves and a crash leaves
true: they are about one store file, the journal agrees with the checkpoint and
names a fresh target, no tag belongs to two notes of the checkpoint, and outside
the doubtful documents the store holds what the checkpoint says (`Settled`).
`Place` says how far the one run under way has come, and `Planned` that its plan
touches every difference between snapshot and checkpoint, everything an active
journal names, and no tag twice. The heart is `ReadyToCommit`: for a tag the plan
touches the store holds what the run put there, which no later document of the
plan overwrote; for any other tag snapshot and checkpoint agree, so `Settled`
carries over. Of each step the refinement then needs which step of the ledger it
is: the journal declares doubt, the open store touches, the checkpoint settles.

**Campaign.** `CampaignInvariant` has four parts. `CampaignTypeOK` includes that
mutation is enabled only around a call. `Ledger` says, for each place of a run,
what its record is (`Placed`), that what a gate printed is a run of that gate
that changed its document (`Printed`), and that a script runs after those before
it (`Follows`). `Files` is the reason for `EachGateOnce`: every identity in a
document or a plan was in use before (`Traced`), and once a gate has acted the
file a waiting run was approved for never comes back (`Spent`), since bytes do
come back but a created file is new. `Cleanup` says that the directories are
touched in the order of the gates, each after the one before is journaled
(`Ordered`): over any number of cleanups at once, at most one is touched and not
journaled. `Shut` is what a committed audit leaves true. The two exceptions of
the properties, `U` and the owner's edit, are in the invariant as they are in
the properties. Nothing is assumed but that the bounds are naturals.

**HUD.** `HudInvariant` has five parts, and each of the properties needs
several. `World` types the state and says what Hermes' runs and the sessions'
logs are to what the browser saw. `Controls` says what run control excludes
(`Exclusive`), that what locator, stream and session name exists (`Linked`), and
that a run no turn may compete with (`Guarded`: it is live, and the browser knows
of it, so that no status answer about it since was unclear) is named by the locator and held by STOP, interlock or the open stream
(`Held`). `Chains` says of every chain of awaits, whatever it read and however
late it goes on, that if its request still counts it would not revive a run that
was seen to end, nor settle one that is guarded (`Carries`), and that at most
one reconnect and one request for evidence still count (`Single`). Without it a
status answer could free the controls of a run that is going. `Panel` says that
what is shown is a true projection of a result in its session's log: this is
where the tables of `ActionProjection` are used, for every result and everything
that can be lost of it. `Frontier` dates the requests for evidence: none that
counts asks for a result before the newest shown. The handlers share helpers
that rewrite browser and chains together (`Reconcile`, `RefreshEvidence`,
`LoadMessages`, `Finish`, ...), so the proof first says of each helper what it
may change (`Relinked`, `Goes`, `TailOf`), and then takes the actions one by
one.

**Operator.** `Owned` says that every identity on record or on its way there is
one Orion gave to a process it started; since a process id with its creation
time names one process, this spares the owner's own Ollama (`Spared`). `Placed`
says, for each place of a command, what the journal and the process table look
like when it stands there. `Witnessed` and `Covered` are the parts that survive a
crash: they speak of files, the worker and processes only, never of the place of a
command that is gone. The proof has one lemma per action.

Assumptions on the constants are named in the modules and evaluated by every
run: limits and bounds are naturals, absent values are none of the values, vault
and inbox paths are disjoint (the preflight refuses overlapping roots), the set
of calls that can run at once is finite (a process has finitely many threads),
and the empty session id names no session. `Alone`, above, is the only
hypothesis of a theorem that is not an assumption of its module.

**Only model-checked**: the four liveness properties `CallReturns`, `RetrySyncs`,
`WayOut` and `Unblocks`, since fairness and ENABLED are outside the prover. The
two properties the findings refute are theorems of nothing. Every other property
of the runs is a theorem.

## 5. What is not modelled

- Hermes, iai, Windows and Ollama are external; the actions marked external in
  the map are their contract as the code uses it.
- Read-only tools and most of the configuration keep no state; they only refuse
  more. Overlapping roots, reparse points and drive types are refused before
  anything else and are taken as absent. The disposable executors are
  qualification twins of the production executor over scratch roots.
- The unlocked dictionary operations inside the preview cache are single steps
  here; a module for their interleavings is planned.
- The inventory reads the records one after the other; here it is one step. A
  document whose bytes are torn is not previewed until somebody saves it again:
  its record is unresolved and refuses every call meanwhile.
- A write is complete or torn; a disk that loses fsynced data is not modelled,
  nor is `os.replace` leaving a mixture.
- HUD: a second browser tab (it shares the selected session in `localStorage`
  but has a run locator of its own, so it knows nothing of the first tab's
  runs), a stream that breaks before `run.started` named its run (the browser
  cannot know of that run), the provenance line, headers, limits, static files
  and all rendering.
- Operator: the preflight checks of configuration, source provenance and the
  records of the older controls, which only refuse more; those older PowerShell
  controls themselves, which the package replaces; the HUD bridge's own process.
- Campaign: the comparison of hashes and sources of the scripts themselves, the
  backups of configuration files, and the scripts before p5-02j.
- The Hermes overlay patchers rewrite the source of an external runtime once; the
  patched runtime appears as the external actions of `ApprovalGate` and
  `HudSession`. The recall injector selects text for a prompt and keeps nothing.
- Qualification, upgrade and rebuild scripts, evidence and visuals are not part
  of the running system.

## 6. Plan

Written and checked: every module of section 2. What follows, in order:

1. `PreviewCache`: `_remember_preview` and `_lookup_preview` dictionary
   operation by dictionary operation, two threads and a limit of two; how far the
   cache can outgrow its bound.
2. Proofs: every safety and action property that holds is proved. What is left
   is to say more of the steps that compose: that a call of the campaign is a call
   of `VaultTransaction` as far as a second script can tell, and what of
   `ReportsHonestly` reaches the panel through `ActionProjection`.
3. A second browser tab over the shared session id.
