# OpenLife: models, model checking and proofs

OpenLife is a desktop agent (Tauri, Rust, SQLite, React) that works on a user's
goals: it calls model providers and tools, asks for permission, and writes files.
What makes it correct is less any single algorithm than the agreement of several
durable stores, an asynchronous executor, user commands and the file system, with
Stops, crashes and restarts in between. This directory models that core.

Paths below are relative to the repository; `core/` stands for
`openlife-core/src/` and `tauri/` for `src-tauri/src/`.

## 1. Inventory

### The parts of the core, their state and operations

| Part | Source | State it keeps | Operations |
|---|---|---|---|
| Canonical task store | `core/task_runtime.rs` | Tasks, Runs (with ordinal), Items, Attempts, FinalResults, deferred results, tool Review checkpoints, Artifacts, versions, effect journals, Plans, Steering | begin a Run, append an Item, begin and end an Attempt, complete, defer, terminalize, recover, bind and decide Reviews, draft, materialize, confirm, fail and undo Artifacts |
| Conversation store | `core/conversation.rs` | Conversations, Turns, message Items | begin, complete, fail, cancel, interrupt a Turn |
| Work executor | `tauri/canonical_work_runtime.rs`, `tauri/canonical_chat_runtime.rs` | the local state of an async task | admission, provider and tool steps, delivery, completion, failure, replay, restart, Stop |
| Cancellation registry | `tauri/main_chat_cancellation.rs` | active registrations and tombstones, in memory | register, request cancel, admit a provider start |
| Review decision registry | `tauri/state.rs` | one-shot senders, in memory | register, resolve, discard |
| Proposal store | `core/agent/proposal_store.rs` | a Proposal's status, its dispatch state and claim | submit, claim a dispatch, record its outcome, decide before dispatch |
| Review commands | `tauri/commands/proposal.rs` | none of their own | accept, reject, request an Undo, reconcile at startup |
| Materializer | `tauri/artifact_materializer.rs` | staging files, targets and trash in the file system | stage, verify, commit by hard link or rename, move to the trash |
| Steering command | `tauri/main_chat_steering.rs` | none of its own; holds the task store's async lock | check, append the message, insert the Steering row |
| Memory store | `core/agent/memory_lifecycle.rs`, `core/persistence_outbox.rs` | Memory records, admission links, retrieval states, outbox events and deliveries | admit, correct, archive, restore, roll back, erase, mark and compensate deliveries |
| Vector store | `core/vectors.rs` | rows, projection markers, retrieval fences, in a second database | project an embedding, a retrieval state, a tombstone |
| Reconcilers | `tauri/memory_gateway.rs`, `tauri/persistence_coordinator.rs` | pages of deliveries under way, the runtime mode | select, embed, project, mark; safe mode on an error |
| Startup | `tauri/bootstrap.rs` | phases of recovery | interrupt Turns and Runs, release claims, reconcile effects and projections |

The other parts of the repository (LifeModel, inference scheduler, confirmations,
providers, MCP, resources, secrets, read models, frontend) are listed in section 8 with
the reason they are left out or what is planned for them.

### How they interact

A Task (a goal) has Runs; each Run is bound to one Turn of a Conversation by its
execution session id. `run_canonical_work` drives a Run: it takes one of the
execution slots, begins the Turn in the Conversation store and the Run in the task
store, registers a cancellation token, plans, calls providers and tools (each call
an Item with Attempts), delivers Artifacts and finally completes first the Turn
and then the Run, in two databases. A tool that needs permission, and a file that
may not simply be written, become a Proposal; the Run waits and the user accepts
or rejects it by a command that writes the Proposal store, the effect and the
task store one after the other. Stop first tells the registry, then ends the Turn,
then ends the Run. After a crash, startup interrupts what ran and reconciles
effects the crash left open.

A delivered file can be taken back. The request submits a Proposal in one store and
binds it to the version in another; an accept moves a created file to the trash, or
puts back the bytes that the version replaced, under the journal and the claims that
deliveries use. The startup reconciliation serves both.

The user may steer a Run while it plans: the command writes a message to the
Conversation store and a row to the task store under one hold of the task store's
async lock. The executor takes that lock for its own calls, but its provider
lifecycle works on a clone of the store, so a provider call opens between any two
steps of the command. The executor looks for Steering at checkpoints and replans.

Memory has an owner store and a derived index. A command commits to the owner, whose
transaction also enqueues an outbox event; the event has one delivery to the vector
store, carried out by the command itself when it blocks (a deletion, an archive, a
restore), by the background worker, or by the drain at startup. An error on the way
puts the whole product in safe mode until a restart.

### What is hard about it

* Every store call is a transaction of its own; nothing spans two stores, and
  between two calls of one actor any other actor may act.
* Stop races with the executor, at each of its awaits and before it registered.
* Several accept and reject commands of one Proposal can be under way at once.
* A crash can come between the claim, the journal, the staged bytes, the link or
  rename, the confirmation and its projection; the next process has only the
  durable rows and the files to go by.
* The user owns the files and may change a target at any moment.
* A Plan is revised from what was read before a provider call and written after it,
  while further instructions may arrive.
* The index follows its owner through a queue: deliveries are late, repeated,
  overtaken by newer events of the same Memory, or fail, and a body may be embedding
  while its Memory is deleted.
* A Task outlives its Runs: a late write on behalf of an older Run meets a newer.

Each of these is listed, at the line where it bites, under `hazards` in
`PROJECT.json`, with the properties that watch it.

### What makes each part correct

* Task store: ended Runs and Attempts are facts; a pause matches an undecided
  question; a FinalResult matches a completed Run; one live Run per Task.
* Executor: a FinalResult points at a completed Turn; nothing of an ended Run
  stays open; no provider is called for an ended Run; what is stopped ends and
  gives its slot back.
* Tool Review: the stores never hold opposite decisions; no call is retried
  without acceptance; no decision leaves the executor waiting.
* Artifact delivery: no file is written that nobody agreed to, no write is
  claimed that did not happen, a rejected version is never written, the journal
  never changes its mind, startup settles every effect, and a completed Run
  delivered.
* Undo: what is called undone was taken back; a file is taken back only under an
  accept, after a look that found the version still there, and never after a
  rejection; startup settles every Undo and binds every undecided request.
* Steering and Plans: an admitted instruction is decided before the executor acts on
  a decision, a Run adopts at most one, and the three places that know the Plan's
  revision agree.
* Memory: one active owner of a fact; the events of a record say what became of it;
  only the newest event of an aggregate is open; what is marked applied is in the
  index; what was deleted never comes back; a deletion or an archive arrives.

## 2. Modules

| Module | Models | Extends |
|---|---|---|
| `TaskRuntime` | the general and tool Review operations of the task store, one transaction = one action, any caller in any order (`StoreSpec`) | - |
| `TaskRuntimeProofs` | theorems about `StoreSpec` | `TaskRuntime` |
| `WorkRuntime` | executor, Turns, cancellation registry, Stop, restart, replay, crash and startup (`WorkSpec`, `FairWorkSpec`) | `TaskRuntime` |
| `WorkProofs` | theorems about the executor, and the lemmas its compositions use | `WorkRuntime`, `TaskRuntimeProofs` |
| `ToolReview` | the permission protocol between executor, registry, commands and three stores (`ToolReviewSpec`, `FairToolReviewSpec`) | `WorkRuntime` |
| `ToolReviewProofs` | theorems about the permission protocol | `ToolReview`, `WorkProofs` |
| `ArtifactDelivery` | Artifacts, their Proposals, journals and files | `TaskRuntime` |
| `ArtifactUndo` | requests, Proposals and journals of Undo, beside the deliveries and on the same files (`ArtifactSpec`) | `ArtifactDelivery` |
| `ArtifactProofs` | theorems about deliveries, beside Undo | `ArtifactUndo`, `TaskRuntimeProofs` |
| `UndoProofs` | theorems about Undo | `ArtifactProofs` |
| `WorkSteering` | Plans and Steering of a running Run: the submit command, the initial decision, the checkpoints (`SteeringSpec`) | `WorkRuntime` |
| `SteeringProofs` | theorems about Plans and Steering | `WorkSteering`, `WorkProofs` |
| `MemoryLifecycle` | the Memory store and its outbox, any caller in any order (`MemoryLifecycleSpec`) | - |
| `MemoryProofs` | theorems about the Memory store | `MemoryLifecycle` |
| `MemoryIndex` | abstract: what the index promises about a Memory (`Spec`) | - |
| `MemoryProjection` | vector store, reconcilers, commands, startup drain and safe mode (`MemorySpec`); the refinement mapping to `MemoryIndex` (`Promise`) | `MemoryLifecycle` |
| `MemoryProjectionProofs` | theorems about the composed system, the refinement included | `MemoryProjection`, `MemoryProofs` |
| `MCWork`, `MCToolReview`, `MCArtifact`, `MCSteering`, `MCMemory` | sets of ids, bounds and symmetries for TLC | the above |

The composing modules call the store's actions (`BeginGeneralTaskRun`,
`TerminalizeGeneralRun`, ...) inside their own, so the store is written once and
an executor can only do to it what the store allows. A definition whose comment
begins with *Slip* is a faulty variant of the one below it: it is used by no
specification, and says which mistake in the code the named property would catch
(`mutants` in `PROJECT.json`). `map` in `PROJECT.json` gives the source lines of
every other definition.

### State and actions

**TaskRuntime.** One variable per column that an operation reads
(`taskStatus`, `runTask`, `runStatus`, `runOrdinal`, `itemRun`, `itemKind`,
`itemStatus`, `attItem`, `attStatus`, `finalResult`, `deferred`, `reviewTool`,
`reviewStatus`). An operation that fails rolls back and a replay of an equal call
writes nothing, so both are stuttering steps - with one exception that matters:
`terminalize_general_run` on a Run that already has the status repeats all of its
writes, the Task's status included, and `TerminalizeGeneralRun` does too. Digests,
summary codes, timestamps and Attention rows (read by no operation) are left out.

**WorkRuntime.** `exec[r]` is the program counter and local state of the invocation
that drives Run r, `turn[r]` its Turn, `cancel[r]` the registry's entry, `stop[r]` a
Stop command under way, `boot` the phase of startup. The phase of an invocation
(initial decision, planning, kernel, after it) decides whether a select with the
cancellation token is around it and what an error does. What a provider or a tool
answers, and what the plan asks for, are choices.

**ToolReview.** Adds the Proposal with its dispatch state, its permission (none,
granted, consumed), the sender map and what was sent, and up to two concurrent commands
with their program counters. The request of a Run may be sent again (`Replay`), which
finishes a Run whose Turn is answered. `ApplyProposal` may succeed, fail before its
effect or leave it unknown. A permission is used up before its tool runs
(`ConsumePermission`); an Attempt that cannot use it is blocked and opens no second
Review.

**ArtifactDelivery.** A version v of an Artifact has content v, so that contents
can be told apart; a target is absent, holds a version, the original file or an
edit of the user. `job[a, v]` is the one materialization of a version under way:
of an accept, of a direct delivery, or of either again at startup. All of them go
through the same sequence of journal, staging, check, link or rename, cleaning and
confirmation, each a step that may fail or be the last before a crash. `written` is
the one history variable: the versions whose bytes the program put in place. `bound`
is chosen once, in the initial state, from the set `Bounds`, so that one run covers
several instances.

**ArtifactUndo.** `undo[a, v]` is the row of a version, `undoProp`, `undoEffect` and
`undoStage` are a Proposal's status and claim, its journal row and its staging file,
`trash[a]` is the file beside the target. `request[a]` is a request between its preview,
its Proposal and its row; `undoJob` is an accept or its recovery, as `job` is for a
delivery. `undone` is a history variable: the Proposals that changed the target. Startup
handles deliveries and Undo in the same phases (`UndoBoot`), and an error in either ends
it for both (`StopStartup`).

**WorkSteering.** `planning[r]` is the planning state of an invocation: its stage, the
tries spent on the present question, the revision of the Plan in its hands.
`generation` is the set of provider Items with the summary code that closes the door
for Steering. `submit` is the submit command, which holds the store's lock while it is
not idle; actions of the executor that take the lock have `LockFree` as a guard,
provider calls have not. The other actions are those of `WorkRuntime`, restricted to
the stage in which the code can take them.

**MemoryLifecycle.** `outbox[g]` is the sequence of events of aggregate g (the
lifecycle of a Memory, or its retrieval state), each with the state of its delivery.
A body and its fact key are one `Fact`, risk and sensitivity one order of two levels.
Every store operation is one action; the marks of deliveries are actions too.

**MemoryProjection.** `worker[w]` is one reconciliation, in the foreground of a command
or in the background; a step is the code between two awaits. `row`, `marker` and
`fence` are the three tables of the vector store that know a Memory, `mode` is the
runtime mode, `wake` the background worker's notification. A command commits to the
owner, wakes the background worker and reconciles its own blocking deliveries.

## 3. Runs

Distinct states are those of the complete state graph up to symmetry.

| Run | cfg | Question | Distinct states |
|---|---|---|---|
| `work_safety` | `MCWork` | do two Runs of one Task, Stops, restarts and a crash leave the two stores in agreement, and what has ended as it ended? | 758,712 |
| `tool_review` | `MCToolReview` | do executor, commands, stores and repeated requests agree on every decision? | 367,616 |
| `review_liveness` | `MCToolReviewLive` | does every decision reach the executor, does a stopped Run end, does a cancelled executor return? | 42,408 |
| `artifact_delivery` | `MCArtifact` | are writes and Undo governed and recovery right, in seven instances: one created file, accepted twice, edited, two crashes; one file, created or replaced, and three crashes; two files of one Run decided apart; two versions of one file from two Runs; a created or replaced file and its Undo, edited, one crash; two Undo requests for a created file; an Undo accepted twice? | 589,836 |
| `work_steering` | `MCSteering` | is every admitted instruction decided before the executor acts, and do the Plan revisions agree? | 272,485 |
| `memory_projection` | `MCMemory` | does the index follow the Memory store through concurrent commands, a failure and a crash, keep the promise of `MemoryIndex`, and does a startup with full pages leave no deletion? | 646,005 |
| `memory_liveness` | `MCMemoryLive` | do deletions and archives reach the index? | 387,996 |

Five more runs show where the code and what is written about it disagree
(section 4).

**Bounds.** `MaxCrashes`, `MaxVersion`, `MaxClaims`, `MaxCommands`, `MaxFaults`,
`MaxRetrievalRevision` and the fields of `bound` limit environment steps; the sets of
ids bound the rest. They are chosen per question: two Runs, because every interference
between Runs is between an older and a newer one; two Reviews or two files, because the
store's conditions only ask whether *another* one waits (for one tool Item, where the
second is refused, or for two); two accepts and two crashes
where the claim of an earlier one can be met again; in `write_after_failure` two edits,
so that a target can be changed and changed back; two instructions, because the store
asks whether another is pending, and three provider calls, enough for the goal contract,
a decision and a replan, or a decision without the model and a replan; two Memories and
three admissions, so that one admission can be an alias, a correction or an upgrade of
another's record; two retrieval revisions, so that an archive can be overtaken by a
restore. `Batch` is 2 in `memory_projection` and 1 in `memory_liveness`, less than the
deliveries that can be open, so that pages are full, are cut, and are followed by
others; the pass counts are those of the code, cut to 2. Reviews do not occur in the `MCWork` runs and Artifact Reviews not
in `MCToolReview` (`artifactWaiting` is FALSE there): the protocols are checked apart,
and a Run with a tool Review *and* an Artifact Review at once is not explored. Two
Attempts in `tool_review` are a blocked one and its retry, or two blocked ones: a second
Review follows a rejected one, not one that was accepted and retried (with a third Attempt the graph has
3,091,179 states; it was explored once, without an error). Undo is
explored for one version of one file: with two versions or two files the state space is
beyond what one run can cover. `CancelAnyTurn` lets a Stop come for a Turn nobody
drives; `ReplayRequests` lets a request be sent again.

**Deadlock** is not checked: all of these systems may come to rest (every Run
ended, nobody acting), and with finite sets of ids they must.

**Fairness.** `review_liveness`, `work_steering` and `memory_liveness` use it, and the
violation run `retry_unknown`. Weak fairness of an invocation's steps, of an opened
command, of a reconciliation and of startup is what the async runtime gives a ready
task; that providers and tools answer is assumed (their clients have timeouts), and so
is the retry timer of the background worker. The cancellation arm of the two `select!`s
gets strong fairness: it is polled each time the future beside it yields, and a kernel
that takes ever new steps yields at each. In `work_steering` the end of a phase gets
strong fairness as well: the kernel's loops are bounded by the Run's budget of provider
calls, tool calls and Items, so a kernel that may leave them again and again does. No
user action is fair: nobody has to start, stop, retry, steer or decide anything. No
symmetry is used in these runs. `review_liveness` repeats no request: a Stop whose signal
reaches an invocation that is about to return, with its Turn still running, does not
reach the invocation that a repeated request starts before the Stop goes on, and that one
can wait for a Review the Stop has cancelled.

## 4. Disagreements found

Each is a run with a counterexample that TLC reproduces.

* `double_accept` - two accepts of one tool Proposal: the first wakes the executor,
  the second finds no sender, takes this for a lost executor and interrupts the
  Run that has just resumed.
* `write_after_failure` - an accept that fails after staging because the target
  changed is reported as failed before effect, but its journal row stays staged;
  if the target is changed back, the next startup writes the failed Artifact.
* `undo_recovery` - a crash between the journal row of an Undo and its move: startup
  proves that nothing happened, but the operation that records a failure before effect
  knows deliveries only; its error ends the reconciliation, on every later start too.
* `memory_erase` - a privacy erase deletes the admission links of its record, the links
  of aliases included; replaying an alias admission afterwards creates a new active
  owner with the erased body, which the comment on the operation rules out.
* `retry_unknown` - a provider call that ended unknown is asked again with success, as
  the comment on the retry intends, but its Item stays `effect_unknown`, and a Run with
  such an Item cannot be completed: the Turn is answered and the Run runs for ever.

One more disagreement is stated as a property, `StartupDrainsBlocking`, but not as a run.
"Drain canonical-owner outboxes before the product becomes interactive"
(`bootstrap.rs:182`) holds of deletions, which come first in every page; that is
`StartupDrainsDeletions` of `memory_projection`. It does not hold of archives and restores:
they come among the optional rows (`persistence_outbox.rs:603-607`), and a full page of 500
whose last row is optional is taken for the end of what blocks
(`memory_gateway.rs:1102-1106`). With the property in `MCMemory.cfg` TLC shows it in nine
states: two optional deliveries fill the page, the startup carries out nothing, and an
archive waits behind them when the product becomes interactive. The background worker
projects it later.

Further behaviour seen in the models and not stated as a run: a replayed
terminalization of an earlier Run overwrites the status of a Task that has moved on, so
a Task can have two live Runs; a rejection that comes between the submission of an
Artifact's Proposal and the binding of its checkpoint has nothing to project, and the
Run then waits for a decision nobody can make; a command that supersedes a delivery the
background worker holds makes its mark fail and puts the product in safe mode although
no store failed (`persistence_coordinator.rs:329-331` asks that conflicts do not); a
privacy erase of a Memory with an archive still waiting leaves a blocking delivery that
no startup can carry out; a Run decided without the model stays open for Steering that
no checkpoint will read; a generation that opens between a Steering's message and its
row leaves the message in the Conversation without a row, which the comment on
`validate_steering_admission` says the lock prevents; the end of a Run leaves the row of
its pending Steering pending; an acceptance recorded just before a crash repairs the
Proposal at startup but leaves the checkpoint waiting; an error in planning ends neither
Run nor Turn until the next startup; the previous executor of a restarted Task may still
be winding down beside the new one; a cancelled Run becomes blocked when its Proposal is
rejected later; a failed or rejected Artifact of a Task keeps the Task's later Runs
waiting for review, since completion asks for every Artifact of the Task; an Artifact
left as a draft by a failed delivery refuses every later version; an Undo requested again
after a rejected one leaves a Proposal that can never be bound, at which every later
startup stops; a live accept of an Undo that fails before its effect leaves its Proposal
claimed, open to neither accept nor reject until a restart; after a double accept an
Attempt may still run on the interrupted Run, since `begin_item_attempt` admits an Item
that was interrupted (so nothing of an ended Run stays open under `WorkSpec`, but not
under `ToolReviewSpec`); a Steering whose message was appended earlier can be submitted
again to an ended Run while a newer Run keeps the Task live, and then waits there; a
startup that crashes between committing a staged file and confirming it, after the user
removed that file, makes the next one prove a delivery absent that was once written
(`RejectedNeverActs` names this exception); an Undo that only had to put bytes back may
be confirmed because the user had put the same bytes back; an Undo Proposal made for an
older version can be bound and then never be prepared, once a newer version is current;
and with two accepts and two Runs (beyond the bounds of the runs) an old version can be written after a new
one was drafted.

## 5. Proofs

### The task store

`TaskRuntimeProofs` proves, for all sets of Tasks, Runs, Items, Attempts and
Reviews - from the two assumptions that Reviews are Items and that the null values
are no ids - the following of `StoreSpec`:

| Theorem | States |
|---|---|
| `StoreTypeCorrect` | `[]StoreTypeOK` |
| `StoreInvariant` | `[]StoreInv`, the inductive invariant |
| `PauseCorrect` | `[]PauseMatchesReviews`: a Run that waits has an undecided tool Review; one that runs or is completed has none |
| `FinalResultCorrect` | `[]FinalResultIffCompleted` |
| `RunTerminalCorrect` | `RunTerminalStable`: no operation changes the status of an ended Run |
| `AttemptTerminalCorrect` | `AttemptTerminalStable`: no operation changes an ended Attempt or moves it |

The argument. `PauseMatchesReviews` is not inductive by itself: deciding a Review
writes the Run found *through the Review's Item*, and cancelling a Run cancels the
Reviews whose Items belong to it. One has to know that a Review has an Item
exactly when it has a checkpoint, that an Item's Run has begun and that a Run has a
status exactly when it has a Task (`RowsConsistent`), and likewise for Attempts
(`AttemptRowsConsistent`). With these, `StoreInv` is preserved operation by
operation: most leave the set of undecided Reviews alone
(`WaitingReviewsFrame`), binding puts the Run into `waiting_review` together with
its new Review, accepting resumes only if the accepted Review was the only one, and
rejecting, interrupting and terminalizing leave neither `running` nor
`waiting_review`. The two step theorems follow from the guards under the same
invariant.

The theorems are about the general and tool Review operations, which is all of
`StoreNext`. The Artifact operations of the same file are in `ArtifactDelivery`; some of
them write the Run's status whatever it is (a rejection that comes after a Stop turns
the cancelled Run into a blocked one), so `RunTerminalStable` is no property of them.
Executors and commands call the same operations in the compositions, and there the four
properties are theorems again (`ToolPauseCorrect`, `WorkRunTerminal`, ... below): each step
of a composition is a step of the store or a stutter, and the lemmas about the operations
are used as they are.

### The Work runtime

`WorkProofs`, for all sets of ids and any number of slots and crashes, from the
assumptions of the store and `WorkAssumption`:

| Theorem | States |
|---|---|
| `ExecInvariant`, `WorkTypeCorrect` | `[]ExecInv`, and the types it contains |
| `ResultCorrect` | `[]ResultHasAnswer` |
| `WorkInvariant` | `[]WorkInv` |
| `SettledCorrect` | `[]EndedRunIsSettled` |
| `LiveTaskCorrect` | `[]LiveTaskHasLiveRun` |
| `NoLateCall` | `NoCallAfterEnd` |
| `WorkRunTerminal`, `WorkAttemptTerminal` | `RunTerminalStable`, `AttemptTerminalStable` |

The argument has two layers. `ExecInv` is what holds whatever the executor is composed
with: an invocation knows its Task, its Turn is begun before its Run and answered before
its Run is completed (`HoldsTurn`), and it holds the Item and Attempt it will write
(`HoldsRows`). The lemmas about it are stated per action, for the compositions to cite.

`WorkInv` adds what is needed to show that an ended Run is settled.
`EndedRunIsSettled` is not inductive: an Attempt may begin after another actor ended the
Run, unless that actor is known. `HeldByToken` says it is: a Run that ended under a
working executor was ended by a Stop, and the Stop reached the registry first, so the
executor finds its token cancelled before it may begin anything. `OneTryAtATime` and
`TriesOf` say that an Item has one Attempt running, the one in the executor's hands, so
that its end settles the Item. `NothingWaits` confines the argument to Runs without tool
Reviews.

### The tool Review

`ToolReviewProofs`, for any number of Reviews and commands:

| Theorem | States |
|---|---|
| `ToolInvariant`, `ToolTypeCorrect` | `[]ToolInv`, and the types it contains |
| `DecisionsCorrect` | `[]DecisionsAgree` |
| `ToolResultCorrect` | `[]ResultHasAnswer` |
| `ToolPauseCorrect` | `[]PauseMatchesReviews` and `[]FinalResultIffCompleted` |
| `RetryCorrect` | `RetryNeedsAcceptance` |
| `PauseInvariant`, `ToolLiveTaskCorrect` | `[]PauseInv`, and from it `[]LiveTaskHasLiveRun` |
| `ToolRunTerminal`, `ToolAttemptTerminal` | `RunTerminalStable`, `AttemptTerminalStable` |

`ToolInv` contains `ExecInv` and says what each command relies on between its
transactions (`CommandHolds`): from its claim to the record of the outcome the Proposal is
claimed, from there on confirmed, then accepted. This is stable because a Proposal is
dispatched by one command at a time (`OneDispatch`, which the claim gives), and because
Proposal, permission and checkpoint only move forward; `Forward` states that of every
step, and everything a command read stays true of it. `PauseInv` adds where the executor
of a paused Run can be: only at its wait, or on a way out that will end the Run.

### Steering

`SteeringProofs`, for any number of instructions, retries and crashes:

| Theorem | States |
|---|---|
| `SteeringInvariant`, `SteeringTypeCorrect` | `[]SteeringInv`, and the types it contains |
| `SteeringDecidedCorrect` | `[]SteeringDecidedBeforeWork` |
| `OneSteeringCorrect` | `[]OneSteeringApplied` |
| `PlanRevisionsCorrect` | `[]PlanRevisionsAgree` |

`SteeringInv` contains `WorkInv`. Its key is the closed door: once a generation of a Run
is completed (`Closed`) the command admits no instruction any more, and an instruction is
adopted by a completed generation. So at most one is undecided (`OnePending`), the one
that is adopted is the last (`Revision`), and past its decision the executor works behind
a closed door with nothing pending (`Decided`). `Hands` ties the Plan in the executor's
hands to the stored one and `Stages` the phase to the stage.

### Artifact delivery

`ArtifactProofs`, about the composition with Undo, for all sets of Runs and Artifacts and
every choice of bounds from `Bounds`:

| Theorem | States |
|---|---|
| `DeliveryInvariant`, `ArtifactTypeCorrect` | `[]DeliveryInv`, and the types it contains |
| `CompletedRunDeliveredCorrect` | `[]CompletedRunDelivered` |
| `WritesAreGovernedCorrect` | `WritesAreGoverned` |

`DeliveryInv` says how the durable rows of one version fit together (`Row`: an open
journal row of a reviewed version belongs to the claim that holds its Proposal, a direct
one has no Proposal, what is confirmed was written), what each job relies on (`JobHolds`,
`DirectJob`), that a file holds the bytes of a version only if the program wrote them
(`Bytes`), what each pass of the startup has listed and what the earlier passes left
(`Pass`), how versions follow each other (`VersionsAgree`), and which of its outcomes an
executor has drafted, bound and delivered (`Delivery`). Most actions touch one version;
for these the lemmas `LocalStep`, `StatusStep` and `OutcomeStep` reduce the invariant to
what happens to that version's row, job and Artifact, and every action is shown to be of
one of these forms. `QuietStep` covers the steps of Undo, `RestartStep` a crash: what
startup finds is what the durable parts of the invariant leave.

### Undo

`UndoProofs` extends it to `UndoInv`:

| Theorem | States |
|---|---|
| `UndoInvariant` | `[]UndoInv` |
| `JournalIsFinalCorrect` | `JournalIsFinal` |
| `UndoIsGovernedCorrect` | `UndoIsGoverned` |
| `RecoverySettlesCorrect` | `RecoverySettles` |
| `RealInvariant` | `[]RealInv`: what is recorded fits what happened to the files |
| `ConfirmedIsRealCorrect` | `[]ConfirmedIsReal` |
| `UndoKeepsBytesCorrect` | `[]UndoKeepsBytes` |
| `RejectedNeverActsCorrect` | `[]RejectedNeverActs` |

`UndoHolds` is for an Undo what `Row` and `JobHolds` are for a version, and `UndoPass` what
`Pass` is; an open journal row belongs to the claim of a pending Proposal that owns the
version's row (`RowBound`). One lemma per action shows that it keeps this for its own
Proposal, through three frames: a move of the command or of recovery (`MoveStep`), a move
that writes the store (`StoreMoveStep`), and one that writes a file (`FileMoveStep`).
`JournalIsFinal` and `UndoIsGoverned` are what each step is shown to do on the way;
`RecoverySettles` follows from the passes, which are empty when startup ends well.

`ConfirmedIsReal` and `RejectedNeverActs` speak of the past of files that the user may
change at any time and that recovery only looks at, so `UndoInv` is not enough: when
recovery finds the bytes that an Undo was to put back, one has to know that nobody else
can have put them there. `RealInv` says what makes that so. Versions are committed once
(`CommitsOnce`); what a version replaced is older than it, and is in the file again only if
the Undo that owns the version's row has acted (`Replaced`); rows belong to verified
versions (`RowReal`); an Undo moves or restores once, and while its row is open the trash
name is taken only by itself (`UndoReal`); an Artifact has one undecided Undo Proposal
(`OnePending`); the trash of a created file is filled by an Undo that acted, empty for one
about to act and holds the version of one that is confirmed (`TrashReal`), which with
`OnePending` is `UndoKeepsBytes`. What the user writes is told from these by being the user's own: hence the
exception for `Edited` in `ConfirmedIsReal`. `UnstagedWrite` carries the exception of
`RejectedNeverActs`: a reviewed version whose row was never staged is in its file only after
a startup that did not end, and only the user's removal of the file can then lead the next
startup to take the row for one without effect.

The proof keeps the actions apart from the invariant. `Moves` states what one step can
do at most to a version, a row, an Undo and a file; `RealKept` shows that any step within
`Moves` preserves `RealInv`, and `UndoMovesStep`, action by action, that every step is
within it.

### Memory

`MemoryProofs` and `MemoryProjectionProofs` prove, for all sets of Memories, admissions,
facts and callers and all values of the bounds, from the assumptions that admissions
carry a fact and a risk, that the null values are no ids and that the background worker
is no caller; the two theorems about the startup also assume that the Memories are
finitely many and that a page holds at least one delivery:

| Theorem | States |
|---|---|
| `MemoryTypeCorrect` | `[]MemoryTypeOK` of the store |
| `HeadOnly` | `[]OnlyHeadIsOpen`: only the newest event of an aggregate is open |
| `RecordFollowsEvents` | `[]RecordMatchesEvents`: a record's events are materializations, and one tombstone if it ended |
| `ProjectionTypeCorrect` | `[]ProjectionTypeOK` of the composed system |
| `DeletionIsFinal` | `[]DeletedStaysDeleted` |
| `OutboxUnderReconcilers` | `OnlyHeadIsOpen` and `RecordMatchesEvents` of the composed system |
| `SystemKeepsPromise` | `MemorySpec => IndexPromise`: the composition implements `MemoryIndex` |
| `OneOwner` | `[]OneOwnerPerFact` of the store |
| `OwnersUnderReconcilers` | the same of the composed system |
| `AppliedIsProjected` | `[]AppliedMeansProjected`: what is marked applied is what the index shows |
| `StartupDrainsEveryDeletion` | `StartupDrainsDeletions`: no deletion waits when the product becomes interactive |
| `StartupDrainsWhatFits` | `StartupDrainsBlocking`, as long as the open deliveries fit into one page |

The argument. The store's invariant `LifecycleInv` joins the types with
`OnlyHeadIsOpen`, `RecordMatchesEvents` and `RecordShape` (a record has an admission
exactly when it exists). A commit appends one event and supersedes the open ones; a mark
or compensation touches one delivery and keeps every mutation. From this the lemmas
derive `Keeps`: no step loses an event or changes what it carries, and no admission of a
record changes.

The composed system needs more, because a reconciler carries what it read across
awaits. `ProjectionInv` adds, for every worker, that the events it holds exist, that at
the embedding steps its event is a materialization, and that the body in its hands is
the one its Memory was admitted with (`WorkerOK`). `Keeps` makes this stable under the
steps of everyone else, the crash included (which forgets the workers). Then every
reconciler step is a step or a stutter of the store (`ReconcileOwner`), and a
projection either writes a row with the admitted body while no deletion is recorded,
which is `MemoryIndex!Index`, or records a deletion, which is `MemoryIndex!Delete`: a
tombstone exists only for a record that ended, and ends are final. Commands map to
`MemoryIndex!Own`. The fence that matters is the check of the deletion inside the
transaction of `project_memory_embedding`; without it `DeletedStaysDeleted` is not
inductive, and TLC shows the run in which a late embedding brings a body back.

For `OneOwnerPerFact` the invariant is `Owners`, which counts by comparison instead of by
cardinality: two active records with the same content are one record, the view is the
set of active records, and an admission that is linked to an active record has its
content and no higher risk. A merge only raises the risk of a record, a correction ends
the old owner in the transaction that creates the new one, and an erased record loses
its links together with its content. `SystemIsOwner` carries it over to the composition.

`AppliedMeansProjected` speaks of the newest delivery only, and is not inductive: a worker
marks a delivery applied two awaits after it wrote the index, when a newer event may
exist, and the same Memory may have ended. `ShownInv` therefore speaks of every delivery,
in the outbox and in the hands of every worker: an applied materialization has its
marker unless the record ended, an applied deletion has its tombstone, an applied
retrieval state is not newer than the fence (`AppliedOK`, and `CarriesOK` for a worker
about to mark); a Memory with a marker and no tombstone shows the admitted body
(`MarkersOK`), and the fence is a state that some event stated and the row bears it
(`FenceOK`). Since the index only moves `Forward`, and a fence can name no event that does
not exist, the newest applied retrieval event is the fence. TLC checked `ShownInv` in the
instance of `memory_projection` before it was proved.

The startup. While the mode is `starting` no command works, and the invariant `Drains`
says of the pass under way that each delivery it is due to carry out is on the page, in
hand or closed, unless the pass already reports a failure or more work. A pass begins so
because of how pages are cut (`PageSees`): one that is not full is all there is, and a
full one that holds anything but tombstones holds every tombstone. It stays so because a
reconciler opens no delivery and lets go only of one it closed (`ReconcileCloses`). The
pass that ends the startup reports nothing and holds nothing, so nothing was left.
`Drains` has a parameter: of deletions it holds whatever the size of a page, which is
the promise of the comment of `reconcile_startup_canonical_outboxes`. Of archives and
restores it needs the hypothesis: a full page whose last row is optional ends the
startup, and one of them may be behind it. TLC finds that in the instance of
`memory_projection` when `StartupDrainsBlocking` is put in the place of
`StartupDrainsDeletions`, and found both forms of `Drains` invariant where they are proved
so. At most one delivery is open per aggregate, so there are finitely many (`OpenFit`).

## 6. Checked, not proved

The liveness properties: liveness under fairness and `ENABLED` are out of the prover's
reach. They are model-checked within the bounds above. No module uses `RECURSIVE`.

## 7. Limits of the models

* A store that cannot be opened or written is modelled only where the code branches
  on it (the commands of `ToolReview`, the materialization, a projection and an
  embedding); SQLite transactions are taken to be atomic and durable.
* In `ToolReview` a Proposal asks for the blocked tool Item of its executor, and the store
  binds one Review to an Item (`AskedOnce`); scope digests that tie a
  grant to one call, expiry, native confirmation and policies for a whole manifest are
  left out.
* In `ArtifactDelivery` a version has at most one materialization under way, which is
  what the dispatch claim gives; a rejection and the late report of a failed accept
  (`TellFailed`) do run beside it. Deliveries that rename a file, and a
  reconciliation backlog larger than one batch, are left out.
* In `ArtifactUndo` the bytes a version replaced are always retained, the user does not
  touch the trash, and the batch request is one request per Artifact.
* File operations are atomic one by one, as hard link and rename are.
* In `WorkSteering` a Plan is its revision: what it says, its validation and the plan
  step Items are left out, and so are tools. The transport retry inside a try is a
  further call, and an unknown outcome is a failed one there (`MCWorkRetry` has both).
* In `MemoryProjection` a page is a set: its order by time is any order. Similarity
  search, tiers and the rebuild of the index are left out.

## 8. Not modelled yet, and the plan

In this order:

1. **Artifacts that rename a file**, their delivery and their Undo: a third kind of
   effect beside those of `ArtifactDelivery` and `ArtifactUndo`.
2. **LifeModel**: reviewed diffs appended by the write gateway, decided by Proposals.
3. **Tool permissions**: policies of whole manifests, their revocation and expiry.
4. **The rebuild of the vector index**, beside the deliveries of `MemoryProjection`.
5. **Proofs**: an abstract Run that `TaskRuntime` refines.

Left out for good: provider routing, provider and MCP transport, parsing, rendering,
embeddings, secrets and migrations (I/O or pure functions on text), read models and the
frontend (they write nothing the stores read). `components` in `PROJECT.json` gives the
reason part by part.

## 9. Running it

    tlc -workers 2 -config MCWork.cfg MCWork        # any run: its cfg and its MC module
    tlapm TaskRuntimeProofs.tla                      # the proofs of the task store
    tlapm WorkProofs.tla                             # of the executor
    tlapm ToolReviewProofs.tla                       # of the permission protocol
    tlapm SteeringProofs.tla                         # of Steering
    tlapm ArtifactProofs.tla                         # of deliveries
    tlapm UndoProofs.tla                             # of Undo
    tlapm MemoryProofs.tla                           # of the Memory store
    tlapm MemoryProjectionProofs.tla                 # and of the index
