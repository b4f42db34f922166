---------------------------- MODULE TaskRuntime ----------------------------
(***************************************************************************)
(* The canonical task store: openlife-core/src/task_runtime.rs.            *)
(*                                                                         *)
(* A Task is a durable user goal.  Every execution of it is a Run, the     *)
(* facts of a Run are its Items, and every try at an Item is an Attempt.   *)
(* A tool that needs the user's permission binds a tool Review checkpoint, *)
(* which pauses its Run.  Every operation below is one SQLite IMMEDIATE    *)
(* transaction, so it is one action; an operation that returns an error    *)
(* rolls its transaction back, and one that only replays an equal earlier  *)
(* call writes nothing new: both are stuttering steps and are not shown.   *)
(* StoreNext lets ANY caller invoke ANY general or tool Review operation   *)
(* in ANY order; the modules that extend this one restrict the callers to  *)
(* those of the desktop.  The Artifact operations of the same file, some   *)
(* of which rewrite Runs that ended, are in ArtifactDelivery.              *)
(*                                                                         *)
(* Left out: digests, summary codes, timestamps and the Attention rows     *)
(* (a projection no operation reads).  Instruction and final_result Items  *)
(* are written already completed by the operation that creates their Run   *)
(* or FinalResult, so they are not separate state.                         *)
(***************************************************************************)
EXTENDS Naturals, FiniteSets

CONSTANTS
    Task,       \* Task ids
    Run,        \* Run ids (each is also the id of one Conversation Turn)
    Item,       \* Item ids
    Attempt,    \* ItemAttempt ids
    Review,     \* proposal ids of tool Reviews; the id of the Review Item
                \* derives from the proposal id, so Reviews are Items here
    NoTask, NoRun, NoItem

ASSUME ReviewAssumption == Review \subseteq Item

ASSUME NullAssumption == NoTask \notin Task /\ NoRun \notin Run /\ NoItem \notin Item

VARIABLES
    taskStatus,    \* canonical_tasks.status
    runTask,       \* canonical_task_runs.task_id, NoTask: no such row
    runStatus,     \* canonical_task_runs.status
    runOrdinal,    \* canonical_task_runs.ordinal
    itemRun,       \* canonical_task_items.run_id, NoRun: no such row
    itemKind,      \* canonical_task_items.kind
    itemStatus,    \* canonical_task_items.status
    attItem,       \* canonical_task_item_attempts.item_id, NoItem: no such row
    attStatus,     \* canonical_task_item_attempts.status
    finalResult,   \* the Runs with a row in canonical_task_final_results
    deferred,      \* canonical_task_deferred_results: the Run whose answer waits
    reviewTool,    \* canonical_tool_review_checkpoints.tool_item_id
    reviewStatus   \* canonical_tool_review_checkpoints.status

taskVars   == <<taskStatus>>
runVars    == <<runTask, runStatus, runOrdinal>>
itemVars   == <<itemRun, itemKind, itemStatus>>
attVars    == <<attItem, attStatus>>
resultVars == <<finalResult, deferred>>
reviewVars == <<reviewTool, reviewStatus>>
storeVars  == <<taskStatus, runTask, runStatus, runOrdinal,
                itemRun, itemKind, itemStatus, attItem, attStatus,
                finalResult, deferred, reviewTool, reviewStatus>>

-----------------------------------------------------------------------------
(* Statuses. *)

Live == {"running", "waiting_review"}

\* What terminalize_general_run accepts.
GeneralTerminal == {"blocked", "failed", "cancelled", "interrupted", "effect_unknown"}

Terminal == GeneralTerminal \union {"completed"}

CanonicalTaskStatus == Live \union Terminal

CanonicalTaskItemStatus == Terminal \union {"waiting", "running"}

\* The kinds append_general_item is called with for live provider, tool and
\* observation work, the two kinds bound by Artifact delivery, the Review Item's
\* and the Steering Item's.
CanonicalTaskItemKind ==
    {"tool_call", "observation", "plan", "provider_generation",
     "artifact_draft", "artifact_materialized", "review_checkpoint", "steering"}

ReviewStatus == {"waiting", "accepted", "rejected", "cancelled"}

RunsOf(t) == {r \in Run : runTask[r] = t}
ItemsOf(r) == {i \in Item : itemRun[i] = r}
AttemptsOf(r) == {a \in Attempt : attItem[a] # NoItem /\ itemRun[attItem[a]] = r}
ReviewsOf(r) == {p \in Review : reviewStatus[p] # "none" /\ itemRun[p] = r}
WaitingReviews(r) == {p \in ReviewsOf(r) : reviewStatus[p] = "waiting"}

StoreTypeOK ==
    /\ taskStatus \in [Task -> CanonicalTaskStatus \union {"none"}]
    /\ runTask \in [Run -> Task \union {NoTask}]
    /\ runStatus \in [Run -> CanonicalTaskStatus \union {"none"}]
    /\ runOrdinal \in [Run -> Nat]
    /\ itemRun \in [Item -> Run \union {NoRun}]
    /\ itemKind \in [Item -> CanonicalTaskItemKind \union {"none"}]
    /\ itemStatus \in [Item -> CanonicalTaskItemStatus \union {"none"}]
    /\ attItem \in [Attempt -> Item \union {NoItem}]
    /\ attStatus \in [Attempt -> CanonicalTaskItemStatus \union {"none"}]
    /\ finalResult \in SUBSET Run
    /\ deferred \in [Task -> Run \union {NoRun}]
    /\ reviewTool \in [Review -> Item \union {NoItem}]
    /\ reviewStatus \in [Review -> ReviewStatus \union {"none"}]

StoreInit ==
    /\ taskStatus = [t \in Task |-> "none"]
    /\ runTask = [r \in Run |-> NoTask]
    /\ runStatus = [r \in Run |-> "none"]
    /\ runOrdinal = [r \in Run |-> 0]
    /\ itemRun = [i \in Item |-> NoRun]
    /\ itemKind = [i \in Item |-> "none"]
    /\ itemStatus = [i \in Item |-> "none"]
    /\ attItem = [a \in Attempt |-> NoItem]
    /\ attStatus = [a \in Attempt |-> "none"]
    /\ finalResult = {}
    /\ deferred = [t \in Task |-> NoRun]
    /\ reviewTool = [p \in Review |-> NoItem]
    /\ reviewStatus = [p \in Review |-> "none"]

-----------------------------------------------------------------------------
(* Runs. *)

\* A Task whose status admits another (non revision) Run.
Retryable == {"none", "completed", "failed", "blocked", "cancelled", "interrupted"}

\* begin_general_task_run: a new Run of a new or a retryable Task.  The ordinal
\* is one more than the largest of the Task's Runs; restarting a completed Task
\* drops the answer it had deferred.
BeginGeneralTaskRun(t, r) ==
    /\ runTask[r] = NoTask
    /\ taskStatus[t] \in Retryable
    /\ runTask' = [runTask EXCEPT ![r] = t]
    /\ runStatus' = [runStatus EXCEPT ![r] = "running"]
    /\ \E n \in {0} \union {runOrdinal[q] : q \in RunsOf(t)} :
          /\ \A q \in RunsOf(t) : runOrdinal[q] <= n
          /\ runOrdinal' = [runOrdinal EXCEPT ![r] = n + 1]
    /\ deferred' = IF taskStatus[t] = "completed"
                   THEN [deferred EXCEPT ![t] = NoRun] ELSE deferred
    /\ taskStatus' = [taskStatus EXCEPT ![t] = "running"]
    /\ UNCHANGED <<itemVars, attVars, reviewVars, finalResult>>

\* Slip: the Attempts' UPDATE has no status = 'running' filter.
CloseEveryAttemptOf(R, st) ==
    /\ itemStatus' = [i \in Item |->
          IF itemRun[i] \in R /\ itemStatus[i] \in {"waiting", "running"}
          THEN st ELSE itemStatus[i]]
    /\ attStatus' = [a \in Attempt |->
          IF attItem[a] # NoItem /\ itemRun[attItem[a]] \in R THEN st ELSE attStatus[a]]
    /\ UNCHANGED <<itemRun, itemKind, attItem>>

\* The write set shared by terminalize_general_run and the startup recovery: the
\* open Items and running Attempts of the Runs in R take status st.
CloseWorkOf(R, st) ==
    /\ itemStatus' = [i \in Item |->
          IF itemRun[i] \in R /\ itemStatus[i] \in {"waiting", "running"}
          THEN st ELSE itemStatus[i]]
    /\ attStatus' = [a \in Attempt |->
          IF attItem[a] # NoItem /\ itemRun[attItem[a]] \in R /\ attStatus[a] = "running"
          THEN st ELSE attStatus[a]]
    /\ UNCHANGED <<itemRun, itemKind, attItem>>

\* Slip: the UPDATE's status filter and the conflict check are forgotten.
TerminalizeAnyRun(r, st) ==
    /\ runTask[r] # NoTask
    /\ st \in GeneralTerminal
    /\ runStatus' = [runStatus EXCEPT ![r] = st]
    /\ CloseWorkOf({r}, st)
    /\ taskStatus' = [taskStatus EXCEPT ![runTask[r]] = st]
    /\ UNCHANGED <<runTask, runOrdinal, resultVars, reviewVars>>

\* terminalize_general_run: a live Run takes st; a Run that already has st is
\* replayed, and the replay repeats every write, the Task's status included.
TerminalizeGeneralRun(r, st) ==
    /\ runTask[r] # NoTask
    /\ st \in GeneralTerminal
    /\ runStatus[r] \in Live \union {st}
    /\ runStatus' = [runStatus EXCEPT ![r] = st]
    /\ CloseWorkOf({r}, st)
    /\ reviewStatus' = [p \in Review |->
          IF st \in {"cancelled", "interrupted"} /\ p \in WaitingReviews(r)
          THEN "cancelled" ELSE reviewStatus[p]]
    /\ taskStatus' = [taskStatus EXCEPT ![runTask[r]] = st]
    /\ UNCHANGED <<runTask, runOrdinal, resultVars, reviewTool>>

\* Slip: the recovery forgets the Tasks of the Runs it interrupts.
RecoverRunsOnly ==
    LET R == {r \in Run : runStatus[r] = "running"}
    IN /\ R # {}
       /\ runStatus' = [r \in Run |-> IF r \in R THEN "interrupted" ELSE runStatus[r]]
       /\ CloseWorkOf(R, "interrupted")
       /\ UNCHANGED <<taskVars, runTask, runOrdinal, resultVars, reviewVars>>

\* recover_interrupted_general_runs, at startup: every running Run is
\* interrupted; Runs that wait for a Review are left as they are.
RecoverInterruptedGeneralRuns ==
    LET R == {r \in Run : runStatus[r] = "running"}
    IN /\ R # {}
       /\ runStatus' = [r \in Run |-> IF r \in R THEN "interrupted" ELSE runStatus[r]]
       /\ CloseWorkOf(R, "interrupted")
       /\ taskStatus' = [t \in Task |->
             IF taskStatus[t] = "running" /\ RunsOf(t) \intersect R # {}
             THEN "interrupted" ELSE taskStatus[t]]
       /\ UNCHANGED <<runTask, runOrdinal, resultVars, reviewVars>>

\* The Items that stop complete_general_task.
Unsettled(r) ==
    {i \in ItemsOf(r) : itemStatus[i] \in {"waiting", "running", "effect_unknown"}}

\* Slip: the Run is completed before its FinalResult, in a transaction of its own.
CompleteWithoutResult(r) ==
    /\ runStatus[r] = "running"
    /\ Unsettled(r) = {}
    /\ runStatus' = [runStatus EXCEPT ![r] = "completed"]
    /\ taskStatus' = [taskStatus EXCEPT ![runTask[r]] = "completed"]
    /\ UNCHANGED <<runTask, runOrdinal, itemVars, attVars, resultVars, reviewVars>>

\* complete_general_task: FinalResult, Run and Task in one transaction.
CompleteGeneralTask(r) ==
    /\ runStatus[r] = "running"
    /\ Unsettled(r) = {}
    /\ finalResult' = finalResult \union {r}
    /\ runStatus' = [runStatus EXCEPT ![r] = "completed"]
    /\ taskStatus' = [taskStatus EXCEPT ![runTask[r]] = "completed"]
    /\ UNCHANGED <<runTask, runOrdinal, itemVars, attVars, deferred, reviewVars>>

\* defer_general_task_result: the paused Run's answer, kept until its Review is
\* decided.  The row is unique per Task and must belong to this Run.
DeferGeneralTaskResult(r) ==
    /\ runStatus[r] = "waiting_review"
    /\ deferred[runTask[r]] \in {NoRun, r}
    /\ deferred' = [deferred EXCEPT ![runTask[r]] = r]
    /\ UNCHANGED <<taskVars, runVars, itemVars, attVars, finalResult, reviewVars>>

-----------------------------------------------------------------------------
(* Items and Attempts. *)

\* append_general_item: a new Item of a running Run.
AppendGeneralItem(r, i, kind) ==
    /\ runStatus[r] = "running"
    /\ itemRun[i] = NoRun
    /\ itemRun' = [itemRun EXCEPT ![i] = r]
    /\ itemKind' = [itemKind EXCEPT ![i] = kind]
    /\ itemStatus' = [itemStatus EXCEPT ![i] = "waiting"]
    /\ UNCHANGED <<taskVars, runVars, attVars, resultVars, reviewVars>>

\* The second transaction of append_completed_observation and
\* append_completed_plan_item.
CompleteAppendedItem(i) ==
    /\ itemKind[i] \in {"observation", "plan"}
    /\ itemStatus[i] = "waiting"
    /\ itemStatus' = [itemStatus EXCEPT ![i] = "completed"]
    /\ UNCHANGED <<taskVars, runVars, itemRun, itemKind, attVars, resultVars, reviewVars>>

\* Slip: an Attempt may begin on any Item that is not completed.
BeginAnyItemAttempt(i, a) ==
    /\ itemRun[i] # NoRun
    /\ itemStatus[i] # "completed"
    /\ attItem[a] = NoItem
    /\ attItem' = [attItem EXCEPT ![a] = i]
    /\ attStatus' = [attStatus EXCEPT ![a] = "running"]
    /\ itemStatus' = [itemStatus EXCEPT ![i] = "running"]
    /\ UNCHANGED <<taskVars, runVars, itemRun, itemKind, resultVars, reviewVars>>

\* begin_item_attempt: the Item's status is checked, the Run's is not.
BeginItemAttempt(i, a) ==
    /\ itemRun[i] # NoRun
    /\ itemStatus[i] \notin {"completed", "cancelled", "effect_unknown"}
    /\ attItem[a] = NoItem
    /\ attItem' = [attItem EXCEPT ![a] = i]
    /\ attStatus' = [attStatus EXCEPT ![a] = "running"]
    /\ itemStatus' = [itemStatus EXCEPT ![i] = "running"]
    /\ UNCHANGED <<taskVars, runVars, itemRun, itemKind, resultVars, reviewVars>>

\* terminalize_item_attempt: a running Attempt, and with it its Item, takes st.
TerminalizeItemAttempt(a, st) ==
    /\ attStatus[a] = "running"
    /\ st \in Terminal
    /\ attStatus' = [attStatus EXCEPT ![a] = st]
    /\ itemStatus' = [itemStatus EXCEPT ![attItem[a]] = st]
    /\ UNCHANGED <<taskVars, runVars, itemRun, itemKind, attItem, resultVars, reviewVars>>

-----------------------------------------------------------------------------
(* Tool Reviews. *)

\* No other Review's row names tool Item i (UNIQUE(tool_item_id)).
AskedOnce(i, p) == \A q \in Review \ {p} : reviewStatus[q] # "none" => reviewTool[q] # i

\* bind_tool_review: the blocked tool Item's Run waits for proposal p, the first
\* that asks for this Item.  Binding an undecided p again for the same tool Item
\* repeats the two status updates.
BindToolReview(r, i, p) ==
    /\ itemRun[i] = r
    /\ itemKind[i] = "tool_call"
    /\ itemStatus[i] = "blocked"
    /\ runStatus[r] \in Live
    /\ \/ reviewStatus[p] = "none" /\ itemRun[p] = NoRun /\ AskedOnce(i, p)
       \/ reviewStatus[p] = "waiting" /\ reviewTool[p] = i /\ itemRun[p] = r
    /\ reviewStatus' = [reviewStatus EXCEPT ![p] = "waiting"]
    /\ reviewTool' = [reviewTool EXCEPT ![p] = i]
    /\ itemRun' = [itemRun EXCEPT ![p] = r]
    /\ itemKind' = [itemKind EXCEPT ![p] = "review_checkpoint"]
    /\ itemStatus' = [itemStatus EXCEPT ![p] = IF itemRun[p] = NoRun THEN "waiting" ELSE @]
    /\ taskStatus' = [taskStatus EXCEPT ![runTask[r]] = IF @ \in Live THEN "waiting_review" ELSE @]
    /\ runStatus' = [runStatus EXCEPT ![r] = "waiting_review"]
    /\ UNCHANGED <<runTask, runOrdinal, attVars, resultVars>>

\* Slip: the decision is written to the Review Item as its status.
DecideIntoItem(p, decision, next) ==
    LET r == itemRun[p]
        t == runTask[r]
    IN /\ reviewStatus[p] = "waiting"
       /\ reviewStatus' = [reviewStatus EXCEPT ![p] = decision]
       /\ itemStatus' = [itemStatus EXCEPT ![p] = decision]
       /\ taskStatus' = [taskStatus EXCEPT ![t] = next]
       /\ runStatus' = [runStatus EXCEPT ![r] = next]
       /\ UNCHANGED <<runTask, runOrdinal, itemRun, itemKind, attVars, resultVars, reviewTool>>

\* The writes that decide a waiting Review: its checkpoint takes decision, its
\* Item is completed if it still waits, and the Run and its Task, each if
\* it waits for review, take next.
DecideToolReview(p, decision, next) ==
    LET r == itemRun[p]
        t == runTask[r]
    IN /\ reviewStatus[p] = "waiting"
       /\ reviewStatus' = [reviewStatus EXCEPT ![p] = decision]
       /\ itemStatus' = [itemStatus EXCEPT ![p] = IF @ = "waiting" THEN "completed" ELSE @]
       /\ taskStatus' = [taskStatus EXCEPT ![t] = IF @ = "waiting_review" THEN next ELSE @]
       /\ runStatus' = [runStatus EXCEPT ![r] = IF @ = "waiting_review" THEN next ELSE @]
       /\ UNCHANGED <<runTask, runOrdinal, itemRun, itemKind, attVars, resultVars, reviewTool>>

\* mark_tool_review_accepted: the Run resumes when nothing else waits and its
\* executor is live; without a live executor it is interrupted.  artifactWaiting
\* says whether an Artifact Review of the Run also waits.
MarkToolReviewAccepted(p, live, artifactWaiting) ==
    LET otherWaiting == WaitingReviews(itemRun[p]) # {p} \/ artifactWaiting
    IN \/ ~live /\ DecideToolReview(p, "accepted", "interrupted")
       \/ live /\ ~otherWaiting /\ DecideToolReview(p, "accepted", "running")
       \/ live /\ otherWaiting /\ DecideToolReview(p, "accepted", "waiting_review")

\* Slip: a rejection leaves the Run at its pause.
RejectKeepsPause(p) == DecideToolReview(p, "rejected", "waiting_review")

\* mark_tool_review_rejected.
MarkToolReviewRejected(p) == DecideToolReview(p, "rejected", "blocked")

-----------------------------------------------------------------------------
(* Any caller may invoke any operation. *)

StoreNext ==
    \/ \E t \in Task, r \in Run : BeginGeneralTaskRun(t, r)
    \/ \E r \in Run, st \in GeneralTerminal : TerminalizeGeneralRun(r, st)
    \/ RecoverInterruptedGeneralRuns
    \/ \E r \in Run : CompleteGeneralTask(r)
    \/ \E r \in Run : DeferGeneralTaskResult(r)
    \/ \E r \in Run, i \in Item \ Review, kind \in CanonicalTaskItemKind :
          AppendGeneralItem(r, i, kind)
    \/ \E i \in Item : CompleteAppendedItem(i)
    \/ \E i \in Item \ Review, a \in Attempt : BeginItemAttempt(i, a)
    \/ \E a \in Attempt, st \in Terminal : TerminalizeItemAttempt(a, st)
    \/ \E r \in Run, i \in Item \ Review, p \in Review : BindToolReview(r, i, p)
    \/ \E p \in Review, live \in BOOLEAN : MarkToolReviewAccepted(p, live, FALSE)
    \/ \E p \in Review : MarkToolReviewRejected(p)

StoreSpec == StoreInit /\ [][StoreNext]_storeVars
-----------------------------------------------------------------------------
(* Properties of the general and tool Review operations, whoever calls them. *)

\* A Run that ended keeps the status it ended with: no general or tool Review
\* operation, replayed or late, turns a cancelled, failed or completed Run into anything else
\* (terminalize_general_run's conflict error, the status filters of the others).
KeepEndedRuns == \A r \in Run : runStatus[r] \in Terminal => runStatus'[r] = runStatus[r]

\* Every step of the store is such a step.
RunTerminalStable == [][KeepEndedRuns]_storeVars

\* An Attempt that ended stays the fact it was and stays with its Item: closing
\* a Run, retrying an Item or recovering after a crash never rewrites it.
KeepEndedAttempts ==
    \A a \in Attempt : attStatus[a] \in Terminal =>
       attStatus'[a] = attStatus[a] /\ attItem'[a] = attItem[a]

\* Every step of the store is such a step.
AttemptTerminalStable == [][KeepEndedAttempts]_storeVars

\* A Run has a FinalResult exactly when it is completed, whatever Stop, recovery
\* or tool Review decisions interleave with its completion.
FinalResultIffCompleted ==
    \A r \in Run : r \in finalResult <=> runStatus[r] = "completed"

\* A Run waits for review only while some tool Review of it is undecided, and a
\* Run that runs or is completed has no undecided Review: a pause is never
\* lost and the Run never goes on past an unanswered question.
PauseMatchesReviews ==
    \A r \in Run :
       /\ runStatus[r] = "waiting_review" => WaitingReviews(r) # {}
       /\ runStatus[r] \in {"running", "completed"} => WaitingReviews(r) = {}

\* The rows of the store point at rows that exist: a Run has a status exactly
\* when it has a Task, an Item belongs to a begun Run, and a Review's Item exists
\* exactly when its checkpoint does (bind_tool_review inserts both).
RowsConsistent ==
    /\ \A r \in Run : runTask[r] = NoTask <=> runStatus[r] = "none"
    /\ \A i \in Item : itemRun[i] # NoRun => runTask[itemRun[i]] # NoTask
    /\ \A p \in Review : reviewStatus[p] = "none" <=> itemRun[p] = NoRun

\* An Attempt has a status exactly when it has an Item.
AttemptRowsConsistent ==
    \A a \in Attempt : attItem[a] = NoItem <=> attStatus[a] = "none"

\* The inductive invariant behind the theorems about the store.
StoreInv ==
    /\ StoreTypeOK
    /\ RowsConsistent
    /\ AttemptRowsConsistent
    /\ PauseMatchesReviews
    /\ FinalResultIffCompleted
=============================================================================
