---------------------------- MODULE WorkRuntime ----------------------------
(***************************************************************************)
(* The Work executor and the commands that race with it:                   *)
(*   src-tauri/src/canonical_work_runtime.rs    run, restart, stop         *)
(*   src-tauri/src/canonical_chat_runtime.rs    cancel, provider attempts  *)
(*   src-tauri/src/main_chat_cancellation.rs    cancellation registry      *)
(*   openlife-core/src/conversation.rs          Turns                      *)
(*   src-tauri/src/bootstrap.rs                 startup recovery           *)
(*                                                                         *)
(* One invocation of run_canonical_work drives one Run.  It is an async    *)
(* task that calls the Conversation store and the task store under their   *)
(* own locks: each call is one action, and anything may happen between     *)
(* two calls.  Run ids double as Turn ids (the Run's execution_session_id  *)
(* is its Turn), and every Task has a Conversation of its own.             *)
(*                                                                         *)
(* Left out: prompts, plans, evidence and what decides them (a choice of   *)
(* the model here), Artifact delivery, steering, and observation Items,    *)
(* which are appended and completed under one hold of the store's lock.    *)
(***************************************************************************)
EXTENDS TaskRuntime

CONSTANTS
    ExecutionSlots,  \* permits of the parent execution semaphore
    MaxCrashes,      \* bound: how often the process may die
    CancelAnyTurn,   \* whether cancel_chat_turn is also called on Work Turns
    NoAttempt

ASSUME WorkAssumption ==
    /\ ExecutionSlots \in Nat \ {0}
    /\ MaxCrashes \in Nat
    /\ CancelAnyTurn \in BOOLEAN
    /\ NoAttempt \notin Attempt

VARIABLES
    turn,     \* conversation_turns.status of the Turn with the Run's id
    exec,     \* the local state of the invocation that drives the Run
    cancel,   \* the cancellation registry's entry for the Turn
    stop,     \* the local state of a Stop command aimed at the Run
    boot,     \* "up", or the startup recovery step that comes next
    crashes   \* how often the process has died

workVars == <<turn, exec, cancel, stop, boot, crashes>>
allVars  == <<storeVars, workVars>>

TurnStatus == {"running", "completed", "failed", "cancelled", "interrupted"}

\* Where an invocation stands.  "confirm" to "granted" belong to the tool Review
\* protocol (module ToolReview).
ExecPc == {"idle", "called", "turn", "begun", "work", "start", "admit", "call", "tool",
           "error", "fail", "failTurn", "answer", "replay", "exit",
           "confirm", "submitted", "bind", "wait", "decided", "approved", "granted"}

\* Which part of run_canonical_work_with_resource_scope it is in: the initial
\* decision (under a select with the cancellation token), planning (not under
\* one), the kernel (under one), and what follows (not under one).
Phase == {"initial", "planning", "kernel", "post"}

\* provider_state: the last provider event the invocation saw.
ProviderState == {"none", "started", "completed", "failed", "unknown"}

Exec == [pc : ExecPc, task : Task \union {NoTask}, phase : Phase,
         provider : ProviderState, lifecycleError : BOOLEAN,
         endAs : GeneralTerminal \union {"none"}, item : Item \union {NoItem},
         att : Attempt \union {NoAttempt}]

NotStarted == [pc |-> "idle", task |-> NoTask, phase |-> "initial",
               provider |-> "none", lifecycleError |-> FALSE,
               endAs |-> "none", item |-> NoItem, att |-> NoAttempt]

WorkTypeOK ==
    /\ StoreTypeOK
    /\ turn \in [Run -> TurnStatus \union {"none"}]
    /\ exec \in [Run -> Exec]
    /\ cancel \in [Run -> {"none", "active", "cancelled", "tombstone"}]
    /\ stop \in [Run -> {"idle", "readRunning", "readEnded", "turn", "run"}]
    /\ boot \in {"up", "turns", "runs"}
    /\ crashes \in 0..MaxCrashes

WorkInit ==
    /\ StoreInit
    /\ turn = [r \in Run |-> "none"]
    /\ exec = [r \in Run |-> NotStarted]
    /\ cancel = [r \in Run |-> "none"]
    /\ stop = [r \in Run |-> "idle"]
    /\ boot = "up"
    /\ crashes = 0

Executing(r) == exec[r].pc \notin {"idle", "exit"}
Latest(r) == \A q \in RunsOf(runTask[r]) : runOrdinal[q] <= runOrdinal[r]
Registered(r) == cancel[r] \in {"active", "cancelled"}

\* The invocation is at pc and goes to next, keeping the rest of its state.
At(r, pc) == boot = "up" /\ exec[r].pc = pc
Goto(r, next) == exec' = [exec EXCEPT ![r].pc = next]

\* The invocation drops what it no longer reads and goes to next.
Drop(r, next, st) ==
    exec' = [exec EXCEPT ![r] = [NotStarted EXCEPT !.pc = next, !.task = exec[r].task, !.endAs = st]]

\* The invocation returns: its slot and its registration are dropped.
Return(r) ==
    /\ Drop(r, "exit", "none")
    /\ cancel' = [cancel EXCEPT ![r] = IF Registered(r) THEN "none" ELSE @]

\* It goes on to terminalize_failure with status st.
GoFail(r, st) == Drop(r, "fail", st)

-----------------------------------------------------------------------------
(* Admission. *)

SlotFree == Cardinality({q \in Run : Executing(q)}) < ExecutionSlots

Call(r, t) == exec' = [exec EXCEPT ![r] = [NotStarted EXCEPT !.pc = "called", !.task = t]]

\* The composer starts a new Task with fresh Task, Run and Turn ids.
StartWork(t, r) ==
    /\ At(r, "idle") /\ SlotFree
    /\ taskStatus[t] = "none"
    /\ \A q \in Run : exec[q].task # t
    /\ Call(r, t)
    /\ UNCHANGED <<storeVars, turn, cancel, stop, boot, crashes>>

\* restart_canonical_work_task: Retry or Resume the Task's latest Run q.
RestartWork(t, q, r) ==
    /\ At(r, "idle") /\ SlotFree
    /\ q \in RunsOf(t) /\ Latest(q)
    /\ \E S \in {{"failed", "blocked"}, {"cancelled", "interrupted"}} :
          taskStatus[t] \in S /\ runStatus[q] \in S
    /\ Call(r, t)
    /\ UNCHANGED <<storeVars, turn, cancel, stop, boot, crashes>>

\* The same request is sent again after the first invocation returned (a second
\* one during the first is refused by try_register and changes nothing).  This
\* action and ReplayCompleted are composed in ToolReview.
ReinvokeRun(r) ==
    /\ At(r, "exit") /\ SlotFree
    /\ Call(r, exec[r].task)
    /\ UNCHANGED <<storeVars, turn, cancel, stop, boot, crashes>>

\* A Conversation runs one Turn at a time.
ConversationBusy(r) == \E q \in Run : exec[q].task = exec[r].task /\ turn[q] = "running"

\* begin_chat_turn_with_proof, and what the executor does with the Turn it gets.
BeginTurn(r) ==
    /\ At(r, "called")
    /\ \/ /\ turn[r] = "none" /\ ~ConversationBusy(r)
          /\ turn' = [turn EXCEPT ![r] = "running"]
          /\ Goto(r, "turn")
          /\ UNCHANGED cancel
       \/ turn[r] = "running" /\ Goto(r, "turn") /\ UNCHANGED <<turn, cancel>>
       \/ turn[r] = "completed" /\ Goto(r, "replay") /\ UNCHANGED <<turn, cancel>>
       \/ /\ \/ turn[r] = "none" /\ ConversationBusy(r)
             \/ turn[r] \in {"failed", "cancelled", "interrupted"}
          /\ Return(r)
          /\ UNCHANGED turn
    /\ UNCHANGED <<storeVars, stop, boot, crashes>>

\* begin_general_task_run, for a new Run or as a replay of the same Run.
BeginRun(r) ==
    /\ At(r, "turn")
    /\ \/ BeginGeneralTaskRun(exec[r].task, r)
       \/ runTask[r] # NoTask /\ UNCHANGED storeVars
    /\ Goto(r, "begun")
    /\ UNCHANGED <<turn, cancel, stop, boot, crashes>>

\* An error between begin_chat_turn and the registration: the Task is not
\* retryable, or the Conversation's skill, Project or plan changed.  The
\* invocation returns and leaves the Turn running.
BeginRunRefused(r) ==
    /\ At(r, "turn")
    /\ Return(r)
    /\ UNCHANGED <<storeVars, turn, stop, boot, crashes>>

\* canonical_project_read_scope fails before the registration.
ScopeUnreadable(r) ==
    /\ At(r, "begun")
    /\ GoFail(r, "blocked")
    /\ UNCHANGED <<storeVars, turn, cancel, stop, boot, crashes>>

\* try_register: a tombstone left by an earlier Stop cancels the new token.
Register(r) ==
    /\ At(r, "begun")
    /\ ~Registered(r)
    /\ cancel' = [cancel EXCEPT ![r] = IF @ = "tombstone" THEN "cancelled" ELSE "active"]
    /\ Goto(r, "work")
    /\ UNCHANGED <<storeVars, turn, stop, boot, crashes>>

-----------------------------------------------------------------------------
(* Provider calls and tools. *)

\* CanonicalWorkProviderLifecycle::begin, its first transaction.
ProviderAppend(r, i) ==
    /\ At(r, "work")
    /\ exec[r].att = NoAttempt
    /\ AppendGeneralItem(r, i, "provider_generation")
    /\ exec' = [exec EXCEPT ![r].pc = "start", ![r].item = i]
    /\ UNCHANGED <<turn, cancel, stop, boot, crashes>>

\* The second transaction of begin: nothing orders it with a Stop.
ProviderBegin(r, a) ==
    /\ At(r, "start")
    /\ \/ /\ BeginItemAttempt(exec[r].item, a)
          /\ exec' = [exec EXCEPT ![r].pc = "admit", ![r].att = a]
       \/ /\ itemStatus[exec[r].item] \in {"completed", "cancelled", "effect_unknown"}
          /\ Goto(r, "error")
          /\ UNCHANGED storeVars
    /\ UNCHANGED <<turn, cancel, stop, boot, crashes>>

\* Slip: the adapter starts without asking the registry.
AdmitAlways(r) ==
    /\ At(r, "admit")
    /\ exec' = [exec EXCEPT ![r].pc = "call", ![r].provider = "started"]
    /\ UNCHANGED <<storeVars, turn, cancel, stop, boot, crashes>>

\* admit_provider_start: after a cancellation the adapter is not started, and the
\* Attempt just begun stays the invocation's active one.
AdmitProviderStart(r) ==
    /\ At(r, "admit")
    /\ \/ cancel[r] = "active" /\ exec' = [exec EXCEPT ![r].pc = "call", ![r].provider = "started"]
       \/ cancel[r] = "cancelled" /\ Goto(r, "error")
    /\ UNCHANGED <<storeVars, turn, cancel, stop, boot, crashes>>

\* The status a provider event gives its Attempt.
AttemptEnd == [completed |-> "completed", failed |-> "failed", unknown |-> "effect_unknown"]

\* emit of ProviderCompleted, ProviderFailed or ProviderRemoteUnknown: the Attempt
\* takes the outcome, or, if something ended it first, the error is kept.
ProviderFinish(r, outcome) ==
    /\ At(r, "call")
    /\ LET a == exec[r].att
           won == attStatus[a] = "running"
       IN /\ \/ won /\ TerminalizeItemAttempt(a, AttemptEnd[outcome])
             \/ ~won /\ UNCHANGED storeVars
          /\ exec' = [exec EXCEPT ![r].pc = IF outcome = "completed" THEN "work" ELSE "error",
                                  ![r].provider = outcome,
                                  ![r].lifecycleError = @ \/ ~won,
                                  ![r].item = NoItem, ![r].att = NoAttempt]
    /\ UNCHANGED <<turn, cancel, stop, boot, crashes>>

\* begin_canonical_work_tool_attempt: the Item (the same one for the same decision)
\* and its Attempt, under one hold of the store's lock.
BeginToolAttempt(r, i, a) ==
    /\ At(r, "work") /\ exec[r].phase = "kernel"
    /\ runStatus[r] = "running"
    /\ \/ itemRun[i] = NoRun
       \/ /\ itemRun[i] = r /\ itemKind[i] = "tool_call"
          /\ itemStatus[i] \notin {"completed", "cancelled", "effect_unknown"}
    /\ attItem[a] = NoItem
    /\ itemRun' = [itemRun EXCEPT ![i] = r]
    /\ itemKind' = [itemKind EXCEPT ![i] = "tool_call"]
    /\ itemStatus' = [itemStatus EXCEPT ![i] = "running"]
    /\ attItem' = [attItem EXCEPT ![a] = i]
    /\ attStatus' = [attStatus EXCEPT ![a] = "running"]
    /\ exec' = [exec EXCEPT ![r].pc = "tool", ![r].item = i, ![r].att = a]
    /\ UNCHANGED <<taskVars, runVars, resultVars, reviewVars, turn, cancel, stop, boot, crashes>>

\* terminalize_canonical_work_tool_attempt.  A result that needs confirmation ends
\* the Attempt as blocked and starts the Review protocol.
ToolFinish(r, st, next) ==
    /\ At(r, "tool") \/ At(r, "granted")
    /\ \/ /\ attStatus[exec[r].att] = "running"
          /\ TerminalizeItemAttempt(exec[r].att, st)
          /\ exec' = [exec EXCEPT ![r].pc = next, ![r].att = NoAttempt,
                                  ![r].item = IF next = "work" THEN NoItem ELSE @]
       \/ /\ attStatus[exec[r].att] # "running"
          /\ exec' = [exec EXCEPT ![r].pc = "work", ![r].item = NoItem, ![r].att = NoAttempt]
          /\ UNCHANGED storeVars
    /\ UNCHANGED <<turn, cancel, stop, boot, crashes>>

\* A step is refused: the budget is spent, the Run no longer runs, an Attempt is
\* already active, the plan or the answer is invalid.
StepRefused(r) ==
    /\ At(r, "work")
    /\ Goto(r, "error")
    /\ UNCHANGED <<storeVars, turn, cancel, stop, boot, crashes>>

\* provider_non_success_terminal, with the status used when it has none.
FailureStatus(provider, otherwise) ==
    IF provider \in {"failed", "unknown"} THEN "failed"
    ELSE IF provider = "started" THEN "interrupted" ELSE otherwise

\* What a failed step does, by phase.  Planning returns with ? and ends nothing;
\* the kernel may go on with another step.
StepError(r) ==
    /\ At(r, "error")
    /\ \/ /\ exec[r].phase = "initial"
          /\ GoFail(r, FailureStatus(exec[r].provider, "blocked"))
          /\ UNCHANGED cancel
       \/ exec[r].phase = "planning" /\ Return(r)
       \/ exec[r].phase = "kernel" /\ Goto(r, "work") /\ UNCHANGED cancel
       \/ exec[r].phase = "post" /\ GoFail(r, "blocked") /\ UNCHANGED cancel
    /\ UNCHANGED <<storeVars, turn, stop, boot, crashes>>

\* The initial decision asks again after a failed, an unknown or an invalid answer.
RetryDecision(r) ==
    /\ At(r, "error") /\ exec[r].phase = "initial"
    /\ Goto(r, "work")
    /\ UNCHANGED <<storeVars, turn, cancel, stop, boot, crashes>>

\* From one phase to the next.  The token is checked after the initial decision.
EndPhase(r) ==
    /\ At(r, "work")
    /\ \/ /\ exec[r].phase = "initial" /\ cancel[r] = "active"
          /\ exec' = [exec EXCEPT ![r].phase = "planning"]
       \/ exec[r].phase = "initial" /\ cancel[r] = "cancelled" /\ GoFail(r, "cancelled")
       \/ exec[r].phase = "planning" /\ exec' = [exec EXCEPT ![r].phase = "kernel"]
       \/ exec[r].phase = "planning" /\ GoFail(r, "blocked")
       \/ exec[r].phase = "kernel" /\ exec' = [exec EXCEPT ![r].phase = "post"]
    /\ UNCHANGED <<storeVars, turn, cancel, stop, boot, crashes>>

\* Slip: the kernel is awaited outside a select.
ObserveCancelAtStart(r) ==
    /\ boot = "up"
    /\ exec[r].pc \in {"work", "call"}
    /\ exec[r].phase = "initial"
    /\ cancel[r] = "cancelled"
    /\ GoFail(r, "cancelled")
    /\ UNCHANGED <<storeVars, turn, cancel, stop, boot, crashes>>

\* The token's arm of the two selects drops the future, whatever it waits for.
ObserveCancel(r) ==
    /\ boot = "up"
    /\ exec[r].pc \in {"work", "call", "tool", "confirm", "submitted", "bind", "wait", "decided",
                       "approved", "granted"}
    /\ exec[r].phase \in {"initial", "kernel"}
    /\ cancel[r] = "cancelled"
    /\ GoFail(r, "cancelled")
    /\ UNCHANGED <<storeVars, turn, cancel, stop, boot, crashes>>
-----------------------------------------------------------------------------
(* How an invocation ends. *)

\* The checks that follow the kernel, in their order.
ProviderFailed(r) ==
    /\ At(r, "work") /\ exec[r].phase = "post"
    /\ \/ exec[r].lifecycleError /\ GoFail(r, "failed")
       \/ /\ ~exec[r].lifecycleError /\ exec[r].provider \notin {"none", "completed"}
          /\ GoFail(r, FailureStatus(exec[r].provider, "failed"))
    /\ UNCHANGED <<storeVars, turn, cancel, stop, boot, crashes>>

\* Recording what the kernel used fails with ? when the Run no longer runs.
ProjectionRefused(r) ==
    /\ At(r, "work") /\ exec[r].phase = "post"
    /\ runStatus[r] # "running"
    /\ Return(r)
    /\ UNCHANGED <<storeVars, turn, stop, boot, crashes>>

\* Slip: an error of complete_work_turn is logged and ignored.
CompleteTurnUnchecked(r) ==
    /\ At(r, "work") /\ exec[r].phase = "post"
    /\ ~exec[r].lifecycleError /\ exec[r].provider \in {"none", "completed"}
    /\ turn' = [turn EXCEPT ![r] = IF @ = "running" THEN "completed" ELSE @]
    /\ Goto(r, "answer")
    /\ UNCHANGED <<storeVars, cancel, stop, boot, crashes>>

\* complete_work_turn: the assistant Item and the Turn, in the Conversation store.
CompleteWorkTurn(r) ==
    /\ At(r, "work") /\ exec[r].phase = "post"
    /\ ~exec[r].lifecycleError /\ exec[r].provider \in {"none", "completed"}
    /\ \/ /\ turn[r] = "running"
          /\ turn' = [turn EXCEPT ![r] = "completed"]
          /\ Goto(r, "answer")
          /\ UNCHANGED cancel
       \/ turn[r] # "running" /\ Return(r) /\ UNCHANGED turn
    /\ UNCHANGED <<storeVars, stop, boot, crashes>>

CanComplete(r) == runStatus[r] = "running" /\ Unsettled(r) = {}

\* complete_general_task, then return; its error only returns.
CompleteTask(r) ==
    /\ At(r, "answer")
    /\ \/ CompleteGeneralTask(r)
       \/ ~CanComplete(r) /\ UNCHANGED storeVars
    /\ Return(r)
    /\ UNCHANGED <<turn, stop, boot, crashes>>

\* Slip: the replay trusts the request and completes the Run of a Turn that may
\* not be the one it asked for.
ReplayAnyTurn(r) ==
    /\ boot = "up" /\ exec[r].pc \in {"turn", "replay"}
    /\ \/ CompleteGeneralTask(r)
       \/ ~CanComplete(r) /\ UNCHANGED storeVars
    /\ Return(r)
    /\ UNCHANGED <<turn, stop, boot, crashes>>

\* replay_completed: the Turn was completed by an earlier invocation; its Run is
\* completed now if nothing else happened to it.
ReplayCompleted(r) ==
    /\ At(r, "replay")
    /\ LET t == exec[r].task
           settled == \/ taskStatus[t] = "waiting_review"
                      \/ taskStatus[t] = "completed" /\ RunsOf(t) \intersect finalResult # {}
       IN \/ ~settled /\ CompleteGeneralTask(r)
          \/ (settled \/ ~CanComplete(r)) /\ UNCHANGED storeVars
    /\ Return(r)
    /\ UNCHANGED <<turn, stop, boot, crashes>>

CanTerminalize(r, st) == runTask[r] # NoTask /\ runStatus[r] \in Live \union {st}

\* terminalize_failure, the Run: a conflict returns before the Turn is touched.
FailRun(r) ==
    /\ At(r, "fail")
    /\ \/ /\ TerminalizeGeneralRun(r, exec[r].endAs)
          /\ Goto(r, "failTurn")
          /\ UNCHANGED cancel
       \/ ~CanTerminalize(r, exec[r].endAs) /\ Return(r) /\ UNCHANGED storeVars
    /\ UNCHANGED <<turn, stop, boot, crashes>>

\* terminalize_failure, the Turn: cancelled or failed, unless it already ended.
FailTurn(r) ==
    /\ At(r, "failTurn")
    /\ turn' = [turn EXCEPT ![r] =
          IF @ # "running" THEN @
          ELSE IF exec[r].endAs = "cancelled" THEN "cancelled" ELSE "failed"]
    /\ Return(r)
    /\ UNCHANGED <<storeVars, stop, boot, crashes>>

-----------------------------------------------------------------------------
(* Stop. *)

\* stop_canonical_work_run on the latest, live Run of a Task, or cancel_chat_turn
\* on any Turn; both go on to cancel_canonical_chat, which reads the Turn.
RequestStop(r) ==
    /\ boot = "up" /\ stop[r] = "idle"
    /\ turn[r] # "none"
    /\ CancelAnyTurn \/ (runStatus[r] \in Live /\ Latest(r))
    /\ stop' = [stop EXCEPT ![r] = IF turn[r] = "running" THEN "readRunning" ELSE "readEnded"]
    /\ UNCHANGED <<storeVars, turn, exec, cancel, boot, crashes>>

\* Slip: a Stop with no registered owner leaves no trace.
RequestCancelOwnerOnly(r) ==
    /\ boot = "up" /\ stop[r] \in {"readRunning", "readEnded"}
    /\ cancel' = [cancel EXCEPT ![r] = IF Registered(r) THEN "cancelled" ELSE @]
    /\ stop' = [stop EXCEPT ![r] = IF @ = "readRunning" THEN "turn" ELSE "run"]
    /\ UNCHANGED <<storeVars, turn, exec, boot, crashes>>

\* request_cancel: wake the registered owner, or leave a tombstone for the next one.
RequestCancel(r) ==
    /\ boot = "up" /\ stop[r] \in {"readRunning", "readEnded"}
    /\ cancel' = [cancel EXCEPT ![r] = IF Registered(r) THEN "cancelled" ELSE "tombstone"]
    /\ stop' = [stop EXCEPT ![r] = IF @ = "readRunning" THEN "turn" ELSE "run"]
    /\ UNCHANGED <<storeVars, turn, exec, boot, crashes>>

\* cancel_chat_turn on a Turn that was running when it was read: an error, when it
\* has since ended otherwise, aborts the Stop.
StopTurn(r) ==
    /\ boot = "up" /\ stop[r] = "turn"
    /\ turn' = [turn EXCEPT ![r] = IF @ = "running" THEN "cancelled" ELSE @]
    /\ stop' = [stop EXCEPT ![r] = IF turn[r] \in {"running", "cancelled"} THEN "run" ELSE "idle"]
    /\ UNCHANGED <<storeVars, exec, cancel, boot, crashes>>

\* terminalize_general_run(cancelled) on the Run bound to the Turn, if there is one.
StopRun(r) ==
    /\ boot = "up" /\ stop[r] = "run"
    /\ \/ TerminalizeGeneralRun(r, "cancelled")
       \/ ~CanTerminalize(r, "cancelled") /\ UNCHANGED storeVars
    /\ stop' = [stop EXCEPT ![r] = "idle"]
    /\ UNCHANGED <<turn, exec, cancel, boot, crashes>>

-----------------------------------------------------------------------------
(* Crash and startup. *)

\* The process dies: invocations, commands and the registry are gone.
Crash ==
    /\ boot = "up" /\ crashes < MaxCrashes
    /\ crashes' = crashes + 1
    /\ boot' = "turns"
    /\ exec' = [r \in Run |-> IF exec[r].pc = "idle" THEN exec[r]
                              ELSE [NotStarted EXCEPT !.pc = "exit", !.task = exec[r].task]]
    /\ cancel' = [r \in Run |-> "none"]
    /\ stop' = [r \in Run |-> "idle"]
    /\ UNCHANGED <<storeVars, turn>>

\* interrupt_incomplete_turns.
BootTurns ==
    /\ boot = "turns"
    /\ turn' = [r \in Run |-> IF turn[r] = "running" THEN "interrupted" ELSE turn[r]]
    /\ boot' = "runs"
    /\ UNCHANGED <<storeVars, exec, cancel, stop, crashes>>

\* recover_interrupted_general_runs.
BootRuns ==
    /\ boot = "runs"
    /\ \/ RecoverInterruptedGeneralRuns
       \/ (\A r \in Run : runStatus[r] # "running") /\ UNCHANGED storeVars
    /\ boot' = "up"
    /\ UNCHANGED <<turn, exec, cancel, stop, crashes>>

-----------------------------------------------------------------------------
(* The next-state relation and its fairness. *)

ToolOutcome == {"completed", "failed", "blocked", "interrupted", "effect_unknown"}

\* What an admitted invocation does next.
ExecStep(r) ==
    \/ BeginTurn(r) \/ BeginRun(r) \/ BeginRunRefused(r) \/ ScopeUnreadable(r) \/ Register(r)
    \/ \E i \in Item \ Review : ProviderAppend(r, i)
    \/ \E a \in Attempt : ProviderBegin(r, a)
    \/ AdmitProviderStart(r)
    \/ \E outcome \in DOMAIN AttemptEnd : ProviderFinish(r, outcome)
    \/ \E i \in Item \ Review, a \in Attempt : BeginToolAttempt(r, i, a)
    \/ \E st \in ToolOutcome : ToolFinish(r, st, "work")
    \/ StepRefused(r) \/ StepError(r) \/ RetryDecision(r) \/ EndPhase(r) \/ ObserveCancel(r)
    \/ ProviderFailed(r) \/ ProjectionRefused(r)
    \/ CompleteWorkTurn(r) \/ CompleteTask(r)
    \/ FailRun(r) \/ FailTurn(r)

StopStep(r) == RequestCancel(r) \/ StopTurn(r) \/ StopRun(r)

BootStep == BootTurns \/ BootRuns

\* What the user and the frontend do, when they please.
UserStep ==
    \/ \E t \in Task, r \in Run : StartWork(t, r)
    \/ \E t \in Task, q, r \in Run : RestartWork(t, q, r)
    \/ \E r \in Run : RequestStop(r)

WorkNext ==
    \/ UserStep
    \/ \E r \in Run : ExecStep(r) \/ StopStep(r)
    \/ Crash
    \/ BootStep

WorkSpec == WorkInit /\ [][WorkNext]_allVars

\* The async runtime polls every ready task, provider calls and tools end (their
\* clients have timeouts), and startup runs to its end before the window opens.
\* A select polls the token's arm whenever the future under it gives way, so a
\* kernel that retries for ever does not starve it.  Nobody is bound to start,
\* retry or stop anything.
WorkFairness ==
    /\ \A r \in Run : WF_allVars(ExecStep(r)) /\ WF_allVars(StopStep(r))
    /\ \A r \in Run : SF_allVars(ObserveCancel(r))
    /\ WF_allVars(BootStep)

FairWorkSpec == WorkSpec /\ WorkFairness

-----------------------------------------------------------------------------
(* Properties. *)

\* A FinalResult points at the assistant Item of its own Turn: no Run is completed
\* whose Turn is not, however Stop, a crash, a replay of the request or a second
\* Run interleave with the two stores' separate transactions.
ResultHasAnswer == \A r \in finalResult : turn[r] = "completed"

\* A Run that ended left nothing open: no Attempt of it runs and no Item of it
\* waits, although the executor's provider and tool steps race with the Stop
\* that ended it.
EndedRunIsSettled ==
    \A r \in Run : runStatus[r] \in Terminal =>
       /\ \A a \in AttemptsOf(r) : attStatus[a] # "running"
       /\ \A i \in ItemsOf(r) : itemStatus[i] \notin {"waiting", "running"}

\* A Task shown as running has a Run that runs, and one shown as waiting for
\* review has a Run that waits, however late executors, Stops and the
\* startup recovery write the two statuses.  (Callers of the store that end a Run
\* with its Review undecided could break it; the executor waits for its Review.)
LiveTaskHasLiveRun ==
    \A t \in Task :
       /\ taskStatus[t] = "running" => \E r \in RunsOf(t) : runStatus[r] = "running"
       /\ taskStatus[t] = "waiting_review" => \E r \in RunsOf(t) : runStatus[r] = "waiting_review"

\* No provider adapter is started for a Run that ended: Stop reaches the registry
\* before it ends the Run, and the registry admits every start.
NoCallAfterEnd ==
    [][\A r \in Run : exec[r].pc # "call" /\ exec'[r].pc = "call"
          => runStatus[r] = "running"]_allVars

\* A stopped Turn's Run does not run on: also when the Stop came before the Run
\* existed, when the process died half way, and when planning gave up.
StoppedRunEnds == \A r \in Run : turn[r] = "cancelled" ~> runStatus[r] # "running"

\* What the comment on the transport retry promises: a provider call whose outcome
\* is unknown is asked again "without the effect-unknown rules required for file
\* writes", so a Run whose answer is out, and that has nothing open but such calls,
\* ends.
AnsweredRunEnds ==
    \A r \in Run :
       /\ turn[r] = "completed"
       /\ \A i \in Unsettled(r) :
             itemKind[i] = "provider_generation" /\ itemStatus[i] = "effect_unknown"
       ~> runStatus[r] # "running"

\* A cancelled executor returns and gives its slot and its registration back.
CancelledExecutorReturns == \A r \in Run : cancel[r] = "cancelled" ~> ~Executing(r)
=============================================================================
