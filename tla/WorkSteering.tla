---------------------------- MODULE WorkSteering ----------------------------
(***************************************************************************)
(* Plans and Steering of a running Run:                                    *)
(*   src-tauri/src/main_chat_steering.rs        the submit command         *)
(*   openlife-core/src/task_runtime.rs          Plan and Steering rows     *)
(*   openlife-core/src/conversation.rs          the Steering message       *)
(*   src-tauri/src/canonical_work_runtime.rs    persist, checkpoint        *)
(*                                                                         *)
(* The user steers a Run while its executor is deciding what to do.  The   *)
(* submit command holds the outer async lock of the task store from its    *)
(* check to its insert, and writes to the Conversation store in between.   *)
(* The executor takes that lock for each of its own calls, except that the *)
(* provider lifecycle works on a CLONE of the store: its transactions come *)
(* between any two steps of the command.                                   *)
(*                                                                         *)
(* Left out: what a Plan says (it is its revision here), plan step Items   *)
(* (appended and completed under one hold of the lock), tool calls (no     *)
(* operation below reads a tool Item), the one transport retry inside a    *)
(* try, which appends a further Item as the next try does, and the unknown *)
(* outcome of a call, which nothing below tells from a failed one.         *)
(***************************************************************************)
EXTENDS WorkRuntime

CONSTANTS
    Steering,    \* steering ids; the id of the Steering Item derives from it
    NoSteering

ASSUME SteeringAssumption ==
    /\ Steering \subseteq Item \ Review
    /\ NoSteering \notin Steering

VARIABLES
    generation,    \* the provider Items with summary work_provider_generation
    planRevision,  \* canonical_task_runs.plan_revision
    plan,          \* canonical_work_plans.plan_revision, 0: no row
    steering,      \* canonical_steering: status and base_plan_revision
    message,       \* the Run whose Turn has the user_steering Conversation Item
    submit,        \* the local state of the submit command, which holds the lock
    planning       \* the planning state of the invocation that drives the Run

steeringRows == <<generation, planRevision, plan, steering, message>>
steeringVars == <<steeringRows, submit, planning>>
everything   == <<allVars, steeringVars>>

SteeringStatus == {"pending", "applied", "rejected", "blocked"}

NoSubmit == [pc |-> "idle", id |-> NoSteering, run |-> NoRun, base |-> 0]

\* An invocation's planning state: where it stands, the tries spent on the present
\* question, whether the decision was made without the model, the revision of the
\* Plan in its hands (0: a direct step without a stored Plan), and, at a checkpoint,
\* the Steering it replans for; answered: a call for the present question succeeded.
Undecided == [stage |-> "goal", tries |-> 0, fallback |-> FALSE, local |-> 0,
              id |-> NoSteering, answered |-> FALSE]

Stage == {"goal", "decision", "direct", "persist", "items", "checkpoint", "done"}

\* attempt in 0..2, for the goal contract, the decision and a replan
MaxTries == 2

SteeringTypeOK ==
    /\ WorkTypeOK
    /\ generation \subseteq Item
    /\ planRevision \in [Run -> Nat]
    /\ plan \in [Run -> Nat]
    /\ steering \in [Steering -> [status : SteeringStatus \union {"none"}, base : Nat]]
    /\ message \in [Steering -> Run \union {NoRun}]
    /\ submit \in [pc : {"idle", "append", "submit"}, id : Steering \union {NoSteering},
                   run : Run \union {NoRun}, base : Nat]
    /\ planning \in [Run -> [stage : Stage, tries : 0..MaxTries, fallback : BOOLEAN, local : Nat,
                             id : Steering \union {NoSteering}, answered : BOOLEAN]]

SteeringInit ==
    /\ WorkInit
    /\ generation = {}
    /\ planRevision = [r \in Run |-> 0]
    /\ plan = [r \in Run |-> 0]
    /\ steering = [s \in Steering |-> [status |-> "none", base |-> 0]]
    /\ message = [s \in Steering |-> NoRun]
    /\ submit = NoSubmit
    /\ planning = [r \in Run |-> Undecided]

PendingOf(r) == {s \in Steering : steering[s].status = "pending" /\ itemRun[s] = r}

\* The outer lock of the task store is free.
LockFree == submit.pc = "idle"

\* An id nobody used, of interchangeable ones.
Fresh(S) == IF S = {} THEN {} ELSE {CHOOSE x \in S : TRUE}
FreshItem == Fresh({i \in Item \ (Review \union Steering) : itemRun[i] = NoRun})
FreshAttempt == Fresh({a \in Attempt : attItem[a] = NoItem})
FreshSteering == Fresh({s \in Steering : message[s] = NoRun})

-----------------------------------------------------------------------------
(* The submit command. *)

\* canonical_steering_checkpoint_passed
CheckpointPassed(r) ==
    \E i \in generation : itemRun[i] = r /\ itemStatus[i] \in {"running", "completed"}

\* What validate_steering_admission and submit_steering both require.
Admissible(r, base) ==
    /\ taskStatus[runTask[r]] \in Live
    /\ r \notin finalResult
    /\ planRevision[r] = base
    /\ ~CheckpointPassed(r)
    /\ PendingOf(r) = {}

\* submit_main_chat_task_steering takes the lock, reads the Run's revision and
\* validates; a refusal changes nothing.  The id is new or that of an earlier try.
ValidateSteering(s, r) ==
    /\ boot = "up" /\ LockFree
    /\ s \in FreshSteering \/ message[s] = r
    /\ runTask[r] # NoTask
    /\ Admissible(r, planRevision[r])
    /\ submit' = [pc |-> "append", id |-> s, run |-> r, base |-> planRevision[r]]
    /\ UNCHANGED <<allVars, steeringRows, planning>>

\* append_work_steering: an equal Item is replayed, a new one needs a running Turn.
AppendWorkSteering ==
    /\ submit.pc = "append"
    /\ LET s == submit.id
           r == submit.run
       IN \/ /\ message[s] = r \/ turn[r] = "running"
             /\ message' = [message EXCEPT ![s] = r]
             /\ submit' = [submit EXCEPT !.pc = "submit"]
          \/ /\ message[s] # r /\ turn[r] # "running"
             /\ submit' = NoSubmit
             /\ UNCHANGED message
    /\ UNCHANGED <<allVars, generation, planRevision, plan, steering, planning>>

\* submit_steering: the Steering row and its waiting Item, or an error, or the row
\* an equal command left; the command returns and drops the lock.
SubmitSteering ==
    /\ submit.pc = "submit"
    /\ LET s == submit.id
           r == submit.run
           new == steering[s].status = "none" /\ Admissible(r, submit.base)
       IN \/ /\ new
             /\ steering' = [steering EXCEPT ![s] = [status |-> "pending", base |-> submit.base]]
             /\ itemRun' = [itemRun EXCEPT ![s] = r]
             /\ itemKind' = [itemKind EXCEPT ![s] = "steering"]
             /\ itemStatus' = [itemStatus EXCEPT ![s] = "waiting"]
          \/ ~new /\ UNCHANGED <<steering, itemVars>>
    /\ submit' = NoSubmit
    /\ UNCHANGED <<taskVars, runVars, attVars, resultVars, reviewVars, workVars,
                   generation, planRevision, plan, message, planning>>

-----------------------------------------------------------------------------
(* The executor up to its first decision. *)

\* BeginRun, with the revision the new Run's row starts at.
BeginRunWithRevision(r) ==
    /\ LockFree
    /\ BeginRun(r)
    /\ planRevision' = [planRevision EXCEPT ![r] = 1]
    /\ UNCHANGED <<generation, plan, steering, message, submit, planning>>

\* A question the executor puts to the model up to MaxTries times: the goal
\* contract, the initial decision, and the replan at a checkpoint.
Asking(r) ==
    \/ planning[r].stage \in {"goal", "decision"}
    \/ planning[r].stage = "checkpoint" /\ planning[r].id # NoSteering

\* Where the executor calls a provider; after planning it does as it likes.
MayCall(r) ==
    \/ Asking(r) /\ planning[r].tries < MaxTries /\ ~planning[r].answered
    \/ planning[r].stage = "done"

\* Slip: the call that replans is no generation either.
ReplanUncounted(r, i) ==
    /\ MayCall(r)
    /\ ProviderAppend(r, i)
    /\ generation' = IF planning[r].stage \in {"decision", "done"}
                     THEN generation \union {i} ELSE generation
    /\ UNCHANGED <<planRevision, plan, steering, message, submit, planning>>

\* work_provider_attempt_summary_code: all calls but the goal contract's and the
\* kernel's semantic verification are generations.
ProviderCall(r, i) ==
    /\ MayCall(r)
    /\ ProviderAppend(r, i)
    /\ \/ planning[r].stage # "goal" /\ generation' = generation \union {i}
       \/ /\ planning[r].stage = "goal" \/ (exec[r].phase = "kernel" /\ ~Asking(r))
          /\ UNCHANGED generation
    /\ UNCHANGED <<planRevision, plan, steering, message, submit, planning>>

ProviderAnswer(r, outcome) ==
    /\ ProviderFinish(r, outcome)
    /\ planning' = [planning EXCEPT ![r].answered = outcome = "completed" /\ Asking(r)]
    /\ UNCHANGED <<steeringRows, submit>>

\* An answer that is no valid contract, decision or Plan fails its try.
AnswerInvalid(r) ==
    /\ At(r, "work") /\ planning[r].answered /\ ~planning[r].fallback
    /\ planning' = [planning EXCEPT ![r].answered = FALSE]
    /\ Goto(r, "error")
    /\ UNCHANGED <<storeVars, turn, cancel, stop, boot, crashes, steeringRows, submit>>

\* A failed try, with another one left or, at a checkpoint, with none.
SpendTry(r) ==
    /\ Asking(r)
    /\ \/ planning[r].tries + 1 < MaxTries /\ exec[r].phase = "initial" /\ RetryDecision(r)
       \/ /\ At(r, "error") /\ planning[r].stage = "checkpoint"
          /\ Goto(r, "work")
          /\ UNCHANGED <<storeVars, turn, cancel, stop, boot, crashes>>
    /\ planning' = [planning EXCEPT ![r].tries = @ + 1]
    /\ UNCHANGED <<steeringRows, submit>>

AcceptGoal(r) ==
    /\ At(r, "work") /\ planning[r].stage = "goal" /\ planning[r].answered
    /\ planning' = [planning EXCEPT ![r] = [Undecided EXCEPT !.stage = "decision"]]
    /\ UNCHANGED <<allVars, steeringRows, submit>>

\* deterministic_required_plan: the goal needs a Plan and the last try failed.
FallBack(r) ==
    /\ planning[r].stage = "decision" /\ planning[r].tries + 1 = MaxTries
    /\ RetryDecision(r)
    /\ planning' = [planning EXCEPT ![r].fallback = TRUE, ![r].answered = TRUE]
    /\ UNCHANGED <<steeringRows, submit>>

\* InitialWorkDecision: a Plan, or a direct step.  The token is checked here.
DecideInitially(r) ==
    /\ At(r, "work") /\ planning[r].stage = "decision" /\ planning[r].answered
    /\ \E next \in {"persist", "direct"} :
          /\ planning[r].fallback => next = "persist"
          /\ planning' = [planning EXCEPT ![r] =
                [Undecided EXCEPT !.stage = next, !.fallback = planning[r].fallback]]
    /\ \/ cancel[r] = "active" /\ exec' = [exec EXCEPT ![r].phase = "planning"]
       \/ cancel[r] = "cancelled" /\ GoFail(r, "cancelled")
    /\ UNCHANGED <<storeVars, turn, cancel, stop, boot, crashes, steeringRows, submit>>

\* direct_agent_step_execution_plan refuses the step that was decided on.
DirectStepRefused(r) ==
    /\ At(r, "work") /\ planning[r].stage = "decision"
    /\ planning[r].answered /\ ~planning[r].fallback
    /\ GoFail(r, "blocked")
    /\ UNCHANGED <<storeVars, turn, cancel, stop, boot, crashes, steeringVars>>

\* The executor is in planning, at stage.
Planning(r, stage) ==
    /\ At(r, "work") /\ exec[r].phase = "planning"
    /\ planning[r].stage = stage

\* Slip: a direct step goes ahead without asking for Steering.
DirectAtOnce(r) ==
    /\ LockFree /\ Planning(r, "direct")
    /\ planning' = [planning EXCEPT ![r].stage = "done"]
    /\ UNCHANGED <<allVars, steeringRows, submit>>

\* A direct step is promoted to a stored Plan when Steering waits.
CheckDirect(r) ==
    /\ LockFree /\ Planning(r, "direct")
    /\ planning' = [planning EXCEPT ![r].stage = IF PendingOf(r) # {} THEN "persist" ELSE "done"]
    /\ UNCHANGED <<allVars, steeringRows, submit>>

\* persist_work_plan; when the Run no longer runs the invocation returns.
PersistWorkPlan(r) ==
    /\ LockFree /\ Planning(r, "persist")
    /\ \/ /\ runStatus[r] = "running"
          /\ plan' = [plan EXCEPT ![r] = planRevision[r]]
          /\ planning' = [planning EXCEPT ![r].stage = "items", ![r].local = planRevision[r]]
          /\ UNCHANGED <<exec, cancel>>
       \/ runStatus[r] # "running" /\ Return(r) /\ UNCHANGED <<plan, planning>>
    /\ UNCHANGED <<storeVars, turn, stop, boot, crashes,
                   generation, planRevision, steering, message, submit>>

\* The plan step Items; refused like the Plan itself.
AppendPlanItems(r) ==
    /\ LockFree /\ Planning(r, "items")
    /\ \/ /\ runStatus[r] = "running"
          /\ planning' = [planning EXCEPT ![r].stage = "checkpoint"]
          /\ UNCHANGED <<exec, cancel>>
       \/ runStatus[r] # "running" /\ Return(r) /\ UNCHANGED planning
    /\ UNCHANGED <<storeVars, turn, stop, boot, crashes, steeringRows, submit>>

-----------------------------------------------------------------------------
(* apply_pending_work_steering_checkpoint: in planning, once the Plan is stored,
   and again in the kernel's read and Web loops. *)

AtCheckpoint(r) == At(r, "work") /\ planning[r].stage = "checkpoint"

\* The kernel comes to a checkpoint: a stored Plan is at work.
KernelCheckpoint(r) ==
    /\ At(r, "work") /\ exec[r].phase = "kernel"
    /\ planning[r].stage = "done" /\ planning[r].local # 0
    /\ planning' = [planning EXCEPT ![r].stage = "checkpoint"]
    /\ UNCHANGED <<allVars, steeringRows, submit>>

\* load_pending_steering and load_work_plan under one hold of the lock.  The
\* source Item is there and authentic: the command appended it first.
LoadPendingSteering(r) ==
    /\ LockFree /\ AtCheckpoint(r) /\ planning[r].id = NoSteering
    /\ \/ \E s \in PendingOf(r) : planning' = [planning EXCEPT ![r].id = s]
       \/ PendingOf(r) = {} /\ planning' = [planning EXCEPT ![r].stage = "done"]
    /\ UNCHANGED <<allVars, steeringRows, submit>>

\* The checkpoint is over with the Plan of this revision in the executor's hands.
CheckpointDone(r, revision) ==
    planning' = [planning EXCEPT ![r] = [Undecided EXCEPT
       !.stage = "done", !.local = revision, !.fallback = planning[r].fallback]]

\* The Steering Item takes st if it still waits (closing the Run may have come first).
SettleSteeringItem(s, st) ==
    /\ itemStatus' = [itemStatus EXCEPT ![s] = IF @ = "waiting" THEN st ELSE @]
    /\ UNCHANGED <<taskVars, runVars, itemRun, itemKind, attVars, resultVars, reviewVars>>

\* Slip: the executor keeps the Plan it had.
ApplyAndKeepPlan(r) ==
    LET s == planning[r].id
    IN /\ LockFree /\ AtCheckpoint(r) /\ planning[r].answered
       /\ steering[s].status = "pending"
       /\ runStatus[r] = "running"
       /\ planRevision' = [planRevision EXCEPT ![r] = @ + 1]
       /\ plan' = [plan EXCEPT ![r] = @ + 1]
       /\ steering' = [steering EXCEPT ![s].status = "applied"]
       /\ SettleSteeringItem(s, "completed")
       /\ CheckpointDone(r, planning[r].local)
       /\ UNCHANGED <<workVars, generation, message, submit>>

\* apply_pending_steering_plan: Run, Plan, Steering and its Item in one transaction,
\* against the revision the Steering was admitted with.  A conflict makes planning
\* return, and blocks the kernel.
ApplyPendingSteeringPlan(r) ==
    LET s == planning[r].id
        b == steering[s].base
        current == /\ steering[s].status = "pending"
                   /\ plan[r] = b
                   /\ runStatus[r] = "running" /\ planRevision[r] = b
    IN /\ LockFree /\ AtCheckpoint(r) /\ planning[r].answered
       /\ \/ /\ current
             /\ planRevision' = [planRevision EXCEPT ![r] = b + 1]
             /\ plan' = [plan EXCEPT ![r] = b + 1]
             /\ steering' = [steering EXCEPT ![s].status = "applied"]
             /\ SettleSteeringItem(s, "completed")
             /\ CheckpointDone(r, b + 1)
             /\ UNCHANGED <<exec, cancel>>
          \/ /\ ~current
             /\ \/ exec[r].phase = "planning" /\ Return(r)
                \/ exec[r].phase = "kernel" /\ GoFail(r, "blocked") /\ UNCHANGED cancel
             /\ UNCHANGED <<storeVars, planRevision, plan, steering, planning>>
       /\ UNCHANGED <<turn, stop, boot, crashes, generation, message, submit>>

\* Slip: two failed tries are an error of the checkpoint.
ReturnUndecided(r) ==
    /\ LockFree /\ AtCheckpoint(r) /\ planning[r].tries = MaxTries
    /\ Return(r)
    /\ UNCHANGED <<storeVars, turn, stop, boot, crashes, steeringVars>>

\* Slip: the Item gets the Steering's own status.
ResolveAsItem(r) ==
    LET s == planning[r].id
    IN /\ LockFree /\ AtCheckpoint(r) /\ planning[r].tries = MaxTries
       /\ \E st \in {"rejected", "blocked"} :
             /\ steering' = [steering EXCEPT ![s].status = st]
             /\ SettleSteeringItem(s, st)
       /\ CheckpointDone(r, planning[r].local)
       /\ UNCHANGED <<workVars, generation, planRevision, plan, message, submit>>

\* resolve_pending_steering after the last try: rejected, or blocked when the last
\* error was an expansion of scope.  The Run's status is not asked.
ResolvePendingSteering(r) ==
    LET s == planning[r].id
    IN /\ LockFree /\ AtCheckpoint(r) /\ planning[r].tries = MaxTries
       /\ \E st \in {"rejected", "blocked"} :
             /\ steering' = [steering EXCEPT ![s].status = st]
             /\ SettleSteeringItem(s, IF st = "blocked" THEN "blocked" ELSE "failed")
       /\ CheckpointDone(r, planning[r].local)
       /\ UNCHANGED <<workVars, generation, planRevision, plan, message, submit>>

-----------------------------------------------------------------------------
(* The rest of the executor, Stop, crash and startup, as in WorkRuntime. *)

\* Errors outside the checkpoint, and the ends of the later phases.
LaterError(r) ==
    /\ Asking(r) => exec[r].phase = "initial" /\ planning[r].tries + 1 = MaxTries
    /\ StepError(r)

LaterPhase(r) ==
    /\ planning[r].stage = "done"
    /\ EndPhase(r)

RefusedCall(r) == MayCall(r) /\ StepRefused(r)

\* Steps that ask the Conversation, the registry or the store's clone.
FreeStep(r) ==
    \/ BeginTurn(r) \/ Register(r) \/ AdmitProviderStart(r)
    \/ \E a \in FreshAttempt : ProviderBegin(r, a)
    \/ LaterError(r) \/ LaterPhase(r) \/ RefusedCall(r) \/ ObserveCancel(r)
    \/ ProviderFailed(r) \/ CompleteWorkTurn(r) \/ FailTurn(r)

\* Steps that take the lock.
LockedStep(r) ==
    \/ BeginRunRefused(r) \/ ScopeUnreadable(r) \/ ProjectionRefused(r)
    \/ CompleteTask(r) \/ FailRun(r)

SteerExecStep(r) ==
    \/ BeginRunWithRevision(r)
    \/ \E i \in FreshItem : ProviderCall(r, i)
    \/ \E outcome \in {"completed", "failed"} : ProviderAnswer(r, outcome)
    \/ AnswerInvalid(r) \/ SpendTry(r) \/ AcceptGoal(r) \/ FallBack(r)
    \/ DecideInitially(r) \/ DirectStepRefused(r) \/ CheckDirect(r) \/ PersistWorkPlan(r) \/ AppendPlanItems(r)
    \/ KernelCheckpoint(r) \/ LoadPendingSteering(r)
    \/ ApplyPendingSteeringPlan(r) \/ ResolvePendingSteering(r)
    \/ FreeStep(r) /\ UNCHANGED steeringVars
    \/ LockFree /\ LockedStep(r) /\ UNCHANGED steeringVars

SteerStopStep(r) ==
    \/ (RequestCancel(r) \/ StopTurn(r)) /\ UNCHANGED steeringVars
    \/ LockFree /\ StopRun(r) /\ UNCHANGED steeringVars

SteerUserStep ==
    \/ UserStep /\ UNCHANGED steeringVars
    \/ \E s \in Steering, r \in Run : ValidateSteering(s, r)

SubmitStep == AppendWorkSteering \/ SubmitSteering

\* The process dies with the command and the invocations' planning state.
SteerCrash ==
    /\ Crash
    /\ submit' = NoSubmit
    /\ planning' = [r \in Run |-> Undecided]
    /\ UNCHANGED steeringRows

SteerBootStep == BootStep /\ UNCHANGED steeringVars

SteeringNext ==
    \/ SteerUserStep
    \/ \E r \in Run : SteerExecStep(r) \/ SteerStopStep(r)
    \/ SubmitStep
    \/ SteerCrash
    \/ SteerBootStep

\* As WorkFairness; the command runs to its end.  The Run's budget bounds the
\* kernel's loops, so a kernel that may leave them does.
SteeringSpec ==
    /\ SteeringInit /\ [][SteeringNext]_everything
    /\ \A r \in Run : SF_everything(LaterPhase(r) /\ UNCHANGED steeringVars)
    /\ \A r \in Run : WF_everything(SteerExecStep(r)) /\ WF_everything(SteerStopStep(r))
    /\ WF_everything(SubmitStep)
    /\ WF_everything(SteerBootStep)

-----------------------------------------------------------------------------
(* Properties. *)

\* When the executor acts on a decision the model made, every Steering of the Run
\* has been decided: the command's check and insert, the generation that opens on
\* the store's clone in between, and the executor's single look for Steering leave
\* no gap, on the direct path and on the stored Plan's.
SteeringDecidedBeforeWork ==
    \A r \in Run :
       Executing(r) /\ exec[r].phase \in {"kernel", "post"} /\ ~planning[r].fallback
          => PendingOf(r) = {}

\* A Run adopts one Steering in its life: the first holds the place until its
\* checkpoint, and the generation that replans for it closes the door.
OneSteeringApplied ==
    \A r \in Run :
       Cardinality({s \in Steering : itemRun[s] = r /\ steering[s].status = "applied"}) <= 1

\* The Run's revision, the stored Plan's and the one in the executor's hands agree
\* while it works, and each applied Steering advanced them by one.
PlanRevisionsAgree ==
    \A r \in Run :
       /\ plan[r] # 0 => /\ plan[r] = planRevision[r]
                         /\ plan[r] = 1 + Cardinality({s \in Steering :
                               itemRun[s] = r /\ steering[s].status = "applied"})
       /\ Executing(r) /\ exec[r].phase = "kernel" => planning[r].local = plan[r]

\* An admitted Steering is applied, rejected or blocked, or its Run ends: no failed
\* replan, Stop, crash or early return leaves it waiting on a Run that goes on.
\* The exception is a Run decided without the model: it stays open for Steering
\* until its first generation, and what is admitted after its last checkpoint is
\* never looked at, whether the executor answers or leaves planning with an error.
PendingSteeringIsDecided ==
    \A s \in Steering : steering[s].status = "pending" ~>
       \/ steering[s].status # "pending"
       \/ runStatus[itemRun[s]] \in Terminal
       \/ planning[itemRun[s]].fallback /\ ~Executing(itemRun[s])
=============================================================================
