----------------------------- MODULE WorkProofs -----------------------------
(***************************************************************************)
(* Machine-checked proofs about the Work executor and the commands that    *)
(* race with it, for every set of Tasks, Runs, Items and Attempts, every   *)
(* number of execution slots and of crashes.  The lemmas about single      *)
(* actions are used again for the compositions with tool Reviews and with  *)
(* Steering.                                                               *)
(***************************************************************************)
EXTENDS WorkRuntime, TaskRuntimeProofs

USE ReviewAssumption, NullAssumption, WorkAssumption

-----------------------------------------------------------------------------
(* How the local state of an invocation changes. *)

\* The initial state of an invocation, and what Drop leaves of one, is typed.
LEMMA DroppedType ==
    ASSUME NEW e \in Exec, NEW next \in ExecPc, NEW st \in GeneralTerminal \union {"none"}
    PROVE  /\ NotStarted \in Exec
           /\ [NotStarted EXCEPT !.pc = next, !.task = e.task, !.endAs = st] \in Exec
<1>1. NotStarted \in Exec
  BY DEF NotStarted, Exec, ExecPc, Phase, ProviderState
<1>2. e.task \in Task \union {NoTask}
  BY DEF Exec
<1> QED BY <1>1, <1>2 DEF Exec

\* Only the invocation of Run r moves, to pc, and it keeps its Task.
Moves(r, pc) ==
    /\ exec' \in [Run -> Exec]
    /\ \A q \in Run \ {r} : exec'[q] = exec[q]
    /\ exec'[r].pc = pc /\ exec'[r].task = exec[r].task

\* Goto changes where an invocation stands and nothing else of it.
LEMMA GotoFacts ==
    ASSUME exec \in [Run -> Exec], NEW r \in Run, NEW next \in ExecPc, Goto(r, next)
    PROVE  /\ Moves(r, next)
           /\ exec'[r].phase = exec[r].phase /\ exec'[r].provider = exec[r].provider
           /\ exec'[r].endAs = exec[r].endAs
           /\ exec'[r].item = exec[r].item /\ exec'[r].att = exec[r].att
BY DEF Goto, Exec, Moves

\* Drop resets one invocation but for its Task.
LEMMA DropFacts ==
    ASSUME exec \in [Run -> Exec], NEW r \in Run, NEW next \in ExecPc,
           NEW st \in GeneralTerminal \union {"none"}, Drop(r, next, st)
    PROVE  /\ Moves(r, next)
           /\ exec'[r].phase = "initial" /\ exec'[r].endAs = st
           /\ exec'[r].item = NoItem /\ exec'[r].att = NoAttempt
<1>1. exec[r] \in Exec
  OBVIOUS
<1>2. [NotStarted EXCEPT !.pc = next, !.task = exec[r].task, !.endAs = st] \in Exec
  BY <1>1, DroppedType
<1>3. /\ exec' \in [Run -> Exec]
      /\ \A q \in Run \ {r} : exec'[q] = exec[q]
      /\ exec'[r] = [NotStarted EXCEPT !.pc = next, !.task = exec[r].task, !.endAs = st]
  BY <1>2 DEF Drop
<1> QED BY <1>3 DEF Moves, NotStarted

\* Return drops the invocation's state and its registration.
LEMMA ReturnFacts ==
    ASSUME WorkTypeOK, NEW r \in Run, Return(r)
    PROVE  /\ Moves(r, "exit")
           /\ exec'[r].phase = "initial"
           /\ exec'[r].item = NoItem /\ exec'[r].att = NoAttempt
           /\ cancel' \in [Run -> {"none", "active", "cancelled", "tombstone"}]
           /\ \A q \in Run \ {r} : cancel'[q] = cancel[q]
           /\ cancel'[r] = IF Registered(r) THEN "none" ELSE cancel[r]
<1>1. /\ Drop(r, "exit", "none")
      /\ cancel' = [cancel EXCEPT ![r] = IF Registered(r) THEN "none" ELSE @]
  BY DEF Return
<1>2. "exit" \in ExecPc
  BY DEF ExecPc
<1> QED BY <1>1, <1>2, DropFacts DEF WorkTypeOK

\* Call resets one invocation for a Task.
LEMMA CallFacts ==
    ASSUME exec \in [Run -> Exec], NEW r \in Run, NEW t \in Task, Call(r, t)
    PROVE  /\ exec' \in [Run -> Exec]
           /\ \A q \in Run \ {r} : exec'[q] = exec[q]
           /\ exec'[r].pc = "called" /\ exec'[r].task = t /\ exec'[r].phase = "initial"
           /\ exec'[r].item = NoItem /\ exec'[r].att = NoAttempt
<1>1. [NotStarted EXCEPT !.pc = "called", !.task = t] \in Exec
  BY DEF NotStarted, Exec, ExecPc, Phase, ProviderState
<1>2. /\ exec' \in [Run -> Exec]
      /\ \A q \in Run \ {r} : exec'[q] = exec[q]
      /\ exec'[r] = [NotStarted EXCEPT !.pc = "called", !.task = t]
  BY <1>1 DEF Call
<1> QED BY <1>2 DEF NotStarted

-----------------------------------------------------------------------------
(* The invariant of an invocation, whatever it is composed with. *)

\* Where an invocation holds an Item of its Run whose Attempt is not begun or over,
\* and where it holds the Attempt too.
HoldsItem == {"confirm", "submitted", "bind", "wait", "decided"}
HoldsAttempt == {"tool", "approved", "granted"}

\* Item i belongs to Run r and is of kind k.
Owns(r, i, k) == i \in Item \ Review /\ itemRun[i] = r /\ itemKind[i] = k

\* An invocation knows its Task, its Turn is begun before its Run, and the answer is
\* out before the Run is completed.
HoldsTurn(r) ==
    LET e == exec[r]
    IN /\ e.pc = "idle" => turn[r] = "none"
       /\ e.pc # "idle" => e.task \in Task
       /\ runTask[r] \in {NoTask, e.task}
       /\ turn[r] = "none" => runTask[r] = NoTask
       /\ e.pc \notin {"idle", "called", "exit"} => turn[r] # "none"
       /\ e.pc \notin {"idle", "called", "turn", "replay", "exit"} => runTask[r] # NoTask
       /\ e.pc \in {"answer", "replay"} => turn[r] = "completed"

\* An invocation holds the rows it is about to write.
HoldsRows(r) ==
    LET e == exec[r]
    IN /\ e.pc = "start" => Owns(r, e.item, "provider_generation")
       /\ e.pc \in {"admit", "call"} =>
             /\ e.att \in Attempt /\ attItem[e.att] = e.item
             /\ Owns(r, e.item, "provider_generation")
       /\ e.pc \in HoldsItem => Owns(r, e.item, "tool_call")
       /\ e.pc \in HoldsAttempt =>
             /\ e.att \in Attempt /\ attItem[e.att] = e.item
             /\ Owns(r, e.item, "tool_call")
       /\ e.pc \in {"fail", "failTurn"} => e.endAs \in GeneralTerminal

\* An Attempt is made at an Item that exists and is no Review's.
AttemptsHaveItems ==
    \A a \in Attempt : attItem[a] # NoItem =>
       attItem[a] \in Item \ Review /\ itemRun[attItem[a]] # NoRun

\* The invariant of all compositions.
ExecInv ==
    /\ WorkTypeOK
    /\ StoreInv
    /\ AttemptsHaveItems
    /\ \A r \in Run : HoldsTurn(r) /\ HoldsRows(r)
    /\ ResultHasAnswer

-----------------------------------------------------------------------------
(* What the store's operations keep. *)

\* A row keeps the row it belongs to, and an Item its kind: nothing moves a Run to
\* another Task, an Item to another Run or an Attempt to another Item.
Grows ==
    /\ \A r \in Run : runTask[r] # NoTask => runTask'[r] = runTask[r]
    /\ \A i \in Item : itemRun[i] # NoRun => itemRun'[i] = itemRun[i]
    /\ \A i \in Item \ Review : itemRun[i] # NoRun => itemKind'[i] = itemKind[i]
    /\ \A a \in Attempt : attItem[a] # NoItem => attItem'[a] = attItem[a]

\* Every operation of the store keeps the rows together.
LEMMA StoreGrows ==
    ASSUME StoreInv, [StoreNext]_storeVars
    PROVE  Grows
<1> USE DEF Grows
<1>0. /\ runTask \in [Run -> Task \union {NoTask}]
      /\ itemRun \in [Item -> Run \union {NoRun}]
      /\ itemKind \in [Item -> CanonicalTaskItemKind \union {"none"}]
      /\ attItem \in [Attempt -> Item \union {NoItem}]
  BY DEF StoreInv, StoreTypeOK
<1>1. ASSUME NEW t \in Task, NEW r \in Run, BeginGeneralTaskRun(t, r)
      PROVE  Grows
  BY <1>0, <1>1 DEF BeginGeneralTaskRun, itemVars, attVars
<1>2. ASSUME UNCHANGED <<runTask, itemRun, itemKind, attItem>>
      PROVE  Grows
  BY <1>2
<1>3. ASSUME NEW r \in Run, NEW i \in Item \ Review, NEW kind \in CanonicalTaskItemKind,
             AppendGeneralItem(r, i, kind)
      PROVE  Grows
  BY <1>0, <1>3 DEF AppendGeneralItem, runVars, attVars
<1>4. ASSUME NEW i \in Item \ Review, NEW a \in Attempt, BeginItemAttempt(i, a)
      PROVE  Grows
  BY <1>0, <1>4 DEF BeginItemAttempt, runVars
<1>5. ASSUME NEW r \in Run, NEW i \in Item \ Review, NEW p \in Review, BindToolReview(r, i, p)
      PROVE  Grows
  BY <1>0, <1>5 DEF BindToolReview, attVars
<1>6. ASSUME NEW p \in Review, NEW live \in BOOLEAN, MarkToolReviewAccepted(p, live, FALSE)
      PROVE  UNCHANGED <<runTask, itemRun, itemKind, attItem>>
  BY <1>6 DEF MarkToolReviewAccepted, DecideToolReview, attVars
<1>7. CASE UNCHANGED storeVars
  BY <1>2, <1>7 DEF storeVars
<1> QED
  BY <1>1, <1>2, <1>3, <1>4, <1>5, <1>6, <1>7
  DEF StoreNext, TerminalizeGeneralRun, RecoverInterruptedGeneralRuns, CloseWorkOf,
      CompleteGeneralTask, DeferGeneralTaskResult, CompleteAppendedItem, TerminalizeItemAttempt,
      MarkToolReviewRejected, DecideToolReview, runVars, itemVars, attVars

\* Every operation of the store begins Attempts at existing Items only.
LEMMA StoreAttemptItems ==
    ASSUME StoreInv, AttemptsHaveItems, [StoreNext]_storeVars
    PROVE  AttemptsHaveItems'
<1> USE DEF AttemptsHaveItems
<1>0. /\ itemRun \in [Item -> Run \union {NoRun}]
      /\ attItem \in [Attempt -> Item \union {NoItem}]
  BY DEF StoreInv, StoreTypeOK
<1>1. Grows
  BY StoreGrows
<1>2. ASSUME UNCHANGED attItem
      PROVE  AttemptsHaveItems'
  BY <1>0, <1>1, <1>2 DEF Grows
<1>3. ASSUME NEW i \in Item \ Review, NEW a \in Attempt, BeginItemAttempt(i, a)
      PROVE  AttemptsHaveItems'
  BY <1>0, <1>1, <1>3 DEF BeginItemAttempt, Grows
<1>4. ASSUME NEW p \in Review, NEW live \in BOOLEAN, MarkToolReviewAccepted(p, live, FALSE)
      PROVE  UNCHANGED attItem
  BY <1>4 DEF MarkToolReviewAccepted, DecideToolReview, attVars
<1>5. CASE UNCHANGED storeVars
  BY <1>2, <1>5 DEF storeVars
<1> QED
  BY <1>2, <1>3, <1>4, <1>5
  DEF StoreNext, BeginGeneralTaskRun, TerminalizeGeneralRun, RecoverInterruptedGeneralRuns,
      CloseWorkOf, CompleteGeneralTask, DeferGeneralTaskResult, AppendGeneralItem,
      CompleteAppendedItem, TerminalizeItemAttempt, BindToolReview, MarkToolReviewRejected,
      DecideToolReview, attVars

\* begin_canonical_work_tool_attempt appends an Item and begins its Attempt under one
\* hold of the lock; the store's invariant survives it too.
LEMMA ToolAttemptStore ==
    ASSUME StoreInv, AttemptsHaveItems,
           NEW r \in Run, NEW i \in Item \ Review, NEW a \in Attempt, BeginToolAttempt(r, i, a)
    PROVE  StoreInv' /\ Grows /\ AttemptsHaveItems'
<1>0. StoreTypeOK
  BY DEF StoreInv
<1>1. /\ runStatus[r] = "running"
      /\ itemRun[i] \in {NoRun, r} /\ (itemRun[i] = r => itemKind[i] = "tool_call")
      /\ attItem[a] = NoItem
      /\ itemRun' = [itemRun EXCEPT ![i] = r]
      /\ itemKind' = [itemKind EXCEPT ![i] = "tool_call"]
      /\ itemStatus' = [itemStatus EXCEPT ![i] = "running"]
      /\ attItem' = [attItem EXCEPT ![a] = i]
      /\ attStatus' = [attStatus EXCEPT ![a] = "running"]
      /\ UNCHANGED <<taskStatus, runTask, runStatus, runOrdinal, finalResult, deferred,
                     reviewTool, reviewStatus>>
  BY DEF BeginToolAttempt, taskVars, runVars, resultVars, reviewVars
<1>2. StoreTypeOK'
  BY <1>0, <1>1, StatusFacts DEF StoreTypeOK, CanonicalTaskItemKind
<1>3. \A q \in Run : WaitingReviews(q)' = WaitingReviews(q)
  BY <1>0, <1>1, WaitingReviewsFrame DEF StoreTypeOK
<1>4. RowsConsistent'
  BY <1>0, <1>1 DEF StoreInv, RowsConsistent, StoreTypeOK
<1>5. AttemptRowsConsistent'
  BY <1>0, <1>1 DEF StoreInv, AttemptRowsConsistent, StoreTypeOK
<1>6. PauseMatchesReviews' /\ FinalResultIffCompleted'
  BY <1>1, <1>3 DEF StoreInv, PauseMatchesReviews, FinalResultIffCompleted
<1>7. Grows
  BY <1>0, <1>1 DEF Grows, StoreTypeOK
<1>8. AttemptsHaveItems'
  BY <1>0, <1>1, <1>7 DEF AttemptsHaveItems, Grows, StoreTypeOK
<1> QED BY <1>2, <1>4, <1>5, <1>6, <1>7, <1>8 DEF StoreInv

\* What the invocation of one Run does keeps the invariant when it does for that Run.
LEMMA LocalStep ==
    ASSUME ExecInv, StoreInv', Grows, AttemptsHaveItems', NEW r \in Run,
           exec' \in [Run -> Exec],
           \A q \in Run \ {r} : /\ exec'[q] = exec[q] /\ turn'[q] = turn[q]
                                /\ runTask'[q] = runTask[q],
           turn' \in [Run -> TurnStatus \union {"none"}],
           cancel' \in [Run -> {"none", "active", "cancelled", "tombstone"}],
           UNCHANGED <<stop, boot, crashes>>,
           HoldsTurn(r)', HoldsRows(r)',
           turn[r] = "completed" => turn'[r] = "completed",
           finalResult' \subseteq finalResult \union {r},
           r \in finalResult' \ finalResult => turn'[r] = "completed"
    PROVE  ExecInv'
<1>1. WorkTypeOK'
  BY DEF ExecInv, WorkTypeOK, StoreInv
<1>2. ASSUME NEW q \in Run
      PROVE  HoldsTurn(q)' /\ HoldsRows(q)'
  <2>1. CASE q = r
    BY <2>1
  <2>2. CASE q # r
    <3>1. exec'[q] = exec[q] /\ turn'[q] = turn[q] /\ runTask'[q] = runTask[q]
      BY <2>2
    <3>2. HoldsTurn(q) /\ HoldsRows(q)
      BY DEF ExecInv
    <3>3. HoldsTurn(q)'
      BY <3>1, <3>2 DEF HoldsTurn
    <3>4. ASSUME NEW i, NEW k, Owns(q, i, k)
          PROVE  Owns(q, i, k)'
      BY <3>4 DEF Owns, Grows
    <3>5. ASSUME NEW a \in Attempt, NEW i \in Item, attItem[a] = i
          PROVE  attItem'[a] = i
      BY <3>5 DEF Grows
    <3>6. \A i, k : Owns(q, i, k) => i \in Item
      BY DEF Owns
    <3>7. HoldsRows(q)'
      BY <3>1, <3>2, <3>4, <3>5, <3>6 DEF HoldsRows
    <3> QED BY <3>3, <3>7
  <2> QED BY <2>1, <2>2
<1>3. ResultHasAnswer'
  <2> SUFFICES ASSUME NEW q \in finalResult'
               PROVE  turn'[q] = "completed"
    BY DEF ResultHasAnswer
  <2>1. finalResult \in SUBSET Run
    BY DEF ExecInv, StoreInv, StoreTypeOK
  <2>2. q \in Run
    BY <2>1
  <2>3. q \in finalResult => turn[q] = "completed"
    BY DEF ExecInv, ResultHasAnswer
  <2> QED BY <2>2, <2>3
<1> QED BY <1>1, <1>2, <1>3 DEF ExecInv

\* The store's part of the executor's steps: operations of the store, or the tool
\* Attempt, which is two of them under one lock.
LEMMA ExecStepStore ==
    ASSUME ExecInv, NEW r \in Run, ExecStep(r) \/ ReplayCompleted(r)
    PROVE  StoreInv' /\ Grows /\ AttemptsHaveItems'
<1>0. StoreInv /\ AttemptsHaveItems /\ exec[r] \in Exec
  BY DEF ExecInv, WorkTypeOK
<1>1. ASSUME [StoreNext]_storeVars
      PROVE  StoreInv' /\ Grows /\ AttemptsHaveItems'
  BY <1>0, <1>1, InvStep, StoreGrows, StoreAttemptItems
<1>2. ASSUME NEW i \in Item \ Review, NEW a \in Attempt, BeginToolAttempt(r, i, a)
      PROVE  StoreInv' /\ Grows /\ AttemptsHaveItems'
  BY <1>0, <1>2, ToolAttemptStore
<1>3. ASSUME BeginRun(r)
      PROVE  [StoreNext]_storeVars
  <2>1. exec[r].task \in Task
    BY <1>3 DEF BeginRun, At, ExecInv, HoldsTurn
  <2> QED BY <1>3, <2>1 DEF BeginRun, StoreNext
<1>4. ASSUME NEW i \in Item \ Review, ProviderAppend(r, i)
      PROVE  [StoreNext]_storeVars
  <2>1. "provider_generation" \in CanonicalTaskItemKind
    BY DEF CanonicalTaskItemKind
  <2> QED BY <1>4, <2>1 DEF ProviderAppend, StoreNext
<1>5. ASSUME NEW a \in Attempt, ProviderBegin(r, a)
      PROVE  [StoreNext]_storeVars
  <2>1. exec[r].item \in Item \ Review
    BY <1>5 DEF ProviderBegin, At, ExecInv, HoldsRows, Owns
  <2> QED BY <1>5, <2>1 DEF ProviderBegin, StoreNext
<1>6. ASSUME NEW outcome \in DOMAIN AttemptEnd, ProviderFinish(r, outcome)
      PROVE  [StoreNext]_storeVars
  <2>1. exec[r].att \in Attempt
    BY <1>6 DEF ProviderFinish, At, ExecInv, HoldsRows
  <2>2. AttemptEnd[outcome] \in Terminal
    BY DEF AttemptEnd, Terminal, GeneralTerminal
  <2> QED BY <1>6, <2>1, <2>2 DEF ProviderFinish, StoreNext
<1>7. ASSUME NEW st \in ToolOutcome, ToolFinish(r, st, "work")
      PROVE  [StoreNext]_storeVars
  <2>1. exec[r].att \in Attempt
    BY <1>7 DEF ToolFinish, At, ExecInv, HoldsRows, HoldsAttempt
  <2>2. st \in Terminal
    BY DEF ToolOutcome, Terminal, GeneralTerminal
  <2> QED BY <1>7, <2>1, <2>2 DEF ToolFinish, StoreNext
<1>8. ASSUME CompleteTask(r) \/ ReplayCompleted(r)
      PROVE  [StoreNext]_storeVars
  BY <1>8 DEF CompleteTask, ReplayCompleted, StoreNext
<1>9. ASSUME FailRun(r)
      PROVE  [StoreNext]_storeVars
  <2>1. exec[r].endAs \in GeneralTerminal
    BY <1>9 DEF FailRun, At, ExecInv, HoldsRows
  <2> QED BY <1>9, <2>1 DEF FailRun, StoreNext
<1>10. ASSUME UNCHANGED storeVars
       PROVE  [StoreNext]_storeVars
  BY <1>10
<1> QED
  BY <1>1, <1>2, <1>3, <1>4, <1>5, <1>6, <1>7, <1>8, <1>9, <1>10
  DEF ExecStep, BeginTurn, BeginRunRefused, ScopeUnreadable, Register, AdmitProviderStart,
      StepRefused, StepError, RetryDecision, EndPhase, ObserveCancel, ProviderFailed,
      ProjectionRefused, CompleteWorkTurn, FailTurn

\* An invocation that moves between two stages after its Run began, and holds the rows
\* of the stage it moves to, keeps the invariant.
LEMMA QuietMove ==
    ASSUME ExecInv, StoreInv', Grows, AttemptsHaveItems', NEW r \in Run, NEW pc \in ExecPc,
           Moves(r, pc), HoldsRows(r)',
           UNCHANGED <<turn, stop, boot, crashes, finalResult, runTask>>,
           cancel' \in [Run -> {"none", "active", "cancelled", "tombstone"}],
           exec[r].pc # "idle", pc \notin {"idle", "answer", "replay"},
           pc \notin {"called", "exit"} => turn[r] # "none",
           pc \notin {"called", "turn", "exit"} => runTask[r] # NoTask
    PROVE  ExecInv'
<1>1. HoldsTurn(r)
  BY DEF ExecInv
<1>2. /\ exec' \in [Run -> Exec] /\ \A q \in Run \ {r} : exec'[q] = exec[q]
      /\ exec'[r].pc = pc /\ exec'[r].task = exec[r].task
  BY DEF Moves
<1>3. HoldsTurn(r)'
  BY <1>1, <1>2 DEF HoldsTurn
<1>4. turn' \in [Run -> TurnStatus \union {"none"}]
  BY DEF ExecInv, WorkTypeOK
<1> QED BY <1>2, <1>3, <1>4, LocalStep

\* An invocation may return or go on to terminalize_failure from any stage after its
\* Run began, and return from any stage after it was called.
LEMMA LeaveInv ==
    ASSUME ExecInv, StoreInv', Grows, AttemptsHaveItems', NEW r \in Run,
           UNCHANGED <<turn, stop, boot, crashes, finalResult, runTask>>,
           exec[r].pc # "idle",
           \/ Return(r)
           \/ /\ exec[r].pc \notin {"called", "turn", "replay", "exit"} /\ UNCHANGED cancel
              /\ \E st \in GeneralTerminal : GoFail(r, st)
    PROVE  ExecInv'
<1>0. WorkTypeOK /\ exec \in [Run -> Exec] /\ "exit" \in ExecPc /\ "fail" \in ExecPc
  BY DEF ExecInv, WorkTypeOK, ExecPc
<1>1. CASE Return(r)
  <2>1. Moves(r, "exit") /\ cancel' \in [Run -> {"none", "active", "cancelled", "tombstone"}]
    BY <1>0, <1>1, ReturnFacts
  <2>2. HoldsRows(r)'
    BY <2>1 DEF HoldsRows, Moves, HoldsItem, HoldsAttempt
  <2> QED BY <1>0, <2>1, <2>2, QuietMove
<1>2. ASSUME exec[r].pc \notin {"called", "turn", "replay", "exit"}, UNCHANGED cancel,
             NEW st \in GeneralTerminal, GoFail(r, st)
      PROVE  ExecInv'
  <2>1. Moves(r, "fail") /\ exec'[r].endAs = st
    BY <1>0, <1>2, DropFacts DEF GoFail
  <2>2. HoldsRows(r)'
    BY <1>2, <2>1 DEF HoldsRows, Moves, HoldsItem, HoldsAttempt
  <2>3. turn[r] # "none" /\ runTask[r] # NoTask
    BY <1>2 DEF ExecInv, HoldsTurn
  <2>4. cancel' \in [Run -> {"none", "active", "cancelled", "tombstone"}]
    BY <1>0, <1>2 DEF WorkTypeOK
  <2> QED BY <1>0, <2>1, <2>2, <2>3, <2>4, QuietMove
<1> QED BY <1>1, <1>2

\* The failure statuses of terminalize_failure are statuses it accepts.
LEMMA FailureStatusType ==
    \A s \in ProviderState : \A o \in {"blocked", "failed"} :
       FailureStatus(s, o) \in GeneralTerminal
BY DEF FailureStatus, ProviderState, GeneralTerminal

\* Every step of an executor keeps the invariant: one step per action.
LEMMA ExecStepInv ==
    ASSUME ExecInv, NEW r \in Run, ExecStep(r) \/ ReplayCompleted(r)
    PROVE  ExecInv'
<1>0. WorkTypeOK /\ exec \in [Run -> Exec] /\ exec[r] \in Exec /\ HoldsTurn(r) /\ HoldsRows(r)
  BY DEF ExecInv, WorkTypeOK
<1>s. StoreInv' /\ Grows /\ AttemptsHaveItems'
  BY ExecStepStore
<1>t. /\ turn \in [Run -> TurnStatus \union {"none"}]
      /\ cancel \in [Run -> {"none", "active", "cancelled", "tombstone"}]
      /\ finalResult \in SUBSET Run /\ runTask \in [Run -> Task \union {NoTask}]
  BY DEF ExecInv, WorkTypeOK, StoreTypeOK
<1>p. ExecPc = {"idle", "called", "turn", "begun", "work", "start", "admit", "call", "tool",
                "error", "fail", "failTurn", "answer", "replay", "exit",
                "confirm", "submitted", "bind", "wait", "decided", "approved", "granted"}
  BY DEF ExecPc
<1>q. {"blocked", "failed", "cancelled", "interrupted"} \subseteq GeneralTerminal
  BY DEF GeneralTerminal
<1>f. GeneralTerminal = {"blocked", "failed", "cancelled", "interrupted", "effect_unknown"}
  BY DEF GeneralTerminal
\* The moves that leave store and Turn alone and hold no rows afterwards.
<1>m. ASSUME NEW pc \in {"turn", "begun", "work", "error"}, Goto(r, pc),
             UNCHANGED <<turn, stop, boot, crashes, finalResult, runTask>>,
             cancel' \in [Run -> {"none", "active", "cancelled", "tombstone"}],
             exec[r].pc # "idle", turn[r] # "none", pc # "turn" => runTask[r] # NoTask
      PROVE  ExecInv'
  <2>1. Moves(r, pc)
    BY <1>0, <1>m, <1>p, GotoFacts
  <2>2. HoldsRows(r)'
    BY <1>m, <2>1 DEF HoldsRows, Moves, HoldsItem, HoldsAttempt
  <2> QED BY <1>m, <1>p, <1>s, <2>1, <2>2, QuietMove
<1>1. ASSUME BeginTurn(r)
      PROVE  ExecInv'
  <2>0. /\ exec[r].pc = "called" /\ UNCHANGED <<stop, boot, crashes, finalResult, runTask>>
    BY <1>1 DEF BeginTurn, At, storeVars
  <2>1. CASE turn[r] = "none" /\ turn' = [turn EXCEPT ![r] = "running"] /\ Goto(r, "turn")
             /\ UNCHANGED cancel
    <3>1. Moves(r, "turn")
      BY <1>0, <1>p, <2>1, GotoFacts
    <3>2. HoldsRows(r)' /\ HoldsTurn(r)'
      BY <1>0, <1>t, <2>0, <2>1, <3>1 DEF HoldsRows, HoldsTurn, Moves, HoldsItem, HoldsAttempt
    <3>3. turn' \in [Run -> TurnStatus \union {"none"}] /\ \A q \in Run \ {r} : turn'[q] = turn[q]
      BY <1>t, <2>1 DEF TurnStatus
    <3> QED BY <1>s, <1>t, <2>0, <2>1, <3>1, <3>2, <3>3, LocalStep DEF Moves
  <2>2. CASE turn[r] = "running" /\ Goto(r, "turn") /\ UNCHANGED <<turn, cancel>>
    BY <1>m, <1>t, <2>0, <2>2
  <2>3. CASE turn[r] = "completed" /\ Goto(r, "replay") /\ UNCHANGED <<turn, cancel>>
    <3>1. Moves(r, "replay")
      BY <1>0, <1>p, <2>3, GotoFacts
    <3>2. HoldsRows(r)' /\ HoldsTurn(r)'
      BY <1>0, <1>t, <2>0, <2>3, <3>1 DEF HoldsRows, HoldsTurn, Moves, HoldsItem, HoldsAttempt
    <3> QED BY <1>s, <1>t, <2>0, <2>3, <3>1, <3>2, LocalStep DEF Moves
  <2>4. CASE Return(r) /\ UNCHANGED turn
    BY <1>s, <2>0, <2>4, LeaveInv
  <2> QED BY <1>1, <2>1, <2>2, <2>3, <2>4 DEF BeginTurn
<1>2. ASSUME BeginRun(r)
      PROVE  ExecInv'
  <2>0. /\ exec[r].pc = "turn" /\ UNCHANGED <<turn, cancel, stop, boot, crashes>>
        /\ Goto(r, "begun") /\ turn[r] # "none" /\ exec[r].task \in Task
    BY <1>0, <1>2 DEF BeginRun, At, HoldsTurn
  <2>1. CASE runTask[r] # NoTask /\ UNCHANGED storeVars
    BY <1>m, <1>t, <2>0, <2>1 DEF storeVars
  <2>2. CASE BeginGeneralTaskRun(exec[r].task, r)
    <3>1. Moves(r, "begun")
      BY <1>0, <1>p, <2>0, GotoFacts
    <3>2. runTask' = [runTask EXCEPT ![r] = exec[r].task] /\ UNCHANGED finalResult
      BY <2>2 DEF BeginGeneralTaskRun
    <3>3. HoldsRows(r)' /\ HoldsTurn(r)'
      BY <1>0, <1>t, <2>0, <3>1, <3>2 DEF HoldsRows, HoldsTurn, Moves, HoldsItem, HoldsAttempt
    <3> QED BY <1>s, <1>t, <2>0, <3>1, <3>2, <3>3, LocalStep DEF Moves
  <2> QED BY <1>2, <2>1, <2>2 DEF BeginRun
<1>3. ASSUME BeginRunRefused(r) \/ ProjectionRefused(r)
      PROVE  ExecInv'
  BY <1>3, <1>s, LeaveInv DEF BeginRunRefused, ProjectionRefused, At, storeVars
<1>4. ASSUME ScopeUnreadable(r) \/ ObserveCancel(r)
      PROVE  ExecInv'
  BY <1>4, <1>q, <1>s, LeaveInv DEF ScopeUnreadable, ObserveCancel, At, storeVars
<1>5. ASSUME Register(r)
      PROVE  ExecInv'
  <2>1. /\ exec[r].pc = "begun" /\ UNCHANGED <<turn, stop, boot, crashes, finalResult, runTask>>
        /\ Goto(r, "work")
    BY <1>5 DEF Register, At, storeVars
  <2>2. cancel' \in [Run -> {"none", "active", "cancelled", "tombstone"}]
    BY <1>5, <1>t DEF Register
  <2> QED BY <1>0, <1>m, <2>1, <2>2 DEF HoldsTurn
<1>6. ASSUME NEW i \in Item \ Review, ProviderAppend(r, i)
      PROVE  ExecInv'
  <2>1. /\ exec[r].pc = "work" /\ UNCHANGED <<turn, cancel, stop, boot, crashes, finalResult, runTask>>
        /\ exec' = [exec EXCEPT ![r].pc = "start", ![r].item = i]
        /\ itemRun' = [itemRun EXCEPT ![i] = r]
        /\ itemKind' = [itemKind EXCEPT ![i] = "provider_generation"]
    BY <1>6 DEF ProviderAppend, At, AppendGeneralItem, runVars, resultVars
  <2>2. Moves(r, "start") /\ exec'[r].item = i
    BY <1>0, <1>p, <2>1 DEF Moves, Exec
  <2>3. Owns(r, i, "provider_generation")'
    BY <1>0, <2>1 DEF Owns, WorkTypeOK, StoreTypeOK
  <2>4. HoldsRows(r)'
    BY <2>2, <2>3 DEF HoldsRows, Moves, HoldsItem, HoldsAttempt
  <2> QED BY <1>0, <1>p, <1>s, <1>t, <2>1, <2>2, <2>4, QuietMove DEF HoldsTurn
<1>7. ASSUME NEW a \in Attempt, ProviderBegin(r, a)
      PROVE  ExecInv'
  <2>0. /\ exec[r].pc = "start" /\ UNCHANGED <<turn, cancel, stop, boot, crashes>>
        /\ turn[r] # "none" /\ runTask[r] # NoTask
        /\ Owns(r, exec[r].item, "provider_generation")
    BY <1>0, <1>7 DEF ProviderBegin, At, HoldsTurn, HoldsRows
  <2>1. CASE Goto(r, "error") /\ UNCHANGED storeVars
    BY <1>m, <1>t, <2>0, <2>1 DEF storeVars
  <2>2. CASE BeginItemAttempt(exec[r].item, a)
             /\ exec' = [exec EXCEPT ![r].pc = "admit", ![r].att = a]
    <3>1. Moves(r, "admit") /\ exec'[r].att = a /\ exec'[r].item = exec[r].item
      BY <1>0, <1>p, <2>2 DEF Moves, Exec
    <3>2. /\ UNCHANGED <<itemRun, itemKind, finalResult, runTask>>
          /\ attItem' = [attItem EXCEPT ![a] = exec[r].item]
      BY <2>2 DEF BeginItemAttempt, runVars, resultVars
    <3>3. Owns(r, exec[r].item, "provider_generation")' /\ attItem'[a] = exec[r].item
      BY <1>0, <2>0, <3>1, <3>2 DEF Owns, WorkTypeOK, StoreTypeOK
    <3>4. HoldsRows(r)'
      BY <3>1, <3>3 DEF HoldsRows, Moves, HoldsItem, HoldsAttempt
    <3> QED BY <1>p, <1>s, <1>t, <2>0, <3>1, <3>2, <3>4, QuietMove
  <2> QED BY <1>7, <2>1, <2>2 DEF ProviderBegin
<1>8. ASSUME AdmitProviderStart(r)
      PROVE  ExecInv'
  <2>0. /\ exec[r].pc = "admit"
        /\ UNCHANGED <<turn, cancel, stop, boot, crashes, finalResult, runTask, itemRun, itemKind, attItem>>
        /\ turn[r] # "none" /\ runTask[r] # NoTask
    BY <1>0, <1>8 DEF AdmitProviderStart, At, HoldsTurn, storeVars
  <2>1. CASE Goto(r, "error")
    BY <1>m, <1>t, <2>0, <2>1
  <2>2. CASE exec' = [exec EXCEPT ![r].pc = "call", ![r].provider = "started"]
    <3>1. Moves(r, "call") /\ exec'[r].att = exec[r].att /\ exec'[r].item = exec[r].item
      BY <1>0, <1>p, <2>2 DEF Moves, Exec, ProviderState
    <3>2. HoldsRows(r)'
      BY <1>0, <2>0, <3>1 DEF HoldsRows, Moves, HoldsItem, HoldsAttempt, Owns
    <3> QED BY <1>p, <1>s, <1>t, <2>0, <3>1, <3>2, QuietMove
  <2> QED BY <1>8, <2>1, <2>2 DEF AdmitProviderStart
<1>9. ASSUME NEW outcome \in DOMAIN AttemptEnd, ProviderFinish(r, outcome)
      PROVE  ExecInv'
  <2>1. /\ exec[r].pc = "call" /\ turn[r] # "none" /\ runTask[r] # NoTask
        /\ UNCHANGED <<turn, cancel, stop, boot, crashes, finalResult, runTask>>
    BY <1>0, <1>9
    DEF ProviderFinish, At, HoldsTurn, storeVars, TerminalizeItemAttempt, runVars, resultVars
  <2>2. outcome \in ProviderState
    BY DEF AttemptEnd, ProviderState
  <2>3. PICK pc \in {"work", "error"} : Moves(r, pc)
    <3>1. PICK pc \in {"work", "error"}, b \in BOOLEAN :
             exec' = [exec EXCEPT ![r].pc = pc, ![r].provider = outcome, ![r].lifecycleError = b,
                                  ![r].item = NoItem, ![r].att = NoAttempt]
      BY <1>9, Zenon DEF ProviderFinish
    <3> QED BY <1>0, <1>p, <2>2, <3>1 DEF Moves, Exec
  <2>4. HoldsRows(r)'
    BY <2>3 DEF HoldsRows, Moves, HoldsItem, HoldsAttempt
  <2> QED BY <1>p, <1>s, <1>t, <2>1, <2>3, <2>4, QuietMove
<1>10. ASSUME NEW i \in Item \ Review, NEW a \in Attempt, BeginToolAttempt(r, i, a)
       PROVE  ExecInv'
  <2>1. /\ exec[r].pc = "work" /\ turn[r] # "none" /\ runTask[r] # NoTask
        /\ UNCHANGED <<turn, cancel, stop, boot, crashes, finalResult, runTask>>
        /\ exec' = [exec EXCEPT ![r].pc = "tool", ![r].item = i, ![r].att = a]
        /\ itemRun' = [itemRun EXCEPT ![i] = r]
        /\ itemKind' = [itemKind EXCEPT ![i] = "tool_call"]
        /\ attItem' = [attItem EXCEPT ![a] = i]
    BY <1>0, <1>10 DEF BeginToolAttempt, At, HoldsTurn, runVars, resultVars
  <2>2. Moves(r, "tool") /\ exec'[r].item = i /\ exec'[r].att = a
    BY <1>0, <1>p, <2>1 DEF Moves, Exec
  <2>3. Owns(r, i, "tool_call")' /\ attItem'[a] = i
    BY <1>0, <2>1 DEF Owns, WorkTypeOK, StoreTypeOK
  <2>4. HoldsRows(r)'
    BY <2>2, <2>3 DEF HoldsRows, Moves, HoldsItem, HoldsAttempt
  <2> QED BY <1>p, <1>s, <1>t, <2>1, <2>2, <2>4, QuietMove
<1>11. ASSUME NEW st \in ToolOutcome, ToolFinish(r, st, "work")
       PROVE  ExecInv'
  <2>1. /\ exec[r].pc \in {"tool", "granted"} /\ turn[r] # "none" /\ runTask[r] # NoTask
        /\ UNCHANGED <<turn, cancel, stop, boot, crashes, finalResult, runTask>>
    BY <1>0, <1>11
    DEF ToolFinish, At, HoldsTurn, storeVars, TerminalizeItemAttempt, runVars, resultVars
  <2>2. Moves(r, "work")
    BY <1>0, <1>11, <1>p DEF ToolFinish, Moves, Exec
  <2>3. HoldsRows(r)'
    BY <2>2 DEF HoldsRows, Moves, HoldsItem, HoldsAttempt
  <2> QED BY <1>p, <1>s, <1>t, <2>1, <2>2, <2>3, QuietMove
<1>12. ASSUME StepRefused(r) \/ RetryDecision(r)
       PROVE  ExecInv'
  BY <1>0, <1>12, <1>m, <1>t DEF StepRefused, RetryDecision, At, HoldsTurn, storeVars
<1>13. ASSUME StepError(r)
       PROVE  ExecInv'
  <2>0. /\ exec[r].pc = "error" /\ turn[r] # "none" /\ runTask[r] # NoTask
        /\ UNCHANGED <<turn, stop, boot, crashes, finalResult, runTask>>
    BY <1>0, <1>13 DEF StepError, At, HoldsTurn, storeVars
  <2>1. CASE Goto(r, "work") /\ UNCHANGED cancel
    BY <1>m, <1>t, <2>0, <2>1
  <2>2. CASE Return(r)
    BY <1>s, <2>0, <2>2, LeaveInv
  <2>3. ASSUME NEW st \in GeneralTerminal, GoFail(r, st), UNCHANGED cancel
        PROVE  ExecInv'
    BY <1>s, <2>0, <2>3, LeaveInv
  <2>4. FailureStatus(exec[r].provider, "blocked") \in GeneralTerminal
    BY <1>0, FailureStatusType DEF Exec
  <2> QED BY <1>13, <1>q, <2>1, <2>2, <2>3, <2>4 DEF StepError
<1>14. ASSUME EndPhase(r)
       PROVE  ExecInv'
  <2>0. /\ exec[r].pc = "work" /\ turn[r] # "none" /\ runTask[r] # NoTask
        /\ UNCHANGED <<turn, cancel, stop, boot, crashes, finalResult, runTask>>
    BY <1>0, <1>14 DEF EndPhase, At, HoldsTurn, storeVars
  <2>1. ASSUME NEW ph \in Phase, exec' = [exec EXCEPT ![r].phase = ph]
        PROVE  ExecInv'
    <3>1. Moves(r, "work")
      BY <1>0, <1>p, <2>0, <2>1 DEF Moves, Exec
    <3>2. HoldsRows(r)'
      BY <3>1 DEF HoldsRows, Moves, HoldsItem, HoldsAttempt
    <3> QED BY <1>p, <1>s, <1>t, <2>0, <3>1, <3>2, QuietMove
  <2>2. ASSUME NEW st \in GeneralTerminal, GoFail(r, st)
        PROVE  ExecInv'
    BY <1>s, <2>0, <2>2, LeaveInv
  <2>3. {"planning", "kernel", "post"} \subseteq Phase
    BY DEF Phase
  <2> QED BY <1>14, <1>q, <2>1, <2>2, <2>3 DEF EndPhase
<1>15. ASSUME ProviderFailed(r)
       PROVE  ExecInv'
  <2>0. /\ exec[r].pc = "work"
        /\ UNCHANGED <<turn, cancel, stop, boot, crashes, finalResult, runTask>>
    BY <1>15 DEF ProviderFailed, At, storeVars
  <2>1. FailureStatus(exec[r].provider, "failed") \in GeneralTerminal
    BY <1>0, FailureStatusType DEF Exec
  <2> QED BY <1>15, <1>q, <1>s, <2>0, <2>1, LeaveInv DEF ProviderFailed
<1>16. ASSUME CompleteWorkTurn(r)
       PROVE  ExecInv'
  <2>0. /\ exec[r].pc = "work" /\ turn[r] # "none" /\ runTask[r] # NoTask
        /\ UNCHANGED <<stop, boot, crashes, finalResult, runTask>>
    BY <1>0, <1>16 DEF CompleteWorkTurn, At, HoldsTurn, storeVars
  <2>1. CASE turn' = [turn EXCEPT ![r] = "completed"] /\ Goto(r, "answer") /\ UNCHANGED cancel
    <3>1. Moves(r, "answer")
      BY <1>0, <1>p, <2>1, GotoFacts
    <3>2. HoldsRows(r)' /\ HoldsTurn(r)'
      BY <1>0, <1>t, <2>0, <2>1, <3>1 DEF HoldsRows, HoldsTurn, Moves, HoldsItem, HoldsAttempt
    <3>3. turn' \in [Run -> TurnStatus \union {"none"}] /\ \A q \in Run \ {r} : turn'[q] = turn[q]
      BY <1>t, <2>1 DEF TurnStatus
    <3> QED BY <1>s, <1>t, <2>0, <2>1, <3>1, <3>2, <3>3, LocalStep DEF Moves
  <2>2. CASE Return(r) /\ UNCHANGED turn
    BY <1>s, <2>0, <2>2, LeaveInv
  <2> QED BY <1>16, <2>1, <2>2 DEF CompleteWorkTurn
<1>17. ASSUME CompleteTask(r) \/ ReplayCompleted(r)
       PROVE  ExecInv'
  <2>0. /\ exec[r].pc \in {"answer", "replay"} /\ turn[r] = "completed" /\ Return(r)
        /\ UNCHANGED <<turn, stop, boot, crashes>>
    BY <1>0, <1>17 DEF CompleteTask, ReplayCompleted, At, HoldsTurn
  <2>1. UNCHANGED runTask /\ finalResult' \subseteq finalResult \union {r}
    BY <1>17 DEF CompleteTask, ReplayCompleted, CompleteGeneralTask, storeVars
  <2>2. Moves(r, "exit") /\ cancel' \in [Run -> {"none", "active", "cancelled", "tombstone"}]
    BY <1>0, <2>0, ReturnFacts
  <2>3. HoldsRows(r)' /\ HoldsTurn(r)'
    BY <1>0, <1>t, <2>0, <2>1, <2>2 DEF HoldsRows, HoldsTurn, Moves, HoldsItem, HoldsAttempt
  <2> QED BY <1>s, <1>t, <2>0, <2>1, <2>2, <2>3, LocalStep DEF Moves
<1>18. ASSUME FailRun(r)
       PROVE  ExecInv'
  <2>0. /\ exec[r].pc = "fail" /\ turn[r] # "none" /\ runTask[r] # NoTask
        /\ exec[r].endAs \in GeneralTerminal
        /\ UNCHANGED <<turn, stop, boot, crashes, finalResult, runTask>>
    BY <1>0, <1>18
    DEF FailRun, At, HoldsTurn, HoldsRows, storeVars, TerminalizeGeneralRun, resultVars
  <2>1. CASE Goto(r, "failTurn") /\ UNCHANGED cancel
    <3>1. Moves(r, "failTurn") /\ exec'[r].endAs = exec[r].endAs
      BY <1>0, <1>p, <2>1, GotoFacts
    <3>2. HoldsRows(r)'
      BY <2>0, <3>1 DEF HoldsRows, Moves, HoldsItem, HoldsAttempt
    <3> QED BY <1>p, <1>s, <1>t, <2>0, <2>1, <3>1, <3>2, QuietMove
  <2>2. CASE Return(r)
    BY <1>s, <2>0, <2>2, LeaveInv
  <2> QED BY <1>18, <2>1, <2>2 DEF FailRun
<1>19. ASSUME FailTurn(r)
       PROVE  ExecInv'
  <2>0. /\ exec[r].pc = "failTurn" /\ turn[r] # "none" /\ runTask[r] # NoTask /\ Return(r)
        /\ UNCHANGED <<stop, boot, crashes, finalResult, runTask>>
    BY <1>0, <1>19 DEF FailTurn, At, HoldsTurn, storeVars
  <2>1. turn' = [turn EXCEPT ![r] = IF @ # "running" THEN @
                    ELSE IF exec[r].endAs = "cancelled" THEN "cancelled" ELSE "failed"]
    BY <1>19 DEF FailTurn
  <2>2. /\ turn' \in [Run -> TurnStatus \union {"none"}] /\ \A q \in Run \ {r} : turn'[q] = turn[q]
        /\ turn'[r] # "none" /\ (turn[r] = "completed" => turn'[r] = "completed")
    BY <1>t, <2>0, <2>1 DEF TurnStatus
  <2>3. Moves(r, "exit") /\ cancel' \in [Run -> {"none", "active", "cancelled", "tombstone"}]
    BY <1>0, <2>0, ReturnFacts
  <2>4. HoldsRows(r)' /\ HoldsTurn(r)'
    BY <1>0, <1>t, <2>0, <2>2, <2>3 DEF HoldsRows, HoldsTurn, Moves, HoldsItem, HoldsAttempt
  <2> QED BY <1>s, <1>t, <2>0, <2>2, <2>3, <2>4, LocalStep DEF Moves
<1> QED
  BY <1>1, <1>2, <1>3, <1>4, <1>5, <1>6, <1>7, <1>8, <1>9, <1>10, <1>11, <1>12, <1>13, <1>14,
     <1>15, <1>16, <1>17, <1>18, <1>19 DEF ExecStep

\* What happens beside the executors keeps the invariant: their local state stays, the
\* rows stay together, and no Turn is lost or un-answered.
LEMMA BesideStep ==
    ASSUME ExecInv, StoreInv', Grows, AttemptsHaveItems',
           UNCHANGED <<exec, runTask, finalResult>>,
           turn' \in [Run -> TurnStatus \union {"none"}],
           \A r \in Run : /\ turn'[r] = "none" <=> turn[r] = "none"
                          /\ turn[r] = "completed" => turn'[r] = "completed",
           cancel' \in [Run -> {"none", "active", "cancelled", "tombstone"}],
           stop' \in [Run -> {"idle", "readRunning", "readEnded", "turn", "run"}],
           boot' \in {"up", "turns", "runs"}, UNCHANGED crashes
    PROVE  ExecInv'
<1>1. WorkTypeOK'
  BY DEF ExecInv, WorkTypeOK, StoreInv
<1>2. ASSUME NEW q \in Run
      PROVE  HoldsTurn(q)' /\ HoldsRows(q)'
  <2>1. HoldsTurn(q) /\ HoldsRows(q)
    BY DEF ExecInv
  <2>2. HoldsTurn(q)'
    BY <2>1 DEF HoldsTurn
  <2>3. ASSUME NEW i, NEW k, Owns(q, i, k)
        PROVE  Owns(q, i, k)' /\ i \in Item
    BY <2>3 DEF Owns, Grows
  <2>4. ASSUME NEW a \in Attempt, NEW i \in Item, attItem[a] = i
        PROVE  attItem'[a] = i
    BY <2>4 DEF Grows
  <2>5. HoldsRows(q)'
    BY <2>1, <2>3, <2>4 DEF HoldsRows
  <2> QED BY <2>2, <2>5
<1>3. finalResult \in SUBSET Run
  BY DEF ExecInv, StoreInv, StoreTypeOK
<1>4. ResultHasAnswer'
  BY <1>3 DEF ExecInv, ResultHasAnswer
<1> QED BY <1>1, <1>2, <1>4 DEF ExecInv

\* An operation of the store that begins and completes no Run keeps the invariant.
LEMMA StoreStepInv ==
    ASSUME ExecInv, [StoreNext]_storeVars, UNCHANGED <<runTask, finalResult>>, UNCHANGED workVars
    PROVE  ExecInv'
<1>1. StoreInv' /\ Grows /\ AttemptsHaveItems'
  BY InvStep, StoreGrows, StoreAttemptItems DEF ExecInv
<1>2. WorkTypeOK
  BY DEF ExecInv
<1> QED BY <1>1, <1>2, BesideStep DEF workVars, WorkTypeOK

\* Stop, which may come at any time, keeps the invariant.
LEMMA StopStepInv ==
    ASSUME ExecInv, NEW r \in Run, StopStep(r) \/ RequestStop(r)
    PROVE  ExecInv'
<1>0. WorkTypeOK /\ StoreInv /\ AttemptsHaveItems
  BY DEF ExecInv
<1>1. [StoreNext]_storeVars /\ UNCHANGED <<runTask, finalResult, exec, boot, crashes>>
  <2>1. "cancelled" \in GeneralTerminal
    BY DEF GeneralTerminal
  <2> QED BY <2>1 DEF StopStep, RequestStop, RequestCancel, StopTurn, StopRun, StoreNext,
                      TerminalizeGeneralRun, resultVars, storeVars
<1>2. StoreInv' /\ Grows /\ AttemptsHaveItems'
  BY <1>0, <1>1, InvStep, StoreGrows, StoreAttemptItems
<1>3. /\ cancel' \in [Run -> {"none", "active", "cancelled", "tombstone"}]
      /\ stop' \in [Run -> {"idle", "readRunning", "readEnded", "turn", "run"}]
  BY <1>0 DEF StopStep, RequestStop, RequestCancel, StopTurn, StopRun, WorkTypeOK
<1>4. /\ turn' \in [Run -> TurnStatus \union {"none"}]
      /\ \A q \in Run : /\ turn'[q] = "none" <=> turn[q] = "none"
                        /\ turn[q] = "completed" => turn'[q] = "completed"
  BY <1>0 DEF StopStep, RequestStop, RequestCancel, StopTurn, StopRun, WorkTypeOK, TurnStatus
<1> QED BY <1>0, <1>1, <1>2, <1>3, <1>4, BesideStep DEF WorkTypeOK

\* Startup recovery keeps the invariant.
LEMMA BootStepInv ==
    ASSUME ExecInv, BootStep
    PROVE  ExecInv'
<1>0. WorkTypeOK /\ StoreInv /\ AttemptsHaveItems
  BY DEF ExecInv
<1>1. [StoreNext]_storeVars /\ UNCHANGED <<runTask, finalResult, exec, cancel, stop, crashes>>
  BY DEF BootStep, BootTurns, BootRuns, StoreNext, RecoverInterruptedGeneralRuns, resultVars, storeVars
<1>2. StoreInv' /\ Grows /\ AttemptsHaveItems'
  BY <1>0, <1>1, InvStep, StoreGrows, StoreAttemptItems
<1>3. /\ turn' \in [Run -> TurnStatus \union {"none"}]
      /\ \A q \in Run : /\ turn'[q] = "none" <=> turn[q] = "none"
                        /\ turn[q] = "completed" => turn'[q] = "completed"
  BY <1>0 DEF BootStep, BootTurns, BootRuns, WorkTypeOK, TurnStatus
<1>4. boot' \in {"up", "turns", "runs"}
  BY DEF BootStep, BootTurns, BootRuns
<1> QED BY <1>0, <1>1, <1>2, <1>3, <1>4, BesideStep DEF WorkTypeOK

\* A crash leaves of every invocation only that it was called, and for which Task.
LEMMA CrashFacts ==
    ASSUME WorkTypeOK, Crash
    PROVE  /\ exec' \in [Run -> Exec]
           /\ \A r \in Run : /\ exec'[r].pc = (IF exec[r].pc = "idle" THEN "idle" ELSE "exit")
                             /\ exec'[r].task = exec[r].task
<1>1. "exit" \in ExecPc
  BY DEF ExecPc
<1>2. \A e \in Exec : [NotStarted EXCEPT !.pc = "exit", !.task = e.task] \in Exec
  BY <1>1, DroppedType DEF Exec, NotStarted
<1>3. \A r \in Run : exec[r] \in Exec
  BY DEF WorkTypeOK
<1>4. exec' = [r \in Run |-> IF exec[r].pc = "idle" THEN exec[r]
                             ELSE [NotStarted EXCEPT !.pc = "exit", !.task = exec[r].task]]
  BY DEF Crash
<1> QED BY <1>2, <1>3, <1>4 DEF NotStarted

\* A crash keeps the invariant.
LEMMA CrashInv ==
    ASSUME ExecInv, Crash
    PROVE  ExecInv'
<1>0. WorkTypeOK /\ UNCHANGED <<storeVars, turn>>
  BY DEF ExecInv, Crash
<1>1. /\ exec' \in [Run -> Exec]
      /\ \A r \in Run : /\ exec'[r].pc = (IF exec[r].pc = "idle" THEN "idle" ELSE "exit")
                        /\ exec'[r].task = exec[r].task
  BY <1>0, CrashFacts
<1>2. StoreInv' /\ AttemptsHaveItems' /\ ResultHasAnswer'
  <2>1. StoreInv'
    BY <1>0, InvStep DEF ExecInv
  <2> QED BY <1>0, <2>1 DEF ExecInv, AttemptsHaveItems, ResultHasAnswer, storeVars
<1>3. WorkTypeOK'
  <2>1. crashes' \in 0..MaxCrashes
    <3>1. crashes \in 0..MaxCrashes /\ crashes < MaxCrashes /\ crashes' = crashes + 1
      BY <1>0 DEF WorkTypeOK, Crash
    <3> QED BY <3>1
  <2> QED BY <1>0, <1>1, <1>2, <2>1 DEF WorkTypeOK, StoreInv, Crash
<1>4. \A r \in Run : HoldsTurn(r)' /\ HoldsRows(r)'
  BY <1>0, <1>1 DEF ExecInv, HoldsTurn, HoldsRows, HoldsItem, HoldsAttempt, storeVars
<1> QED BY <1>2, <1>3, <1>4 DEF ExecInv

\* A request starts, restarts or repeats an invocation and keeps the invariant.
LEMMA RequestInv ==
    ASSUME ExecInv, UserStep \/ \E r \in Run : ReinvokeRun(r)
    PROVE  ExecInv'
<1>0. WorkTypeOK /\ StoreInv /\ AttemptsHaveItems /\ exec \in [Run -> Exec]
  BY DEF ExecInv, WorkTypeOK
<1>1. ASSUME NEW r \in Run, NEW t \in Task, Call(r, t),
             UNCHANGED <<storeVars, turn, cancel, stop, boot, crashes>>,
             exec[r].pc = "idle" \/ exec[r].task = t
      PROVE  ExecInv'
  <2>1. StoreInv' /\ Grows /\ AttemptsHaveItems'
    BY <1>0, <1>1, InvStep, StoreGrows, StoreAttemptItems
  <2>2. /\ exec' \in [Run -> Exec]
        /\ \A q \in Run \ {r} : exec'[q] = exec[q]
        /\ exec'[r].pc = "called" /\ exec'[r].task = t
    BY <1>0, <1>1, CallFacts
  <2>3. UNCHANGED <<runTask, finalResult>> /\ t # NoTask
    BY <1>1 DEF storeVars
  <2>4. HoldsTurn(r)
    BY DEF ExecInv
  <2>5. HoldsTurn(r)'
    BY <1>1, <2>2, <2>3, <2>4 DEF HoldsTurn
  <2>6. HoldsRows(r)'
    BY <2>2 DEF HoldsRows, HoldsItem, HoldsAttempt
  <2>7. /\ turn \in [Run -> TurnStatus \union {"none"}]
        /\ cancel \in [Run -> {"none", "active", "cancelled", "tombstone"}]
        /\ finalResult \in SUBSET Run
    BY <1>0 DEF WorkTypeOK, StoreTypeOK
  <2> QED BY <1>1, <2>1, <2>2, <2>3, <2>5, <2>6, <2>7, LocalStep
<1>2. ASSUME NEW r \in Run, ReinvokeRun(r)
      PROVE  ExecInv'
  <2>1. exec[r].pc = "exit" /\ exec[r].task \in Task
    BY <1>2 DEF ReinvokeRun, At, ExecInv, HoldsTurn
  <2> QED BY <1>1, <1>2, <2>1 DEF ReinvokeRun
<1>3. ASSUME NEW t \in Task, NEW q \in Run, NEW r \in Run, RestartWork(t, q, r) \/ StartWork(t, r)
      PROVE  ExecInv'
  BY <1>1, <1>3 DEF RestartWork, StartWork, At
<1> QED BY <1>2, <1>3, StopStepInv DEF UserStep

\* The invariant holds before anything happened.
LEMMA ExecInvInit == WorkInit => ExecInv
<1> SUFFICES ASSUME WorkInit
             PROVE  ExecInv
  OBVIOUS
<1>1. StoreInit
  BY DEF WorkInit
<1>2. StoreInv
  BY <1>1, InvInit
<1>3. NotStarted \in Exec
  BY DEF NotStarted, Exec, ExecPc, Phase, ProviderState
<1>4. WorkTypeOK
  BY <1>2, <1>3 DEF WorkInit, WorkTypeOK, StoreInv
<1>5. \A r \in Run : HoldsTurn(r) /\ HoldsRows(r)
  BY <1>1 DEF WorkInit, StoreInit, HoldsTurn, HoldsRows, HoldsItem, HoldsAttempt, NotStarted
<1>6. AttemptsHaveItems /\ ResultHasAnswer
  BY <1>1 DEF StoreInit, AttemptsHaveItems, ResultHasAnswer
<1> QED BY <1>2, <1>4, <1>5, <1>6 DEF ExecInv

\* Every step of the Work runtime keeps the invariant.
LEMMA ExecInvStep == ExecInv /\ [WorkNext]_allVars => ExecInv'
<1> SUFFICES ASSUME ExecInv, [WorkNext]_allVars
             PROVE  ExecInv'
  OBVIOUS
<1>1. CASE UNCHANGED allVars
  BY <1>1, StoreStepInv DEF allVars, storeVars
<1> QED
  BY <1>1, RequestInv, ExecStepInv, StopStepInv, CrashInv, BootStepInv DEF WorkNext

\* Every reachable state of the Work runtime satisfies the invariant of invocations.
THEOREM ExecInvariant == WorkSpec => []ExecInv
BY ExecInvInit, ExecInvStep, PTL DEF WorkSpec

\* Executors, Stops, restarts and crashes keep all their state in its type.
THEOREM WorkTypeCorrect == WorkSpec => []WorkTypeOK
BY ExecInvariant, PTL DEF ExecInv

\* No Run of the Work runtime is completed whose Turn is not, in any interleaving of
\* the two stores' transactions with Stops, restarts and crashes.
THEOREM ResultCorrect == WorkSpec => []ResultHasAnswer
BY ExecInvariant, PTL DEF ExecInv

-----------------------------------------------------------------------------
(* The Work runtime by itself: cancellation, and what an ended Run leaves. *)

\* The stages between the registration of an invocation and its return or failure.
Working == {"work", "start", "admit", "call", "tool", "error", "answer"}

\* A Run that ended was cancelled first: whoever ends the Run of an invocation that
\* still works has reached the registry before.
HeldByToken(r) ==
    LET pc == exec[r].pc
    IN /\ pc \in Working \union {"idle", "called", "turn", "begun", "fail", "failTurn", "exit"}
       /\ pc \in {"idle", "called"} => turn[r] = "none"
       /\ pc \in {"idle", "called", "turn"} => runTask[r] = NoTask
       /\ pc \in {"idle", "called", "turn", "begun"} => cancel[r] \in {"none", "tombstone"}
       /\ pc = "begun" => runStatus[r] = "running" \/ cancel[r] = "tombstone"
       /\ pc \in Working => /\ cancel[r] \in {"active", "cancelled"}
                            /\ runStatus[r] = "running" \/ cancel[r] = "cancelled"
       /\ stop[r] \in {"turn", "run"} => cancel[r] \in {"cancelled", "tombstone"} \/ pc = "exit"
       /\ boot # "up" => pc \in {"idle", "exit"} /\ stop[r] = "idle"

\* An Attempt runs on an Item that runs, and alone.
OneTryAtATime ==
    /\ \A a \in Attempt : attStatus[a] = "running" => itemStatus[attItem[a]] = "running"
    /\ \A a, b \in Attempt :
          attStatus[a] = "running" /\ attStatus[b] = "running" /\ attItem[a] = attItem[b] => a = b

\* A tool call of a Run runs only while its executor is there or has been dropped, and
\* the Item the executor is about to try was cancelled in the meantime, if anything.
TriesOf(r) ==
    /\ \A a \in Attempt :
          attStatus[a] = "running" /\ itemRun[attItem[a]] = r /\ itemKind[attItem[a]] = "tool_call"
             => \/ exec[r].pc = "tool" /\ exec[r].att = a
                \/ exec[r].pc \in {"fail", "failTurn", "exit"}
    /\ exec[r].pc = "start" => itemStatus[exec[r].item] \in {"waiting", "cancelled"}

\* Without a tool Review nothing waits for one.
NothingWaits ==
    /\ \A p \in Review : reviewStatus[p] = "none"
    /\ \A t \in Task : taskStatus[t] # "waiting_review"

\* A Run that ended left no Attempt running, and no Item open but the instructions a
\* user sent late (which the Work runtime by itself does not have).
WorkSettled ==
    /\ \A a \in Attempt : attItem[a] # NoItem /\ itemRun[attItem[a]] \in Run
          /\ runStatus[itemRun[attItem[a]]] \in Terminal => attStatus[a] # "running"
    /\ \A i \in Item : itemRun[i] \in Run /\ runStatus[itemRun[i]] \in Terminal
          /\ itemKind[i] # "steering" => itemStatus[i] \notin {"waiting", "running"}

\* The inductive invariant of the Work runtime.
WorkInv ==
    /\ ExecInv
    /\ NothingWaits
    /\ \A r \in Run : HeldByToken(r) /\ TriesOf(r)
    /\ OneTryAtATime
    /\ WorkSettled
    /\ LiveTaskHasLiveRun

\* Closing the work of Runs that end, together with ending them, leaves nothing open.
LEMMA CloseSettles ==
    ASSUME StoreInv, StoreInv', OneTryAtATime, WorkSettled, NEW R \in SUBSET Run,
           NEW st \in GeneralTerminal, CloseWorkOf(R, st),
           \A q \in Run \ R : runStatus'[q] = runStatus[q]
    PROVE  OneTryAtATime' /\ WorkSettled'
<1>0. /\ itemRun \in [Item -> Run \union {NoRun}] /\ attItem \in [Attempt -> Item \union {NoItem}]
      /\ attStatus \in [Attempt -> CanonicalTaskItemStatus \union {"none"}]
      /\ \A a \in Attempt : attItem[a] = NoItem <=> attStatus[a] = "none"
  BY DEF StoreInv, StoreTypeOK, AttemptRowsConsistent
<1>1. /\ UNCHANGED <<itemRun, itemKind, attItem>>
      /\ \A i \in Item : itemStatus'[i] = (IF itemRun[i] \in R /\ itemStatus[i] \in {"waiting", "running"}
                                           THEN st ELSE itemStatus[i])
      /\ \A a \in Attempt : attStatus'[a] =
            (IF attItem[a] # NoItem /\ itemRun[attItem[a]] \in R /\ attStatus[a] = "running"
             THEN st ELSE attStatus[a])
  BY DEF CloseWorkOf
<1>2. st \notin {"none", "waiting", "running"}
  BY DEF GeneralTerminal
<1>3. OneTryAtATime'
  BY <1>0, <1>1, <1>2 DEF OneTryAtATime
<1>4. WorkSettled'
  BY <1>0, <1>1, <1>2 DEF WorkSettled
<1> QED BY <1>3, <1>4

\* The Runs' and Tasks' part: every operation the Work runtime uses keeps it.
LEMMA LiveTaskStep ==
    ASSUME StoreInv, StoreInv', NothingWaits, LiveTaskHasLiveRun,
           \/ \E t \in Task, r \in Run : BeginGeneralTaskRun(t, r)
           \/ \E r \in Run, st \in GeneralTerminal : TerminalizeGeneralRun(r, st)
           \/ RecoverInterruptedGeneralRuns
           \/ \E r \in Run : CompleteGeneralTask(r)
           \/ UNCHANGED <<taskStatus, runTask, runStatus, reviewStatus>>
    PROVE  NothingWaits' /\ LiveTaskHasLiveRun'
<1>0. /\ taskStatus \in [Task -> CanonicalTaskStatus \union {"none"}]
      /\ runTask \in [Run -> Task \union {NoTask}]
      /\ runStatus \in [Run -> CanonicalTaskStatus \union {"none"}]
      /\ \A r \in Run : runTask[r] = NoTask <=> runStatus[r] = "none"
  BY DEF StoreInv, StoreTypeOK, RowsConsistent
<1> USE DEF NothingWaits, LiveTaskHasLiveRun, RunsOf
<1>1. ASSUME NEW t \in Task, NEW r \in Run, BeginGeneralTaskRun(t, r)
      PROVE  NothingWaits' /\ LiveTaskHasLiveRun'
  <2>1. /\ runTask[r] = NoTask /\ UNCHANGED reviewStatus
        /\ runTask' = [runTask EXCEPT ![r] = t]
        /\ runStatus' = [runStatus EXCEPT ![r] = "running"]
        /\ taskStatus' = [taskStatus EXCEPT ![t] = "running"]
    BY <1>1 DEF BeginGeneralTaskRun, reviewVars
  <2> QED BY <1>0, <2>1
<1>2. ASSUME NEW r \in Run, NEW st \in GeneralTerminal, TerminalizeGeneralRun(r, st)
      PROVE  NothingWaits' /\ LiveTaskHasLiveRun'
  <2>1. /\ runTask[r] # NoTask /\ UNCHANGED runTask
        /\ runStatus' = [runStatus EXCEPT ![r] = st]
        /\ taskStatus' = [taskStatus EXCEPT ![runTask[r]] = st]
        /\ \A p \in Review : reviewStatus'[p] = reviewStatus[p]
    BY <1>2 DEF TerminalizeGeneralRun, WaitingReviews
  <2>2. st \notin {"running", "waiting_review"}
    BY DEF GeneralTerminal
  <2> QED BY <1>0, <2>1, <2>2
<1>3. ASSUME RecoverInterruptedGeneralRuns
      PROVE  NothingWaits' /\ LiveTaskHasLiveRun'
  <2>1. /\ UNCHANGED <<runTask, reviewStatus>>
        /\ \A r \in Run : runStatus'[r] = IF runStatus[r] = "running" THEN "interrupted" ELSE runStatus[r]
        /\ \A t \in Task : taskStatus'[t] =
              IF taskStatus[t] = "running" /\ \E r \in RunsOf(t) : runStatus[r] = "running"
              THEN "interrupted" ELSE taskStatus[t]
    BY <1>3 DEF RecoverInterruptedGeneralRuns, reviewVars
  <2> QED BY <1>0, <2>1
<1>4. ASSUME NEW r \in Run, CompleteGeneralTask(r)
      PROVE  NothingWaits' /\ LiveTaskHasLiveRun'
  <2>1. /\ runStatus[r] = "running" /\ UNCHANGED <<runTask, reviewStatus>>
        /\ runStatus' = [runStatus EXCEPT ![r] = "completed"]
        /\ taskStatus' = [taskStatus EXCEPT ![runTask[r]] = "completed"]
    BY <1>4 DEF CompleteGeneralTask, reviewVars
  <2>2. runTask[r] \in Task
    BY <1>0, <2>1
  <2> QED BY <1>0, <2>1, <2>2
<1>5. CASE UNCHANGED <<taskStatus, runTask, runStatus, reviewStatus>>
  BY <1>5
<1> QED BY <1>1, <1>2, <1>3, <1>4, <1>5

\* The Items' and Attempts' part.
LEMMA SettledStep ==
    ASSUME StoreInv, StoreInv', AttemptsHaveItems, OneTryAtATime, WorkSettled,
           \/ \E t \in Task, r \in Run : BeginGeneralTaskRun(t, r)
           \/ \E r \in Run, st \in GeneralTerminal : TerminalizeGeneralRun(r, st)
           \/ RecoverInterruptedGeneralRuns
           \/ \E r \in Run : CompleteGeneralTask(r)
           \/ \E r \in Run, i \in Item, kind \in CanonicalTaskItemKind : AppendGeneralItem(r, i, kind)
           \/ \E i \in Item, a \in Attempt :
                 itemStatus[i] = "waiting" /\ itemKind[i] # "steering" /\ BeginItemAttempt(i, a)
           \/ \E a \in Attempt, st \in Terminal : TerminalizeItemAttempt(a, st)
           \/ \E r \in Run, i \in Item, a \in Attempt :
                 /\ BeginToolAttempt(r, i, a)
                 /\ \A b \in Attempt : attStatus[b] = "running" => attItem[b] # i
           \/ UNCHANGED storeVars
    PROVE  OneTryAtATime' /\ WorkSettled'
<1>0. /\ itemRun \in [Item -> Run \union {NoRun}] /\ attItem \in [Attempt -> Item \union {NoItem}]
      /\ attStatus \in [Attempt -> CanonicalTaskItemStatus \union {"none"}]
      /\ itemStatus \in [Item -> CanonicalTaskItemStatus \union {"none"}]
      /\ itemKind \in [Item -> CanonicalTaskItemKind \union {"none"}]
      /\ \A a \in Attempt : attItem[a] = NoItem <=> attStatus[a] = "none"
      /\ runStatus \in [Run -> CanonicalTaskStatus \union {"none"}]
      /\ \A i \in Item : itemRun[i] # NoRun => runTask[itemRun[i]] # NoTask
  BY DEF StoreInv, StoreTypeOK, AttemptRowsConsistent, RowsConsistent
<1>t. "running" \notin Terminal /\ "waiting" \notin Terminal
  BY DEF Terminal, GeneralTerminal
<1>1. ASSUME NEW t \in Task, NEW r \in Run, BeginGeneralTaskRun(t, r)
      PROVE  OneTryAtATime' /\ WorkSettled'
  <2>1. /\ runTask[r] = NoTask /\ UNCHANGED <<itemRun, itemKind, itemStatus, attItem, attStatus>>
        /\ runStatus' = [runStatus EXCEPT ![r] = "running"]
    BY <1>1 DEF BeginGeneralTaskRun, itemVars, attVars
  <2>2. WorkSettled'
    BY <1>0, <1>t, <2>1 DEF WorkSettled
  <2> QED BY <2>1, <2>2 DEF OneTryAtATime
<1>2. ASSUME NEW r \in Run, NEW st \in GeneralTerminal, TerminalizeGeneralRun(r, st)
      PROVE  OneTryAtATime' /\ WorkSettled'
  <2>1. CloseWorkOf({r}, st) /\ \A q \in Run \ {r} : runStatus'[q] = runStatus[q]
    BY <1>0, <1>2 DEF TerminalizeGeneralRun
  <2> QED BY <2>1, CloseSettles
<1>3. ASSUME RecoverInterruptedGeneralRuns
      PROVE  OneTryAtATime' /\ WorkSettled'
  <2> DEFINE R == {r \in Run : runStatus[r] = "running"}
  <2>1. CloseWorkOf(R, "interrupted") /\ \A q \in Run \ R : runStatus'[q] = runStatus[q]
    BY <1>0, <1>3 DEF RecoverInterruptedGeneralRuns
  <2>2. R \in SUBSET Run /\ "interrupted" \in GeneralTerminal
    BY DEF GeneralTerminal
  <2> HIDE DEF R
  <2> QED BY <2>1, <2>2, CloseSettles
<1>4. ASSUME NEW r \in Run, CompleteGeneralTask(r)
      PROVE  OneTryAtATime' /\ WorkSettled'
  <2>1. /\ UNCHANGED <<itemRun, itemKind, itemStatus, attItem, attStatus>>
        /\ runStatus' = [runStatus EXCEPT ![r] = "completed"]
        /\ \A i \in Item : itemRun[i] = r => itemStatus[i] \notin {"waiting", "running"}
    BY <1>4 DEF CompleteGeneralTask, itemVars, attVars, Unsettled, ItemsOf
  <2>2. \A a \in Attempt : attStatus[a] = "running" => itemStatus[attItem[a]] = "running"
    BY DEF OneTryAtATime
  <2>3. WorkSettled'
    BY <1>0, <2>1, <2>2 DEF WorkSettled
  <2> QED BY <2>1, <2>3 DEF OneTryAtATime
<1>5. ASSUME NEW r \in Run, NEW i \in Item, NEW kind \in CanonicalTaskItemKind,
             AppendGeneralItem(r, i, kind)
      PROVE  OneTryAtATime' /\ WorkSettled'
  <2>1. /\ UNCHANGED <<runStatus, attItem, attStatus>> /\ runStatus[r] = "running"
        /\ itemRun[i] = NoRun
        /\ itemRun' = [itemRun EXCEPT ![i] = r]
        /\ itemKind' = [itemKind EXCEPT ![i] = kind]
        /\ itemStatus' = [itemStatus EXCEPT ![i] = "waiting"]
    BY <1>5 DEF AppendGeneralItem, runVars, attVars
  <2>2. \A a \in Attempt : attItem[a] # i
    BY <1>0, <2>1 DEF AttemptsHaveItems
  <2>3. OneTryAtATime'
    BY <1>0, <2>1, <2>2 DEF OneTryAtATime
  <2>4. WorkSettled'
    BY <1>0, <1>t, <2>1, <2>2 DEF WorkSettled
  <2> QED BY <2>3, <2>4
<1>6. ASSUME NEW i \in Item, NEW a \in Attempt, itemStatus[i] = "waiting", itemKind[i] # "steering",
             BeginItemAttempt(i, a)
      PROVE  OneTryAtATime' /\ WorkSettled'
  <2>1. /\ UNCHANGED <<runStatus, itemRun, itemKind>> /\ attItem[a] = NoItem
        /\ attItem' = [attItem EXCEPT ![a] = i]
        /\ attStatus' = [attStatus EXCEPT ![a] = "running"]
        /\ itemStatus' = [itemStatus EXCEPT ![i] = "running"]
    BY <1>6 DEF BeginItemAttempt, runVars
  <2>2. \A b \in Attempt : attStatus[b] = "running" => attItem[b] # i
    BY <1>6 DEF OneTryAtATime
  <2>3. OneTryAtATime'
    BY <1>0, <2>1, <2>2 DEF OneTryAtATime
  <2>4. WorkSettled'
    BY <1>0, <1>6, <2>1 DEF WorkSettled
  <2> QED BY <2>3, <2>4
<1>7. ASSUME NEW a \in Attempt, NEW st \in Terminal, TerminalizeItemAttempt(a, st)
      PROVE  OneTryAtATime' /\ WorkSettled'
  <2>1. /\ UNCHANGED <<runStatus, itemRun, itemKind, attItem>> /\ attStatus[a] = "running"
        /\ attStatus' = [attStatus EXCEPT ![a] = st]
        /\ itemStatus' = [itemStatus EXCEPT ![attItem[a]] = st]
    BY <1>7 DEF TerminalizeItemAttempt, runVars
  <2>2. OneTryAtATime'
    BY <1>0, <1>t, <2>1 DEF OneTryAtATime
  <2>3. WorkSettled'
    BY <1>0, <1>t, <2>1 DEF WorkSettled
  <2> QED BY <2>2, <2>3
<1>8. ASSUME NEW r \in Run, NEW i \in Item, NEW a \in Attempt, BeginToolAttempt(r, i, a),
             \A b \in Attempt : attStatus[b] = "running" => attItem[b] # i
      PROVE  OneTryAtATime' /\ WorkSettled'
  <2>1. /\ UNCHANGED runStatus /\ attItem[a] = NoItem /\ runStatus[r] = "running"
        /\ itemRun' = [itemRun EXCEPT ![i] = r]
        /\ itemKind' = [itemKind EXCEPT ![i] = "tool_call"]
        /\ attItem' = [attItem EXCEPT ![a] = i]
        /\ attStatus' = [attStatus EXCEPT ![a] = "running"]
        /\ itemStatus' = [itemStatus EXCEPT ![i] = "running"]
    BY <1>8 DEF BeginToolAttempt, runVars
  <2>2. OneTryAtATime'
    BY <1>0, <1>8, <2>1 DEF OneTryAtATime
  <2>3. WorkSettled'
    BY <1>0, <1>8, <1>t, <2>1 DEF WorkSettled
  <2> QED BY <2>2, <2>3
<1>9. CASE UNCHANGED storeVars
  BY <1>9 DEF storeVars, OneTryAtATime, WorkSettled
<1> QED BY <1>1, <1>2, <1>3, <1>4, <1>5, <1>6, <1>7, <1>8, <1>9

\* A step writes only rows of Run r: other Runs, their Items and their Attempts stay.
WritesOnly(r) ==
    /\ \A q \in Run \ {r} : runStatus'[q] = runStatus[q] /\ runTask'[q] = runTask[q]
    /\ \A i \in Item : \/ itemRun[i] = r \/ itemRun'[i] = r
                       \/ itemRun'[i] = itemRun[i] /\ itemStatus'[i] = itemStatus[i]
                             /\ itemKind'[i] = itemKind[i]
    /\ \A a \in Attempt : \/ attItem'[a] = attItem[a] /\ attStatus'[a] = attStatus[a]
                          \/ attItem'[a] # NoItem /\ itemRun'[attItem'[a]] = r

\* The store's operations on Run r write only rows of r.
LEMMA OperationWritesOnly ==
    ASSUME StoreInv, NEW r \in Run,
           \/ \E t \in Task : BeginGeneralTaskRun(t, r)
           \/ \E st \in GeneralTerminal : TerminalizeGeneralRun(r, st)
           \/ CompleteGeneralTask(r)
           \/ \E i \in Item, kind \in CanonicalTaskItemKind : AppendGeneralItem(r, i, kind)
           \/ \E i \in Item, a \in Attempt : itemRun[i] = r /\ BeginItemAttempt(i, a)
           \/ \E a \in Attempt, st \in Terminal :
                 attItem[a] # NoItem /\ itemRun[attItem[a]] = r /\ TerminalizeItemAttempt(a, st)
           \/ \E i \in Item, a \in Attempt : BeginToolAttempt(r, i, a)
           \/ UNCHANGED storeVars
    PROVE  WritesOnly(r)
<1>0. /\ runTask \in [Run -> Task \union {NoTask}]
      /\ runStatus \in [Run -> CanonicalTaskStatus \union {"none"}]
      /\ itemRun \in [Item -> Run \union {NoRun}]
      /\ itemKind \in [Item -> CanonicalTaskItemKind \union {"none"}]
      /\ itemStatus \in [Item -> CanonicalTaskItemStatus \union {"none"}]
      /\ attItem \in [Attempt -> Item \union {NoItem}]
      /\ attStatus \in [Attempt -> CanonicalTaskItemStatus \union {"none"}]
  BY DEF StoreInv, StoreTypeOK
<1> USE <1>0 DEF WritesOnly
<1>1. ASSUME NEW t \in Task, BeginGeneralTaskRun(t, r)
      PROVE  WritesOnly(r)
  BY <1>1 DEF BeginGeneralTaskRun, itemVars, attVars
<1>2. ASSUME NEW st \in GeneralTerminal, TerminalizeGeneralRun(r, st)
      PROVE  WritesOnly(r)
  BY <1>2 DEF TerminalizeGeneralRun, CloseWorkOf
<1>3. ASSUME CompleteGeneralTask(r)
      PROVE  WritesOnly(r)
  BY <1>3 DEF CompleteGeneralTask, itemVars, attVars
<1>4. ASSUME NEW i \in Item, NEW kind \in CanonicalTaskItemKind, AppendGeneralItem(r, i, kind)
      PROVE  WritesOnly(r)
  BY <1>4 DEF AppendGeneralItem, runVars, attVars
<1>5. ASSUME NEW i \in Item, NEW a \in Attempt, itemRun[i] = r, BeginItemAttempt(i, a)
      PROVE  WritesOnly(r)
  BY <1>5 DEF BeginItemAttempt, runVars
<1>6. ASSUME NEW a \in Attempt, NEW st \in Terminal, attItem[a] # NoItem,
             itemRun[attItem[a]] = r, TerminalizeItemAttempt(a, st)
      PROVE  WritesOnly(r)
  BY <1>6 DEF TerminalizeItemAttempt, runVars
<1>7. ASSUME NEW i \in Item, NEW a \in Attempt, BeginToolAttempt(r, i, a)
      PROVE  WritesOnly(r)
  BY <1>7 DEF BeginToolAttempt, runVars
<1>8. CASE UNCHANGED storeVars
  BY <1>8 DEF storeVars
<1> QED BY <1>1, <1>2, <1>3, <1>4, <1>5, <1>6, <1>7, <1>8

\* Which operation of the store a step of an executor or of a Stop is, and on what.
StepOf(r) ==
    \/ \E t \in Task : At(r, "turn") /\ BeginGeneralTaskRun(t, r)
    \/ \E st \in GeneralTerminal : TerminalizeGeneralRun(r, st)
    \/ CompleteGeneralTask(r)
    \/ \E i \in Item \ Review : AppendGeneralItem(r, i, "provider_generation")
    \/ \E i \in Item \ Review, a \in Attempt :
          /\ exec[r].pc = "start" /\ i = exec[r].item /\ itemRun[i] = r
          /\ itemKind[i] = "provider_generation" /\ BeginItemAttempt(i, a)
    \/ \E a \in Attempt, st \in Terminal :
          /\ a = exec[r].att /\ attItem[a] # NoItem /\ itemRun[attItem[a]] = r
          /\ TerminalizeItemAttempt(a, st)
    \/ \E i \in Item \ Review, a \in Attempt : BeginToolAttempt(r, i, a)
    \/ UNCHANGED storeVars

\* Every step of an executor, and every step of a Stop, is one of these.
LEMMA StepOfFacts ==
    ASSUME ExecInv, NEW r \in Run, ExecStep(r) \/ StopStep(r)
    PROVE  StepOf(r)
<1> USE DEF StepOf
<1>0. HoldsTurn(r) /\ HoldsRows(r)
  BY DEF ExecInv
<1>1. ASSUME BeginRun(r)
      PROVE  StepOf(r)
  BY <1>0, <1>1 DEF BeginRun, At, HoldsTurn
<1>2. ASSUME NEW a \in Attempt, ProviderBegin(r, a)
      PROVE  StepOf(r)
  BY <1>0, <1>2 DEF ProviderBegin, At, HoldsRows, Owns
<1>3. ASSUME NEW outcome \in DOMAIN AttemptEnd, ProviderFinish(r, outcome)
      PROVE  StepOf(r)
  <2>1. AttemptEnd[outcome] \in Terminal
    BY DEF AttemptEnd, Terminal, GeneralTerminal
  <2>2. /\ exec[r].att \in Attempt /\ attItem[exec[r].att] # NoItem
        /\ itemRun[attItem[exec[r].att]] = r
    BY <1>0, <1>3 DEF ProviderFinish, At, HoldsRows, Owns
  <2> QED BY <1>3, <2>1, <2>2 DEF ProviderFinish
<1>4. ASSUME NEW st \in ToolOutcome, ToolFinish(r, st, "work")
      PROVE  StepOf(r)
  <2>1. st \in Terminal
    BY DEF ToolOutcome, Terminal, GeneralTerminal
  <2>2. /\ exec[r].att \in Attempt /\ attItem[exec[r].att] # NoItem
        /\ itemRun[attItem[exec[r].att]] = r
    BY <1>0, <1>4 DEF ToolFinish, At, HoldsRows, Owns, HoldsAttempt
  <2> QED BY <1>4, <2>1, <2>2 DEF ToolFinish
<1>5. ASSUME FailRun(r)
      PROVE  StepOf(r)
  BY <1>0, <1>5 DEF FailRun, At, HoldsRows
<1>6. ASSUME StopStep(r)
      PROVE  StepOf(r)
  BY <1>6 DEF StopStep, RequestCancel, StopTurn, StopRun, GeneralTerminal
<1> QED
  BY <1>1, <1>2, <1>3, <1>4, <1>5, <1>6
  DEF ExecStep, BeginTurn, BeginRunRefused, ScopeUnreadable, Register, ProviderAppend,
      AdmitProviderStart, StepRefused, StepError, RetryDecision, EndPhase, ObserveCancel,
      ProviderFailed, ProjectionRefused, CompleteWorkTurn, CompleteTask, FailTurn

\* Such a step writes only rows of its Run, and leaves nothing open on an ended one.
LEMMA StepOfSettled ==
    ASSUME WorkInv, StoreInv', NEW r \in Run, StepOf(r)
    PROVE  /\ WritesOnly(r)
           /\ NothingWaits' /\ OneTryAtATime' /\ WorkSettled' /\ LiveTaskHasLiveRun'
<1>0. /\ StoreInv /\ AttemptsHaveItems /\ NothingWaits /\ OneTryAtATime /\ WorkSettled
      /\ LiveTaskHasLiveRun /\ TriesOf(r) /\ HoldsRows(r)
  BY DEF WorkInv, ExecInv
<1>k. "provider_generation" \in CanonicalTaskItemKind
  BY DEF CanonicalTaskItemKind
<1>1. WritesOnly(r)
  BY <1>0, <1>k, OperationWritesOnly DEF StepOf
<1>2. NothingWaits' /\ LiveTaskHasLiveRun'
  <2>1. ASSUME NEW i \in Item, AppendGeneralItem(r, i, "provider_generation")
        PROVE  UNCHANGED <<taskStatus, runTask, runStatus, reviewStatus>>
    BY <2>1 DEF AppendGeneralItem, taskVars, runVars, reviewVars
  <2>2. ASSUME NEW i \in Item, NEW a \in Attempt, BeginItemAttempt(i, a) \/ BeginToolAttempt(r, i, a)
        PROVE  UNCHANGED <<taskStatus, runTask, runStatus, reviewStatus>>
    BY <2>2 DEF BeginItemAttempt, BeginToolAttempt, taskVars, runVars, reviewVars
  <2>3. ASSUME NEW a \in Attempt, NEW st \in Terminal, TerminalizeItemAttempt(a, st)
        PROVE  UNCHANGED <<taskStatus, runTask, runStatus, reviewStatus>>
    BY <2>3 DEF TerminalizeItemAttempt, taskVars, runVars, reviewVars
  <2>4. ASSUME UNCHANGED storeVars
        PROVE  UNCHANGED <<taskStatus, runTask, runStatus, reviewStatus>>
    BY <2>4 DEF storeVars
  <2> QED BY <1>0, <2>1, <2>2, <2>3, <2>4, LiveTaskStep DEF StepOf
<1>3. OneTryAtATime' /\ WorkSettled'
  <2>1. ASSUME NEW i \in Item, NEW a \in Attempt, exec[r].pc = "start", i = exec[r].item,
               BeginItemAttempt(i, a)
        PROVE  itemStatus[i] = "waiting"
    BY <1>0, <2>1 DEF TriesOf, BeginItemAttempt
  <2>2. ASSUME NEW i \in Item \ Review, NEW a \in Attempt, BeginToolAttempt(r, i, a),
               NEW b \in Attempt, attStatus[b] = "running"
        PROVE  attItem[b] # i
    <3>1. /\ exec[r].pc = "work"
          /\ itemRun[i] = NoRun \/ (itemRun[i] = r /\ itemKind[i] = "tool_call")
      BY <2>2 DEF BeginToolAttempt, At
    <3>2. attItem[b] # NoItem
      BY <1>0, <2>2 DEF StoreInv, AttemptRowsConsistent
    <3>3. itemRun[attItem[b]] # NoRun
      BY <1>0, <3>2 DEF AttemptsHaveItems
    <3> QED BY <1>0, <2>2, <3>1, <3>3 DEF TriesOf
  <2> QED BY <1>0, <1>k, <2>1, <2>2, SettledStep DEF StepOf
<1> QED BY <1>1, <1>2, <1>3

\* A step of one Run keeps the invariant when it does for that Run.
LEMMA LocalWork ==
    ASSUME WorkInv, ExecInv', Grows, NEW r \in Run, StepOf(r),
           \A q \in Run \ {r} : /\ exec'[q] = exec[q] /\ turn'[q] = turn[q]
                                /\ cancel'[q] = cancel[q] /\ stop'[q] = stop[q],
           UNCHANGED boot, HeldByToken(r)', TriesOf(r)'
    PROVE  WorkInv'
<1>0. StoreInv' /\ StoreInv /\ AttemptsHaveItems
  BY DEF WorkInv, ExecInv
<1>1. /\ WritesOnly(r)
      /\ NothingWaits' /\ OneTryAtATime' /\ WorkSettled' /\ LiveTaskHasLiveRun'
  BY <1>0, StepOfSettled
<1>2. ASSUME NEW q \in Run \ {r}
      PROVE  HeldByToken(q)' /\ TriesOf(q)'
  <2>0. HeldByToken(q) /\ TriesOf(q) /\ HoldsRows(q)
    BY DEF WorkInv, ExecInv
  <2>1. /\ exec'[q] = exec[q] /\ turn'[q] = turn[q] /\ cancel'[q] = cancel[q]
        /\ stop'[q] = stop[q] /\ runStatus'[q] = runStatus[q] /\ runTask'[q] = runTask[q]
    BY <1>1 DEF WritesOnly
  <2>2. HeldByToken(q)'
    BY <2>0, <2>1 DEF HeldByToken
  <2>3. ASSUME NEW a \in Attempt, attStatus'[a] = "running", itemRun'[attItem'[a]] = q,
               itemKind'[attItem'[a]] = "tool_call"
        PROVE  \/ exec'[q].pc = "tool" /\ exec'[q].att = a
               \/ exec'[q].pc \in {"fail", "failTurn", "exit"}
    <3>1. attItem'[a] = attItem[a] /\ attStatus'[a] = attStatus[a]
      BY <1>1, <2>3 DEF WritesOnly
    <3>2. attItem[a] # NoItem
      BY <1>0, <2>3, <3>1 DEF StoreInv, AttemptRowsConsistent
    <3>3. attItem[a] \in Item \ Review /\ itemRun[attItem[a]] # NoRun
      BY <1>0, <3>2 DEF AttemptsHaveItems
    <3>4. itemRun[attItem[a]] = q /\ itemKind[attItem[a]] = "tool_call"
      BY <2>3, <3>1, <3>3 DEF Grows
    <3> QED BY <2>0, <2>1, <2>3, <3>1, <3>4 DEF TriesOf
  <2>4. ASSUME exec'[q].pc = "start"
        PROVE  itemStatus'[exec'[q].item] \in {"waiting", "cancelled"}
    <3>1. exec[q].item \in Item /\ itemRun[exec[q].item] = q
      BY <2>0, <2>1, <2>4 DEF HoldsRows, Owns
    <3>2. itemRun'[exec[q].item] = q
      BY <3>1 DEF Grows
    <3>3. itemStatus'[exec[q].item] = itemStatus[exec[q].item]
      BY <1>1, <3>1, <3>2 DEF WritesOnly
    <3> QED BY <2>0, <2>1, <2>4, <3>3 DEF TriesOf
  <2>5. TriesOf(q)'
    BY <2>3, <2>4 DEF TriesOf
  <2> QED BY <2>2, <2>5
<1> QED BY <1>1, <1>2 DEF WorkInv

\* Where no tool call runs and none is begun, none runs afterwards.
LEMMA QuietTries ==
    ASSUME WorkInv, StoreInv', Grows, NEW r \in Run,
           exec[r].pc \notin {"tool", "fail", "failTurn", "exit"}, exec'[r].pc # "start",
           \A a \in Attempt : attStatus'[a] = "running" =>
              \/ attStatus[a] = "running" /\ attItem'[a] = attItem[a]
              \/ itemKind'[attItem'[a]] # "tool_call"
    PROVE  TriesOf(r)'
<1> SUFFICES ASSUME NEW a \in Attempt, attStatus'[a] = "running", itemRun'[attItem'[a]] = r,
                    itemKind'[attItem'[a]] = "tool_call"
             PROVE  FALSE
  BY DEF TriesOf
<1>1. attStatus[a] = "running" /\ attItem'[a] = attItem[a]
  OBVIOUS
<1>2. StoreInv /\ AttemptsHaveItems /\ TriesOf(r)
  BY DEF WorkInv, ExecInv
<1>3. attItem[a] # NoItem
  BY <1>1, <1>2 DEF StoreInv, AttemptRowsConsistent
<1>4. attItem[a] \in Item \ Review /\ itemRun[attItem[a]] # NoRun
  BY <1>2, <1>3 DEF AttemptsHaveItems
<1>5. itemRun[attItem[a]] = r /\ itemKind[attItem[a]] = "tool_call"
  BY <1>1, <1>4 DEF Grows
<1> QED BY <1>1, <1>2, <1>5 DEF TriesOf

\* A step that leaves the store alone, except for rows no tool call has, and moves the
\* invocation within its work or lets it return or fail, keeps the invariant.
LEMMA QuietWork ==
    ASSUME WorkInv, ExecInv', Grows, NEW r \in Run, StepOf(r), boot = "up",
           NEW pc \in Working \union {"fail", "exit"}, pc # "start", Moves(r, pc),
           exec[r].pc \in Working \union {"called", "turn", "begun"}, exec[r].pc # "tool",
           pc \in Working => exec[r].pc \in Working,
           \A q \in Run \ {r} : turn'[q] = turn[q] /\ cancel'[q] = cancel[q],
           pc # "exit" => UNCHANGED cancel,
           UNCHANGED <<stop, boot>>,
           pc # "exit" => runStatus'[r] = runStatus[r],
           \A a \in Attempt : attStatus'[a] = "running" =>
              \/ attStatus[a] = "running" /\ attItem'[a] = attItem[a]
              \/ itemKind'[attItem'[a]] # "tool_call"
    PROVE  WorkInv'
<1>0. HeldByToken(r) /\ StoreInv' /\ exec'[r].pc = pc /\ \A q \in Run \ {r} : exec'[q] = exec[q]
  BY DEF WorkInv, ExecInv, Moves
<1>1. HeldByToken(r)'
  <2>1. exec[r].pc \notin {"idle", "exit", "fail", "failTurn"}
    BY DEF Working
  <2>2. CASE pc = "exit"
    BY <1>0, <2>2 DEF HeldByToken, Working
  <2>3. CASE pc = "fail"
    BY <1>0, <2>1, <2>3 DEF HeldByToken, Working
  <2>4. CASE pc \in Working
    <3>1. exec[r].pc \in Working /\ exec[r].pc # "exit" /\ UNCHANGED cancel /\ runStatus'[r] = runStatus[r]
      BY <2>1, <2>4 DEF Working
    <3>2. pc \notin {"idle", "called", "turn", "begun", "exit"}
      BY <2>4 DEF Working
    <3> QED BY <1>0, <2>4, <3>1, <3>2 DEF HeldByToken
  <2> QED BY <2>2, <2>3, <2>4
<1>2. TriesOf(r)'
  BY <1>0, QuietTries DEF Working
<1> QED BY <1>0, <1>1, <1>2, LocalWork

\* Every step of an executor keeps the invariant.
LEMMA WorkExecStep ==
    ASSUME WorkInv, NEW r \in Run, ExecStep(r)
    PROVE  WorkInv'
<1>0. ExecInv /\ WorkTypeOK /\ exec \in [Run -> Exec] /\ HoldsTurn(r) /\ HoldsRows(r) /\ HeldByToken(r)
      /\ TriesOf(r) /\ StoreInv
  BY DEF WorkInv, ExecInv, WorkTypeOK
<1>x. exec \in [Run -> Exec] /\ exec[r] \in Exec
  BY <1>0
<1>s. ExecInv' /\ StoreInv' /\ Grows /\ StepOf(r)
  BY <1>0, ExecStepInv, ExecStepStore, StepOfFacts
<1>t. /\ turn \in [Run -> TurnStatus \union {"none"}]
      /\ cancel \in [Run -> {"none", "active", "cancelled", "tombstone"}]
      /\ attStatus \in [Attempt -> CanonicalTaskItemStatus \union {"none"}]
      /\ attItem \in [Attempt -> Item \union {NoItem}]
      /\ itemStatus \in [Item -> CanonicalTaskItemStatus \union {"none"}]
      /\ itemKind \in [Item -> CanonicalTaskItemKind \union {"none"}]
      /\ itemRun \in [Item -> Run \union {NoRun}]
      /\ runStatus \in [Run -> CanonicalTaskStatus \union {"none"}]
  BY <1>0 DEF WorkTypeOK, StoreTypeOK
<1>p. ExecPc = {"idle", "called", "turn", "begun", "work", "start", "admit", "call", "tool",
                "error", "fail", "failTurn", "answer", "replay", "exit",
                "confirm", "submitted", "bind", "wait", "decided", "approved", "granted"}
  BY DEF ExecPc
<1>g. Working = {"work", "start", "admit", "call", "tool", "error", "answer"}
  BY DEF Working
<1>f. GeneralTerminal = {"blocked", "failed", "cancelled", "interrupted", "effect_unknown"}
  BY DEF GeneralTerminal
<1>u. UNCHANGED storeVars => /\ runStatus'[r] = runStatus[r]
                             /\ \A a \in Attempt : attStatus'[a] = attStatus[a] /\ attItem'[a] = attItem[a]
  BY DEF storeVars
\* The returns, the failures and the moves that leave the store alone.
<1>m. ASSUME NEW pc \in {"work", "call", "error", "answer"}, Moves(r, pc), boot = "up",
             UNCHANGED <<storeVars, cancel, stop, boot>>,
             exec[r].pc \in Working, exec[r].pc # "tool",
             \A q \in Run \ {r} : turn'[q] = turn[q]
      PROVE  WorkInv'
  BY <1>g, <1>m, <1>s, <1>u, QuietWork
<1>l. ASSUME Return(r), boot = "up", UNCHANGED <<stop, boot>>,
             \A q \in Run \ {r} : turn'[q] = turn[q]
      PROVE  WorkInv'
  <2>1. Moves(r, "exit") /\ \A q \in Run \ {r} : cancel'[q] = cancel[q]
    BY <1>0, <1>l, ReturnFacts
  <2>2. exec'[r].pc = "exit" /\ \A q \in Run \ {r} : exec'[q] = exec[q]
    BY <2>1 DEF Moves
  <2>3. HeldByToken(r)' /\ TriesOf(r)'
    BY <1>l, <2>2 DEF HeldByToken, TriesOf, Working
  <2> QED BY <1>l, <1>s, <2>1, <2>2, <2>3, LocalWork
<1>e. ASSUME NEW st \in GeneralTerminal, GoFail(r, st), boot = "up",
             UNCHANGED <<turn, cancel, stop, boot>>, exec[r].pc # "exit"
      PROVE  WorkInv'
  <2>1. Moves(r, "fail")
    BY <1>0, <1>e, <1>p, DropFacts DEF GoFail
  <2>2. exec'[r].pc = "fail" /\ \A q \in Run \ {r} : exec'[q] = exec[q]
    BY <2>1 DEF Moves
  <2>3. HeldByToken(r)' /\ TriesOf(r)'
    BY <1>0, <1>e, <2>2 DEF HeldByToken, TriesOf, Working
  <2> QED BY <1>e, <1>s, <2>2, <2>3, LocalWork
<1>1. ASSUME BeginTurn(r)
      PROVE  WorkInv'
  <2>0. /\ exec[r].pc = "called" /\ turn[r] = "none" /\ boot = "up" /\ UNCHANGED <<storeVars, stop, boot>>
    BY <1>0, <1>1 DEF BeginTurn, At, HeldByToken
  <2>1. CASE turn' = [turn EXCEPT ![r] = "running"] /\ Goto(r, "turn") /\ UNCHANGED cancel
    <3>1. exec'[r].pc = "turn" /\ \A q \in Run \ {r} : exec'[q] = exec[q]
      BY <1>0, <1>p, <2>1, GotoFacts DEF Moves
    <3>2. HeldByToken(r)'
      BY <1>0, <2>0, <2>1, <3>1 DEF HeldByToken, Working, storeVars
    <3>3. TriesOf(r)'
      BY <1>s, <1>u, <2>0, <3>1, QuietTries
    <3> QED BY <1>s, <1>t, <2>0, <2>1, <3>1, <3>2, <3>3, LocalWork
  <2>2. CASE Return(r) /\ UNCHANGED turn
    BY <1>l, <2>0, <2>2
  <2> QED BY <1>1, <2>0, <2>1, <2>2 DEF BeginTurn
<1>2. ASSUME BeginRun(r)
      PROVE  WorkInv'
  <2>0. /\ exec[r].pc = "turn" /\ runTask[r] = NoTask /\ boot = "up" /\ Goto(r, "begun")
        /\ UNCHANGED <<turn, cancel, stop, boot>>
    BY <1>0, <1>2 DEF BeginRun, At, HeldByToken
  <2>1. BeginGeneralTaskRun(exec[r].task, r)
    BY <1>2, <2>0 DEF BeginRun
  <2>2. exec'[r].pc = "begun" /\ \A q \in Run \ {r} : exec'[q] = exec[q]
    BY <1>0, <1>p, <2>0, GotoFacts DEF Moves
  <2>3. runStatus'[r] = "running" /\ UNCHANGED <<attStatus, attItem>>
    BY <1>t, <2>1 DEF BeginGeneralTaskRun, attVars
  <2>4. HeldByToken(r)'
    BY <1>0, <2>0, <2>2, <2>3 DEF HeldByToken, Working
  <2>5. TriesOf(r)'
    BY <1>s, <2>0, <2>2, <2>3, QuietTries
  <2> QED BY <1>s, <2>0, <2>2, <2>4, <2>5, LocalWork
<1>3. ASSUME BeginRunRefused(r) \/ ProjectionRefused(r)
      PROVE  WorkInv'
  BY <1>3, <1>l DEF BeginRunRefused, ProjectionRefused, At
<1>4. ASSUME ScopeUnreadable(r) \/ ObserveCancel(r)
      PROVE  WorkInv'
  BY <1>4, <1>e, <1>f DEF ScopeUnreadable, ObserveCancel, At
<1>5. ASSUME Register(r)
      PROVE  WorkInv'
  <2>0. /\ exec[r].pc = "begun" /\ boot = "up" /\ Goto(r, "work")
        /\ cancel' = [cancel EXCEPT ![r] = IF @ = "tombstone" THEN "cancelled" ELSE "active"]
        /\ UNCHANGED <<storeVars, turn, stop, boot>>
    BY <1>5 DEF Register, At
  <2>1. exec'[r].pc = "work" /\ \A q \in Run \ {r} : exec'[q] = exec[q]
    BY <1>0, <1>p, <2>0, GotoFacts DEF Moves
  <2>2. /\ cancel'[r] = (IF cancel[r] = "tombstone" THEN "cancelled" ELSE "active")
        /\ \A q \in Run \ {r} : cancel'[q] = cancel[q]
    BY <1>t, <2>0
  <2>3. HeldByToken(r)'
    BY <1>0, <1>u, <2>0, <2>1, <2>2 DEF HeldByToken, Working
  <2>4. TriesOf(r)'
    BY <1>s, <1>u, <2>0, <2>1, QuietTries
  <2> QED BY <1>s, <2>0, <2>1, <2>2, <2>3, <2>4, LocalWork
<1>6. ASSUME NEW i \in Item \ Review, ProviderAppend(r, i)
      PROVE  WorkInv'
  <2>1. /\ exec[r].pc = "work" /\ boot = "up" /\ UNCHANGED <<turn, cancel, stop, boot, runStatus, attItem, attStatus>>
        /\ exec' = [exec EXCEPT ![r].pc = "start", ![r].item = i]
        /\ itemStatus' = [itemStatus EXCEPT ![i] = "waiting"]
    BY <1>6 DEF ProviderAppend, At, AppendGeneralItem, runVars, attVars
  <2>2. exec'[r].pc = "start" /\ exec'[r].item = i /\ \A q \in Run \ {r} : exec'[q] = exec[q]
    BY <1>0, <1>p, <2>1 DEF Exec
  <2>3. HeldByToken(r)'
    BY <1>0, <2>1, <2>2 DEF HeldByToken, Working
  <2>4. ASSUME NEW a \in Attempt, attStatus'[a] = "running", itemRun'[attItem'[a]] = r,
               itemKind'[attItem'[a]] = "tool_call"
        PROVE  FALSE
    <3>1. attItem[a] # NoItem
      BY <1>0, <2>1, <2>4 DEF StoreInv, AttemptRowsConsistent
    <3>2. attItem[a] \in Item \ Review /\ itemRun[attItem[a]] # NoRun
      BY <1>0, <3>1 DEF ExecInv, AttemptsHaveItems
    <3>3. itemRun[attItem[a]] = r /\ itemKind[attItem[a]] = "tool_call"
      BY <1>s, <2>1, <2>4, <3>2 DEF Grows
    <3> QED BY <1>0, <2>1, <2>4, <3>3 DEF TriesOf
  <2>5. TriesOf(r)'
    BY <1>t, <2>1, <2>2, <2>4 DEF TriesOf
  <2> QED BY <1>s, <2>1, <2>2, <2>3, <2>5, LocalWork
<1>7. ASSUME NEW a \in Attempt, ProviderBegin(r, a)
      PROVE  WorkInv'
  <2>0. /\ exec[r].pc = "start" /\ boot = "up" /\ UNCHANGED <<turn, cancel, stop, boot>>
        /\ Owns(r, exec[r].item, "provider_generation")
    BY <1>0, <1>7 DEF ProviderBegin, At, HoldsRows
  <2>1. CASE Goto(r, "error") /\ UNCHANGED storeVars
    <3>1. Moves(r, "error")
      BY <1>0, <1>p, <2>1, GotoFacts
    <3> QED BY <1>g, <1>m, <2>0, <2>1, <3>1
  <2>2. CASE BeginItemAttempt(exec[r].item, a)
             /\ exec' = [exec EXCEPT ![r].pc = "admit", ![r].att = a]
    <3>1. Moves(r, "admit")
      BY <1>x, <1>p, <2>2 DEF Moves, Exec
    <3>2. /\ UNCHANGED <<itemKind, runStatus>>
          /\ attItem' = [attItem EXCEPT ![a] = exec[r].item]
          /\ attStatus' = [attStatus EXCEPT ![a] = "running"]
      BY <2>2 DEF BeginItemAttempt, runVars
    <3>3. \A b \in Attempt : attStatus'[b] = "running" =>
             \/ attStatus[b] = "running" /\ attItem'[b] = attItem[b]
             \/ itemKind'[attItem'[b]] # "tool_call"
      BY <1>t, <2>0, <3>2 DEF Owns
    <3> QED BY <1>g, <1>s, <2>0, <3>1, <3>2, <3>3, QuietWork
  <2> QED BY <1>7, <2>1, <2>2 DEF ProviderBegin
<1>8. ASSUME AdmitProviderStart(r)
      PROVE  WorkInv'
  <2>0. /\ exec[r].pc = "admit" /\ boot = "up" /\ UNCHANGED <<storeVars, turn, cancel, stop, boot>>
    BY <1>8 DEF AdmitProviderStart, At
  <2>1. CASE Goto(r, "error")
    <3>1. Moves(r, "error")
      BY <1>0, <1>p, <2>1, GotoFacts
    <3> QED BY <1>g, <1>m, <2>0, <3>1
  <2>2. CASE exec' = [exec EXCEPT ![r].pc = "call", ![r].provider = "started"]
    <3>1. Moves(r, "call")
      BY <1>x, <1>p, <2>2 DEF Moves, Exec, ProviderState
    <3> QED BY <1>g, <1>m, <2>0, <3>1
  <2> QED BY <1>8, <2>1, <2>2 DEF AdmitProviderStart
<1>9. ASSUME NEW outcome \in DOMAIN AttemptEnd, ProviderFinish(r, outcome)
      PROVE  WorkInv'
  <2>0. /\ exec[r].pc = "call" /\ boot = "up" /\ UNCHANGED <<turn, cancel, stop, boot>>
    BY <1>9 DEF ProviderFinish, At
  <2>1. PICK pc \in {"work", "error"} : Moves(r, pc)
    <3>1. outcome \in ProviderState
      BY DEF AttemptEnd, ProviderState
    <3>2. PICK pc \in {"work", "error"}, b \in BOOLEAN :
             exec' = [exec EXCEPT ![r].pc = pc, ![r].provider = outcome, ![r].lifecycleError = b,
                                  ![r].item = NoItem, ![r].att = NoAttempt]
      BY <1>9, Zenon DEF ProviderFinish
    <3> QED BY <1>x, <1>p, <3>1, <3>2 DEF Moves, Exec
  <2>2. CASE UNCHANGED storeVars
    BY <1>g, <1>m, <2>0, <2>1, <2>2
  <2>3. CASE TerminalizeItemAttempt(exec[r].att, AttemptEnd[outcome])
    <3>1. AttemptEnd[outcome] # "running"
      BY DEF AttemptEnd
    <3>2. UNCHANGED <<runStatus, attItem>>
          /\ attStatus' = [attStatus EXCEPT ![exec[r].att] = AttemptEnd[outcome]]
      BY <2>3 DEF TerminalizeItemAttempt, runVars
    <3>3. \A b \in Attempt : attStatus'[b] = "running" => attStatus[b] = "running" /\ attItem'[b] = attItem[b]
      BY <1>t, <3>1, <3>2
    <3> QED BY <1>g, <1>s, <2>0, <2>1, <3>2, <3>3, QuietWork
  <2> QED BY <1>9, <2>2, <2>3 DEF ProviderFinish
<1>10. ASSUME NEW i \in Item \ Review, NEW a \in Attempt, BeginToolAttempt(r, i, a)
       PROVE  WorkInv'
  <2>1. /\ exec[r].pc = "work" /\ boot = "up" /\ attItem[a] = NoItem
        /\ UNCHANGED <<turn, cancel, stop, boot, runStatus>>
        /\ exec' = [exec EXCEPT ![r].pc = "tool", ![r].item = i, ![r].att = a]
        /\ attItem' = [attItem EXCEPT ![a] = i]
        /\ attStatus' = [attStatus EXCEPT ![a] = "running"]
    BY <1>10 DEF BeginToolAttempt, At, runVars
  <2>2. exec'[r].pc = "tool" /\ exec'[r].att = a /\ \A q \in Run \ {r} : exec'[q] = exec[q]
    BY <1>0, <1>p, <2>1 DEF Exec
  <2>3. HeldByToken(r)'
    BY <1>0, <2>1, <2>2 DEF HeldByToken, Working
  <2>4. ASSUME NEW b \in Attempt, b # a, attStatus'[b] = "running", itemRun'[attItem'[b]] = r,
               itemKind'[attItem'[b]] = "tool_call"
        PROVE  FALSE
    <3>1. attStatus[b] = "running" /\ attItem'[b] = attItem[b]
      BY <1>t, <2>1, <2>4
    <3>2. attItem[b] # NoItem
      BY <1>0, <3>1 DEF StoreInv, AttemptRowsConsistent
    <3>3. attItem[b] \in Item \ Review /\ itemRun[attItem[b]] # NoRun
      BY <1>0, <3>2 DEF ExecInv, AttemptsHaveItems
    <3>4. itemRun[attItem[b]] = r /\ itemKind[attItem[b]] = "tool_call"
      BY <1>s, <2>4, <3>1, <3>3 DEF Grows
    <3> QED BY <1>0, <2>1, <3>1, <3>4 DEF TriesOf
  <2>5. TriesOf(r)'
    BY <2>2, <2>4 DEF TriesOf
  <2> QED BY <1>s, <2>1, <2>2, <2>3, <2>5, LocalWork
<1>11. ASSUME NEW st \in ToolOutcome, ToolFinish(r, st, "work")
       PROVE  WorkInv'
  <2>0. /\ exec[r].pc = "tool" /\ boot = "up" /\ UNCHANGED <<turn, cancel, stop, boot>>
        /\ exec[r].att \in Attempt
    BY <1>0, <1>11 DEF ToolFinish, At, HeldByToken, Working, HoldsRows, HoldsAttempt
  <2>1. exec'[r].pc = "work" /\ \A q \in Run \ {r} : exec'[q] = exec[q]
    BY <1>0, <1>11 DEF ToolFinish, Exec
  <2>2. /\ attStatus'[exec[r].att] # "running" /\ UNCHANGED <<attItem, runStatus, itemRun, itemKind>>
        /\ \A b \in Attempt \ {exec[r].att} : attStatus'[b] = attStatus[b]
    <3>1. st # "running"
      BY DEF ToolOutcome
    <3>2. CASE TerminalizeItemAttempt(exec[r].att, st)
      BY <1>t, <2>0, <3>1, <3>2 DEF TerminalizeItemAttempt, runVars
    <3>3. CASE attStatus[exec[r].att] # "running" /\ UNCHANGED storeVars
      BY <3>3 DEF storeVars
    <3> QED BY <1>11, <3>2, <3>3 DEF ToolFinish
  <2>3. HeldByToken(r)'
    BY <1>0, <2>0, <2>1, <2>2 DEF HeldByToken, Working
  <2>4. TriesOf(r)'
    BY <1>0, <2>0, <2>1, <2>2 DEF TriesOf
  <2> QED BY <1>s, <2>0, <2>1, <2>3, <2>4, LocalWork
<1>12. ASSUME StepRefused(r) \/ RetryDecision(r)
       PROVE  WorkInv'
  <2>1. PICK pc \in {"work", "error"} : Goto(r, pc)
    BY <1>12 DEF StepRefused, RetryDecision
  <2>2. Moves(r, pc)
    BY <1>0, <1>p, <2>1, GotoFacts
  <2> QED BY <1>12, <1>g, <1>m, <2>2 DEF StepRefused, RetryDecision, At
<1>13. ASSUME StepError(r)
       PROVE  WorkInv'
  <2>0. exec[r].pc = "error" /\ boot = "up" /\ UNCHANGED <<storeVars, turn, stop, boot>>
    BY <1>13 DEF StepError, At
  <2>1. CASE Goto(r, "work") /\ UNCHANGED cancel
    <3>1. Moves(r, "work")
      BY <1>0, <1>p, <2>1, GotoFacts
    <3> QED BY <1>g, <1>m, <2>0, <2>1, <3>1
  <2>2. CASE Return(r)
    BY <1>l, <2>0, <2>2
  <2>3. ASSUME NEW st \in GeneralTerminal, GoFail(r, st), UNCHANGED cancel
        PROVE  WorkInv'
    BY <1>e, <2>0, <2>3
  <2>4. FailureStatus(exec[r].provider, "blocked") \in GeneralTerminal
    BY <1>0, FailureStatusType DEF Exec
  <2> QED BY <1>13, <1>f, <2>1, <2>2, <2>3, <2>4 DEF StepError
<1>14. ASSUME EndPhase(r)
       PROVE  WorkInv'
  <2>0. exec[r].pc = "work" /\ boot = "up" /\ UNCHANGED <<storeVars, turn, cancel, stop, boot>>
    BY <1>14 DEF EndPhase, At
  <2>1. ASSUME NEW ph \in Phase, exec' = [exec EXCEPT ![r].phase = ph]
        PROVE  WorkInv'
    <3>1. Moves(r, "work")
      BY <1>0, <1>p, <2>0, <2>1 DEF Moves, Exec
    <3> QED BY <1>g, <1>m, <2>0, <3>1
  <2>2. ASSUME NEW st \in GeneralTerminal, GoFail(r, st)
        PROVE  WorkInv'
    BY <1>e, <2>0, <2>2
  <2>3. {"planning", "kernel", "post"} \subseteq Phase
    BY DEF Phase
  <2> QED BY <1>14, <1>f, <2>1, <2>2, <2>3 DEF EndPhase
<1>15. ASSUME ProviderFailed(r)
       PROVE  WorkInv'
  <2>0. exec[r].pc = "work" /\ boot = "up" /\ UNCHANGED <<turn, cancel, stop, boot>>
    BY <1>15 DEF ProviderFailed, At
  <2>1. FailureStatus(exec[r].provider, "failed") \in GeneralTerminal
    BY <1>0, FailureStatusType DEF Exec
  <2> QED BY <1>15, <1>e, <1>f, <2>0, <2>1 DEF ProviderFailed
<1>16. ASSUME CompleteWorkTurn(r)
       PROVE  WorkInv'
  <2>0. exec[r].pc = "work" /\ boot = "up" /\ UNCHANGED <<storeVars, stop, boot>>
    BY <1>16 DEF CompleteWorkTurn, At
  <2>1. CASE turn' = [turn EXCEPT ![r] = "completed"] /\ Goto(r, "answer") /\ UNCHANGED cancel
    <3>1. Moves(r, "answer")
      BY <1>0, <1>p, <2>1, GotoFacts
    <3> QED BY <1>g, <1>m, <1>t, <2>0, <2>1, <3>1
  <2>2. CASE Return(r) /\ UNCHANGED turn
    BY <1>l, <2>0, <2>2
  <2> QED BY <1>16, <2>1, <2>2 DEF CompleteWorkTurn
<1>17. ASSUME CompleteTask(r)
       PROVE  WorkInv'
  BY <1>17, <1>l DEF CompleteTask, At
<1>18. ASSUME FailRun(r)
       PROVE  WorkInv'
  <2>0. exec[r].pc = "fail" /\ boot = "up" /\ UNCHANGED <<turn, stop, boot>>
    BY <1>18 DEF FailRun, At
  <2>1. CASE Goto(r, "failTurn") /\ UNCHANGED cancel
    <3>1. exec'[r].pc = "failTurn" /\ \A q \in Run \ {r} : exec'[q] = exec[q]
      BY <1>0, <1>p, <2>1, GotoFacts DEF Moves
    <3>2. HeldByToken(r)' /\ TriesOf(r)'
      BY <1>0, <2>0, <2>1, <3>1 DEF HeldByToken, TriesOf, Working
    <3> QED BY <1>s, <2>0, <2>1, <3>1, <3>2, LocalWork
  <2>2. CASE Return(r)
    BY <1>l, <2>0, <2>2
  <2> QED BY <1>18, <2>1, <2>2 DEF FailRun
<1>19. ASSUME FailTurn(r)
       PROVE  WorkInv'
  <2>1. boot = "up" /\ Return(r) /\ UNCHANGED <<stop, boot>> /\ \A q \in Run \ {r} : turn'[q] = turn[q]
    BY <1>19, <1>t DEF FailTurn, At
  <2> QED BY <1>l, <2>1
<1> QED
  BY <1>1, <1>2, <1>3, <1>4, <1>5, <1>6, <1>7, <1>8, <1>9, <1>10, <1>11, <1>12, <1>13, <1>14,
     <1>15, <1>16, <1>17, <1>18, <1>19 DEF ExecStep

\* Stop keeps the invariant: it reaches the registry before it ends the Run.
LEMMA WorkStopStep ==
    ASSUME WorkInv, NEW r \in Run, StopStep(r) \/ RequestStop(r)
    PROVE  WorkInv'
<1>0. ExecInv /\ WorkTypeOK /\ HoldsRows(r) /\ HeldByToken(r) /\ TriesOf(r) /\ StoreInv
      /\ AttemptsHaveItems
  BY DEF WorkInv, ExecInv
<1>1. ExecInv' /\ UNCHANGED <<exec, boot>> /\ StepOf(r)
  BY <1>0, StopStepInv, StepOfFacts
  DEF StopStep, RequestStop, RequestCancel, StopTurn, StopRun, StepOf
<1>2. [StoreNext]_storeVars
  BY DEF StopStep, RequestStop, RequestCancel, StopTurn, StopRun, StoreNext, GeneralTerminal
<1>3. Grows
  BY <1>0, <1>2, StoreGrows
<1>4. /\ turn \in [Run -> TurnStatus \union {"none"}]
      /\ cancel \in [Run -> {"none", "active", "cancelled", "tombstone"}]
      /\ stop \in [Run -> {"idle", "readRunning", "readEnded", "turn", "run"}]
      /\ runStatus \in [Run -> CanonicalTaskStatus \union {"none"}]
      /\ itemRun \in [Item -> Run \union {NoRun}]
  BY <1>0 DEF WorkTypeOK, StoreTypeOK
<1>5. \A q \in Run \ {r} : turn'[q] = turn[q] /\ cancel'[q] = cancel[q] /\ stop'[q] = stop[q]
  BY <1>4 DEF StopStep, RequestStop, RequestCancel, StopTurn, StopRun
<1> SUFFICES HeldByToken(r)' /\ TriesOf(r)'
  BY <1>1, <1>3, <1>5, LocalWork
<1>6. ASSUME UNCHANGED storeVars
      PROVE  TriesOf(r)'
  BY <1>0, <1>1, <1>6 DEF TriesOf, storeVars
<1>7. CASE RequestStop(r)
  <2>1. UNCHANGED storeVars /\ boot = "up" /\ stop'[r] \in {"readRunning", "readEnded"}
        /\ UNCHANGED <<turn, cancel>>
    BY <1>4, <1>7 DEF RequestStop
  <2>2. HeldByToken(r)'
    BY <1>0, <1>1, <2>1 DEF HeldByToken, storeVars
  <2> QED BY <1>6, <2>1, <2>2
<1>8. CASE RequestCancel(r)
  <2>1. UNCHANGED <<storeVars, turn>> /\ boot = "up" /\ stop'[r] \in {"turn", "run"}
        /\ cancel'[r] = IF cancel[r] \in {"active", "cancelled"} THEN "cancelled" ELSE "tombstone"
    BY <1>4, <1>8 DEF RequestCancel, Registered
  <2>2. HeldByToken(r)'
    BY <1>0, <1>1, <2>1 DEF HeldByToken, storeVars
  <2> QED BY <1>6, <2>1, <2>2
<1>9. CASE StopTurn(r)
  <2>1. /\ UNCHANGED <<storeVars, cancel>> /\ boot = "up" /\ stop[r] = "turn"
        /\ turn[r] = "none" => turn'[r] = "none"
    BY <1>4, <1>9 DEF StopTurn
  <2>2. HeldByToken(r)'
    BY <1>0, <1>1, <2>1 DEF HeldByToken, storeVars
  <2> QED BY <1>6, <2>1, <2>2
<1>10. CASE StopRun(r)
  <2>1. UNCHANGED <<turn, cancel, runTask>> /\ boot = "up" /\ stop[r] = "run" /\ stop'[r] = "idle"
    BY <1>4, <1>10 DEF StopRun, TerminalizeGeneralRun, storeVars
  <2>2. HeldByToken(r)'
    <3>1. cancel[r] \in {"cancelled", "tombstone"} \/ exec[r].pc = "exit"
      BY <1>0, <2>1 DEF HeldByToken
    <3> QED BY <1>0, <1>1, <2>1, <3>1 DEF HeldByToken, Working
  <2>3. CASE TerminalizeGeneralRun(r, "cancelled")
    <3>1. /\ UNCHANGED <<itemRun, itemKind, attItem>>
          /\ \A i \in Item : itemStatus'[i] \in {itemStatus[i], "cancelled"}
          /\ \A a \in Attempt : attStatus'[a] \in {attStatus[a], "cancelled"}
      BY <2>3 DEF TerminalizeGeneralRun, CloseWorkOf
    <3>2. exec[r].pc = "start" => exec[r].item \in Item
      BY <1>0 DEF HoldsRows, Owns
    <3> QED BY <1>0, <1>1, <2>2, <3>1, <3>2 DEF TriesOf
  <2> QED BY <1>6, <1>10, <2>2, <2>3 DEF StopRun
<1> QED BY <1>7, <1>8, <1>9, <1>10 DEF StopStep

\* A new or restarted invocation keeps the invariant.
LEMMA WorkUserStep ==
    ASSUME WorkInv, UserStep
    PROVE  WorkInv'
<1>0. ExecInv /\ WorkTypeOK /\ StoreInv
  BY DEF WorkInv, ExecInv
<1>1. ExecInv'
  BY <1>0, RequestInv
<1>2. ASSUME NEW t \in Task, NEW q \in Run, NEW r \in Run, StartWork(t, r) \/ RestartWork(t, q, r)
      PROVE  WorkInv'
  <2>1. /\ exec[r].pc = "idle" /\ boot = "up" /\ Call(r, t)
        /\ UNCHANGED <<storeVars, turn, cancel, stop, boot>>
    BY <1>2 DEF StartWork, RestartWork, At
  <2>2. exec'[r].pc = "called" /\ \A z \in Run \ {r} : exec'[z] = exec[z]
    BY <1>0, <2>1, CallFacts DEF WorkTypeOK
  <2>3. HeldByToken(r) /\ TriesOf(r)
    BY DEF WorkInv
  <2>4. HeldByToken(r)' /\ TriesOf(r)'
    BY <2>1, <2>2, <2>3 DEF HeldByToken, TriesOf, storeVars, Working
  <2>5. Grows
    BY <1>0, <2>1, StoreGrows
  <2>6. StepOf(r)
    BY <2>1 DEF StepOf
  <2> QED BY <1>1, <2>1, <2>2, <2>4, <2>5, <2>6, LocalWork
<1> QED BY <1>2, WorkStopStep DEF UserStep

\* A crash keeps the invariant.
LEMMA WorkCrash ==
    ASSUME WorkInv, Crash
    PROVE  WorkInv'
<1>0. ExecInv /\ WorkTypeOK
  BY DEF WorkInv, ExecInv
<1>1. ExecInv'
  BY <1>0, CrashInv
<1>2. /\ UNCHANGED <<storeVars, turn>>
      /\ \A r \in Run : cancel'[r] = "none" /\ stop'[r] = "idle"
  BY DEF Crash
<1>3. \A r \in Run : exec'[r].pc = IF exec[r].pc = "idle" THEN "idle" ELSE "exit"
  BY <1>0, CrashFacts
<1>4. NothingWaits' /\ OneTryAtATime' /\ WorkSettled' /\ LiveTaskHasLiveRun'
  BY <1>2 DEF WorkInv, storeVars, NothingWaits, OneTryAtATime, WorkSettled,
              LiveTaskHasLiveRun, RunsOf, ItemsOf, AttemptsOf
<1>5. \A r \in Run : HeldByToken(r)' /\ TriesOf(r)'
  BY <1>2, <1>3 DEF WorkInv, HeldByToken, TriesOf, storeVars, Working
<1> QED BY <1>1, <1>4, <1>5 DEF WorkInv

\* Startup recovery keeps the invariant: it comes before any executor.
LEMMA WorkBoot ==
    ASSUME WorkInv, BootStep
    PROVE  WorkInv'
<1>0. /\ ExecInv /\ WorkTypeOK /\ StoreInv /\ AttemptsHaveItems /\ NothingWaits /\ OneTryAtATime
      /\ WorkSettled /\ LiveTaskHasLiveRun
  BY DEF WorkInv, ExecInv
<1>1. ExecInv' /\ StoreInv'
  BY <1>0, BootStepInv DEF ExecInv
<1>2. UNCHANGED <<exec, cancel, stop, runTask, itemRun, itemKind, attItem>> /\ boot # "up"
  BY DEF BootStep, BootTurns, BootRuns, RecoverInterruptedGeneralRuns, CloseWorkOf, storeVars
<1>3. \A r \in Run : turn[r] = "none" => turn'[r] = "none"
  BY DEF BootStep, BootTurns, BootRuns
<1>4. NothingWaits' /\ LiveTaskHasLiveRun'
  BY <1>0, <1>1, LiveTaskStep DEF BootStep, BootTurns, BootRuns, storeVars
<1>5. OneTryAtATime' /\ WorkSettled'
  BY <1>0, <1>1, SettledStep DEF BootStep, BootTurns, BootRuns
<1>6. \A a \in Attempt : attStatus'[a] = "running" => attStatus[a] = "running"
  BY DEF BootStep, BootTurns, BootRuns, RecoverInterruptedGeneralRuns, CloseWorkOf, storeVars
<1>7. ASSUME NEW r \in Run
      PROVE  HeldByToken(r)' /\ TriesOf(r)'
  <2>1. HeldByToken(r) /\ TriesOf(r) /\ exec[r].pc \in {"idle", "exit"} /\ stop[r] = "idle"
    BY <1>2 DEF WorkInv, HeldByToken
  <2>2. HeldByToken(r)'
    BY <1>2, <1>3, <2>1 DEF HeldByToken, Working
  <2>3. TriesOf(r)'
    BY <1>2, <1>6, <2>1 DEF TriesOf
  <2> QED BY <2>2, <2>3
<1> QED BY <1>1, <1>4, <1>5, <1>7 DEF WorkInv

\* Nothing has happened yet: the invariant holds.
LEMMA WorkInvInit == WorkInit => WorkInv
<1> SUFFICES ASSUME WorkInit
             PROVE  WorkInv
  OBVIOUS
<1>1. ExecInv /\ StoreInit
  BY ExecInvInit DEF WorkInit
<1>2. NothingWaits /\ OneTryAtATime /\ WorkSettled /\ LiveTaskHasLiveRun
  BY <1>1 DEF StoreInit, NothingWaits, OneTryAtATime, WorkSettled, LiveTaskHasLiveRun, Terminal,
              GeneralTerminal
<1>3. \A r \in Run : HeldByToken(r) /\ TriesOf(r)
  BY <1>1 DEF WorkInit, StoreInit, HeldByToken, TriesOf, NotStarted, Working
<1> QED BY <1>1, <1>2, <1>3 DEF WorkInv

\* Every step of the Work runtime keeps the invariant.
LEMMA WorkInvStep == WorkInv /\ [WorkNext]_allVars => WorkInv'
<1> SUFFICES ASSUME WorkInv, [WorkNext]_allVars
             PROVE  WorkInv'
  OBVIOUS
<1>1. CASE UNCHANGED allVars
  <2>1. ExecInv'
    BY <1>1, ExecInvStep DEF WorkInv
  <2> QED BY <1>1, <2>1
    DEF WorkInv, allVars, storeVars, workVars, NothingWaits, OneTryAtATime, WorkSettled,
        LiveTaskHasLiveRun, RunsOf, ItemsOf, AttemptsOf, HeldByToken, TriesOf
<1> QED
  BY <1>1, WorkUserStep, WorkExecStep, WorkStopStep, WorkCrash, WorkBoot DEF WorkNext

\* The inductive invariant holds in every reachable state of the Work runtime.
THEOREM WorkInvariant == WorkSpec => []WorkInv
BY WorkInvInit, WorkInvStep, PTL DEF WorkSpec

\* Without the Steering command no Item is an instruction.
NoSteeringItems == \A i \in Item : itemKind[i] # "steering"

\* No step of the Work runtime appends one.
LEMMA NoSteeringStep ==
    ASSUME ExecInv, NoSteeringItems, [WorkNext]_allVars
    PROVE  NoSteeringItems'
<1>0. itemKind \in [Item -> CanonicalTaskItemKind \union {"none"}]
  BY DEF ExecInv, StoreInv, StoreTypeOK
<1>1. CASE UNCHANGED itemKind
  BY <1>1 DEF NoSteeringItems
<1>2. ASSUME NEW r \in Run, ExecStep(r) \/ StopStep(r)
      PROVE  NoSteeringItems'
  <2>1. \/ UNCHANGED itemKind
        \/ \E i \in Item, kind \in {"provider_generation", "tool_call"} :
              itemKind' = [itemKind EXCEPT ![i] = kind]
    BY <1>2, StepOfFacts
    DEF StepOf, BeginGeneralTaskRun, TerminalizeGeneralRun, CloseWorkOf, CompleteGeneralTask,
        AppendGeneralItem, BeginItemAttempt, TerminalizeItemAttempt, BeginToolAttempt, itemVars, storeVars
  <2> QED BY <1>0, <2>1 DEF NoSteeringItems
<1>3. UserStep \/ Crash \/ BootStep \/ UNCHANGED allVars => UNCHANGED itemKind
  BY DEF UserStep, StartWork, RestartWork, RequestStop, Crash, BootStep, BootTurns, BootRuns,
      RecoverInterruptedGeneralRuns, CloseWorkOf, allVars, storeVars
<1> QED BY <1>1, <1>2, <1>3 DEF WorkNext

\* A Run that ended left no Attempt running and no Item open, although begin_item_attempt
\* does not look at the Run and its executor works on while a Stop ends it.
THEOREM SettledCorrect == WorkSpec => []EndedRunIsSettled
<1>1. WorkInit => NoSteeringItems
  BY DEF WorkInit, StoreInit, NoSteeringItems
<1>2. ExecInv /\ NoSteeringItems /\ [WorkNext]_allVars => NoSteeringItems'
  BY NoSteeringStep
<1>3. WorkInv /\ NoSteeringItems => EndedRunIsSettled
  BY DEF WorkInv, WorkSettled, NoSteeringItems, EndedRunIsSettled, AttemptsOf, ItemsOf
<1> QED BY <1>1, <1>2, <1>3, ExecInvariant, WorkInvariant, PTL DEF WorkSpec

\* A Task shown as running has a Run that runs, whoever ended which of its Runs last.
THEOREM LiveTaskCorrect == WorkSpec => []LiveTaskHasLiveRun
BY WorkInvariant, PTL DEF WorkInv

\* Only admit_provider_start lets an adapter run.
LEMMA CallsAreAdmitted ==
    ASSUME WorkTypeOK, NEW r \in Run, ExecStep(r), ~AdmitProviderStart(r)
    PROVE  exec'[r].pc # "call" /\ \A q \in Run \ {r} : exec'[q] = exec[q]
<1>0. exec \in [Run -> Exec] /\ exec[r] \in Exec
  BY DEF WorkTypeOK
<1> DEFINE Good == exec'[r].pc # "call" /\ \A q \in Run \ {r} : exec'[q] = exec[q]
<1>1. ASSUME NEW pc, pc # "call", Goto(r, pc)
      PROVE  Good
  BY <1>0, <1>1 DEF Goto, Exec
<1>2. ASSUME NEW pc, NEW st, pc # "call", Drop(r, pc, st)
      PROVE  Good
  <2>1. exec'[r] = [NotStarted EXCEPT !.pc = pc, !.task = exec[r].task, !.endAs = st]
        /\ \A q \in Run \ {r} : exec'[q] = exec[q]
    BY <1>0, <1>2 DEF Drop
  <2> QED BY <1>2, <2>1 DEF NotStarted
<1>3. ASSUME Return(r)
      PROVE  Good
  BY <1>2, <1>3 DEF Return
<1>4. ASSUME NEW st, GoFail(r, st)
      PROVE  Good
  BY <1>2, <1>4 DEF GoFail
<1>5. ASSUME NEW i, ProviderAppend(r, i)
      PROVE  Good
  BY <1>0, <1>5 DEF ProviderAppend, Exec
<1>6. ASSUME NEW a, ProviderBegin(r, a)
      PROVE  Good
  <2>1. CASE exec' = [exec EXCEPT ![r].pc = "admit", ![r].att = a]
    BY <1>0, <2>1 DEF Exec
  <2> QED BY <1>1, <1>6, <2>1 DEF ProviderBegin
<1>7. ASSUME NEW outcome, ProviderFinish(r, outcome)
      PROVE  Good
  <2>1. PICK pc \in {"work", "error"}, b \in BOOLEAN :
           exec' = [exec EXCEPT ![r].pc = pc, ![r].provider = outcome, ![r].lifecycleError = b,
                                ![r].item = NoItem, ![r].att = NoAttempt]
    BY <1>7, Zenon DEF ProviderFinish
  <2> QED BY <1>0, <2>1 DEF Exec
<1>8. ASSUME NEW i, NEW a, BeginToolAttempt(r, i, a)
      PROVE  Good
  BY <1>0, <1>8 DEF BeginToolAttempt, Exec
<1>9. ASSUME NEW st, ToolFinish(r, st, "work")
      PROVE  Good
  BY <1>0, <1>9 DEF ToolFinish, Exec
<1>10. ASSUME EndPhase(r)
       PROVE  Good
  <2>1. ASSUME NEW ph, exec' = [exec EXCEPT ![r].phase = ph], exec[r].pc = "work"
        PROVE  Good
    BY <1>0, <2>1 DEF Exec
  <2> QED BY <1>4, <1>10, <2>1 DEF EndPhase, At
<1> QED
  BY <1>1, <1>3, <1>4, <1>5, <1>6, <1>7, <1>8, <1>9, <1>10
  DEF ExecStep, BeginTurn, BeginRun, BeginRunRefused, ScopeUnreadable, Register, StepRefused,
      StepError, RetryDecision, ObserveCancel, ProviderFailed, ProjectionRefused, CompleteWorkTurn,
      CompleteTask, FailRun, FailTurn

\* No provider adapter is started for a Run that ended: admit_provider_start asks the
\* registry, which every Stop reaches before it ends the Run.
THEOREM NoLateCall == WorkSpec => NoCallAfterEnd
<1>1. WorkInv /\ [WorkNext]_allVars =>
         \A r \in Run : exec[r].pc # "call" /\ exec'[r].pc = "call" => runStatus[r] = "running"
  <2> SUFFICES ASSUME WorkInv, [WorkNext]_allVars, NEW r \in Run,
                      exec[r].pc # "call", exec'[r].pc = "call"
               PROVE  runStatus[r] = "running"
    OBVIOUS
  <2>0. WorkTypeOK /\ exec \in [Run -> Exec]
    BY DEF WorkInv, ExecInv, WorkTypeOK
  <2>1. \E q \in Run : ExecStep(q)
    <3>1. ASSUME NEW t \in Task, NEW q \in Run, Call(q, t)
          PROVE  FALSE
      BY <2>0, <3>1, CallFacts
    <3>2. ~Crash
      BY <2>0, CrashFacts
    <3>3. exec' # exec
      OBVIOUS
    <3> QED BY <3>1, <3>2, <3>3
      DEF WorkNext, UserStep, StartWork, RestartWork, RequestStop, StopStep, RequestCancel,
          StopTurn, StopRun, BootStep, BootTurns, BootRuns, allVars, workVars
  <2>2. PICK q \in Run : ExecStep(q)
    BY <2>1
  <2>3. AdmitProviderStart(q)
    BY <2>0, <2>2, CallsAreAdmitted
  <2>4. q = r
    BY <2>0, <2>3 DEF AdmitProviderStart, Goto, Exec
  <2>5. exec[r].pc = "admit" /\ cancel[r] # "cancelled"
    <3>1. ~Goto(r, "error")
      BY <2>0 DEF Goto, Exec
    <3> QED BY <2>3, <2>4, <3>1 DEF AdmitProviderStart, At
  <2> QED BY <2>5 DEF WorkInv, HeldByToken, Working
<1> QED BY <1>1, WorkInvariant, PTL DEF WorkSpec, NoCallAfterEnd

-----------------------------------------------------------------------------
(* The Work runtime is one of the callers the store is proved for. *)

\* Every step of the Work runtime is an operation of the store, leaves it alone, or is
\* the tool Attempt, which appends an Item and begins its Attempt under one lock.
LEMMA WorkStoreStep ==
    ASSUME ExecInv, [WorkNext]_allVars
    PROVE  \/ [StoreNext]_storeVars
           \/ \E r \in Run, i \in Item \ Review, a \in Attempt : BeginToolAttempt(r, i, a)
<1>1. ASSUME NEW r \in Run, StepOf(r)
      PROVE  \/ [StoreNext]_storeVars
             \/ \E q \in Run, i \in Item \ Review, a \in Attempt : BeginToolAttempt(q, i, a)
  <2>1. "provider_generation" \in CanonicalTaskItemKind
    BY DEF CanonicalTaskItemKind
  <2> QED BY <1>1, <2>1 DEF StepOf, StoreNext
<1>2. CASE UserStep \/ Crash \/ UNCHANGED allVars
  BY <1>2 DEF UserStep, StartWork, RestartWork, RequestStop, Crash, allVars, storeVars
<1>3. CASE BootStep
  BY <1>3 DEF BootStep, BootTurns, BootRuns, StoreNext
<1> QED BY <1>1, <1>2, <1>3, StepOfFacts DEF WorkNext

\* The tool Attempt leaves every Run and every ended Attempt as they are.
LEMMA BeginToolKeepsEnded ==
    ASSUME StoreInv, NEW r \in Run, NEW i \in Item \ Review, NEW a \in Attempt, BeginToolAttempt(r, i, a)
    PROVE  KeepEndedRuns /\ KeepEndedAttempts
<1>1. /\ UNCHANGED runStatus /\ attItem[a] = NoItem
      /\ attItem' = [attItem EXCEPT ![a] = i]
      /\ attStatus' = [attStatus EXCEPT ![a] = "running"]
  BY DEF BeginToolAttempt, runVars
<1>2. attStatus[a] \notin Terminal
  BY <1>1 DEF StoreInv, AttemptRowsConsistent, Terminal, GeneralTerminal
<1> QED BY <1>1, <1>2 DEF KeepEndedRuns, KeepEndedAttempts, StoreInv, StoreTypeOK

\* No step of the Work runtime changes a Run or an Attempt that ended.
LEMMA WorkKeepsEnded ==
    ASSUME ExecInv, [WorkNext]_allVars
    PROVE  KeepEndedRuns /\ KeepEndedAttempts
<1>0. StoreInv
  BY DEF ExecInv
<1>1. CASE [StoreNext]_storeVars
  BY <1>0, <1>1, RunTerminalStep, AttemptTerminalStep
<1>2. CASE \E r \in Run, i \in Item \ Review, a \in Attempt : BeginToolAttempt(r, i, a)
  BY <1>0, <1>2, BeginToolKeepsEnded
<1> QED BY <1>1, <1>2, WorkStoreStep

\* In the Work runtime too, a Run that ended keeps the status it ended with.
THEOREM WorkRunTerminal == WorkSpec => RunTerminalStable
BY ExecInvariant, WorkKeepsEnded, PTL DEF WorkSpec, RunTerminalStable

\* In the Work runtime too, an Attempt that ended stays the fact it was.
THEOREM WorkAttemptTerminal == WorkSpec => AttemptTerminalStable
BY ExecInvariant, WorkKeepsEnded, PTL DEF WorkSpec, AttemptTerminalStable
=============================================================================
