--------------------------- MODULE SteeringProofs ---------------------------
(***************************************************************************)
(* Machine-checked proofs about Plans and Steering, for every set of       *)
(* Tasks, Runs, Items, Attempts and instructions: several Runs of one      *)
(* Task, instructions that are sent again, and any number of crashes are   *)
(* included.                                                               *)
(***************************************************************************)
EXTENDS WorkSteering, WorkProofs, FiniteSetTheorems

USE ReviewAssumption, NullAssumption, WorkAssumption, SteeringAssumption

-----------------------------------------------------------------------------
(* The inductive invariant. *)

\* A generation of the Run was completed: the door is closed for good.
Closed(r) == \E i \in generation : itemRun[i] = r /\ itemStatus[i] = "completed"

\* A generation is an Item of some Run; a Steering has a row once its Item has one.
RowsAgree ==
    /\ \A i \in generation : itemRun[i] # NoRun
    /\ \A s \in Steering : /\ steering[s].status = "none" <=> itemRun[s] = NoRun
                           /\ itemRun[s] # NoRun => itemKind[s] = "steering"

\* The command that holds the lock knows whom it steers.
SubmitHolds ==
    submit.pc # "idle" =>
       submit.id \in Steering /\ submit.run \in Run /\ runTask[submit.run] # NoTask

\* One Steering of a Run is undecided at a time.
OnePending ==
    \A s, t \in Steering :
       /\ steering[s].status = "pending" /\ steering[t].status = "pending"
       /\ itemRun[s] = itemRun[t] /\ itemRun[s] # NoRun
       => s = t

Applied(r) == {s \in Steering : itemRun[s] = r /\ steering[s].status = "applied"}

\* The Run's revision tells whether it adopted a Steering, and one that did is closed.
Revision(r) ==
    /\ \/ Applied(r) = {} /\ (runTask[r] # NoTask => planRevision[r] = 1)
       \/ /\ \E s \in Steering : Applied(r) = {s}
          /\ planRevision[r] = 2 /\ Closed(r) /\ PendingOf(r) = {}
    /\ plan[r] # 0 => plan[r] = planRevision[r] /\ runTask[r] # NoTask

\* The executor's planning state: the Plan in its hands is the stored one; it asks on
\* behalf of the one undecided Steering of its Run; and the try it has open is the
\* Attempt that runs.
Hands(r) ==
    LET e == exec[r]
        p == planning[r]
    IN /\ e.pc # "exit" => p.local = plan[r]
       /\ p.stage \in {"goal", "decision", "direct", "persist"} => p.local = 0
       /\ e.pc \in {"idle", "called", "turn", "begun"} => p = Undecided
       /\ p.id # NoSteering =>
             p.stage = "checkpoint" /\ steering[p.id].status = "pending" /\ itemRun[p.id] = r
       /\ p.stage \notin {"goal", "decision"} /\ p.id = NoSteering => p.tries = 0 /\ ~p.answered
       /\ p.stage \in {"goal", "decision"} => p.tries < MaxTries
       /\ p.tries = MaxTries => ~p.answered /\ e.pc \in {"work", "fail", "failTurn", "exit"}
       /\ e.pc \in {"admit", "call"} => attStatus[e.att] = "running" \/ runStatus[r] # "running"
       /\ e.pc \in {"start", "admit", "call", "error"} => ~p.answered
       /\ e.pc \in {"start", "admit", "call"} => (Asking(r) /\ p.stage # "goal" => e.item \in generation)

\* Phase and stage go together.
Stages(r) ==
    LET e == exec[r]
        p == planning[r]
    IN /\ e.phase = "initial" /\ e.pc \notin {"fail", "failTurn", "exit"} => p.stage \in {"goal", "decision"}
       /\ e.phase # "initial" => p.stage \notin {"goal", "decision"}
       /\ e.phase = "kernel" => p.stage \in {"checkpoint", "done"}
       /\ e.phase = "post" => p.stage = "done"

\* What the model answered closes the door, unless the Run was ended meanwhile; past
\* its decision the executor works behind a closed door, and when it goes on with the
\* decision nothing is undecided.
Decided(r) ==
    LET e == exec[r]
        p == planning[r]
    IN /\ p.answered /\ (p.stage = "checkpoint" \/ (p.stage = "decision" /\ ~p.fallback))
             => Closed(r) \/ runStatus[r] # "running"
       /\ e.phase # "initial" /\ ~p.fallback =>
             /\ Closed(r)
             /\ p.stage = "done" \/ e.phase \in {"kernel", "post"} => PendingOf(r) = {}

SteeringInv ==
    /\ WorkInv
    /\ SteeringTypeOK
    /\ RowsAgree /\ SubmitHolds /\ OnePending
    /\ \A r \in Run : Revision(r) /\ Hands(r) /\ Stages(r) /\ Decided(r)

-----------------------------------------------------------------------------
(* The Work runtime's invariant under the steps that are new here. *)

\* An executor that returns or fails from its work keeps the invariant.
LEMMA LeavesWork ==
    ASSUME WorkInv, NEW r \in Run, At(r, "work"), UNCHANGED <<storeVars, turn, stop, boot, crashes>>,
           \/ Return(r)
           \/ UNCHANGED cancel /\ \E st \in GeneralTerminal : GoFail(r, st)
    PROVE  WorkInv' /\ exec'[r].pc \in {"fail", "exit"} /\ exec'[r].phase = "initial"
           /\ \A q \in Run \ {r} : exec'[q] = exec[q]
<1>0. /\ ExecInv /\ WorkTypeOK /\ StoreInv /\ exec \in [Run -> Exec] /\ HeldByToken(r) /\ TriesOf(r)
      /\ exec[r].pc = "work" /\ boot = "up"
  BY DEF WorkInv, ExecInv, WorkTypeOK, At
<1>1. [StoreNext]_storeVars /\ UNCHANGED <<finalResult, runTask>> /\ StepOf(r)
  BY DEF storeVars, StepOf
<1>2. StoreInv' /\ Grows /\ AttemptsHaveItems'
  BY <1>0, <1>1, InvStep, StoreGrows, StoreAttemptItems DEF ExecInv
<1>3. ExecInv'
  BY <1>0, <1>1, <1>2, LeaveInv
<1>4. PICK pc \in {"fail", "exit"} :
         /\ Moves(r, pc) /\ exec'[r].phase = "initial"
         /\ \A q \in Run \ {r} : cancel'[q] = cancel[q]
         /\ pc = "fail" => UNCHANGED cancel
  <2>1. "fail" \in ExecPc /\ GeneralTerminal \subseteq GeneralTerminal \union {"none"}
    BY DEF ExecPc
  <2> QED BY <1>0, <2>1, ReturnFacts, DropFacts DEF GoFail
<1>5. exec'[r].pc = pc /\ \A q \in Run \ {r} : exec'[q] = exec[q]
  BY <1>4 DEF Moves
<1>u. turn' = turn /\ stop' = stop /\ boot' = boot /\ runStatus' = runStatus /\ runTask' = runTask
  BY DEF storeVars
<1>6. HeldByToken(r)' /\ TriesOf(r)'
  <2>1. CASE pc = "exit"
    BY <1>0, <1>u, <1>5, <2>1 DEF HeldByToken, TriesOf, Working
  <2>2. CASE pc = "fail"
    BY <1>0, <1>u, <1>4, <1>5, <2>2 DEF HeldByToken, TriesOf, Working
  <2> QED BY <2>1, <2>2
<1>7. \A q \in Run \ {r} : turn'[q] = turn[q] /\ cancel'[q] = cancel[q] /\ stop'[q] = stop[q]
  BY <1>4, <1>u
<1>8. WorkInv'
  BY <1>1, <1>2, <1>3, <1>5, <1>6, <1>7, LocalWork
<1> QED BY <1>4, <1>5, <1>8

\* So does one that tries again after an error.
LEMMA TriesAgain ==
    ASSUME WorkInv, NEW r \in Run, At(r, "error"), Goto(r, "work"),
           UNCHANGED <<storeVars, turn, cancel, stop, boot, crashes>>
    PROVE  WorkInv' /\ exec'[r].pc = "work" /\ exec'[r].phase = exec[r].phase
           /\ \A q \in Run \ {r} : exec'[q] = exec[q]
<1>0. /\ ExecInv /\ WorkTypeOK /\ StoreInv /\ exec \in [Run -> Exec] /\ HeldByToken(r) /\ TriesOf(r)
      /\ HoldsTurn(r) /\ exec[r].pc = "error" /\ boot = "up" /\ "work" \in ExecPc
      /\ cancel \in [Run -> {"none", "active", "cancelled", "tombstone"}]
  BY DEF WorkInv, ExecInv, WorkTypeOK, At, ExecPc
<1>1. [StoreNext]_storeVars /\ UNCHANGED <<finalResult, runTask>> /\ StepOf(r)
  BY DEF storeVars, StepOf
<1>2. StoreInv' /\ Grows /\ AttemptsHaveItems'
  BY <1>0, <1>1, InvStep, StoreGrows, StoreAttemptItems DEF ExecInv
<1>3. Moves(r, "work") /\ exec'[r].phase = exec[r].phase
  BY <1>0, GotoFacts
<1>4. exec'[r].pc = "work" /\ \A q \in Run \ {r} : exec'[q] = exec[q]
  BY <1>3 DEF Moves
<1>5. HoldsRows(r)'
  BY <1>4 DEF HoldsRows, HoldsItem, HoldsAttempt
<1>6. turn[r] # "none" /\ runTask[r] # NoTask
  BY <1>0 DEF HoldsTurn
<1>7. ExecInv'
  BY <1>0, <1>1, <1>2, <1>3, <1>5, <1>6, QuietMove
<1>8. HeldByToken(r)' /\ TriesOf(r)'
  BY <1>0, <1>4 DEF HeldByToken, TriesOf, Working, storeVars
<1>9. WorkInv'
  BY <1>1, <1>2, <1>4, <1>7, <1>8, LocalWork
<1> QED BY <1>3, <1>4, <1>9

\* A Steering Item is appended or settled beside everything else: no Attempt is made at
\* it and no executor holds it.
LEMMA SteeringItemWork ==
    ASSUME WorkInv, RowsAgree, NEW s \in Steering, NEW r \in Run, runTask[r] # NoTask,
           itemRun[s] \in {NoRun, r},
           NEW st \in CanonicalTaskItemStatus \union {"none"},
           itemRun' = [itemRun EXCEPT ![s] = r],
           itemKind' = [itemKind EXCEPT ![s] = "steering"],
           itemStatus' = [itemStatus EXCEPT ![s] = st],
           itemStatus[s] = "waiting" \/ itemRun[s] = NoRun,
           UNCHANGED <<taskVars, runVars, attVars, resultVars, reviewVars, workVars>>
    PROVE  WorkInv' /\ Grows
<1>0. /\ ExecInv /\ WorkTypeOK /\ StoreInv /\ AttemptsHaveItems /\ OneTryAtATime
      /\ StoreTypeOK /\ RowsConsistent /\ AttemptRowsConsistent
      /\ s \in Item \ Review
  BY DEF WorkInv, ExecInv, StoreInv
<1>1. UNCHANGED <<taskStatus, runTask, runStatus, runOrdinal, attItem, attStatus, finalResult, deferred,
                  reviewTool, reviewStatus, turn, exec, cancel, stop, boot, crashes>>
  BY DEF taskVars, runVars, attVars, resultVars, reviewVars, workVars
<1>2. /\ itemRun \in [Item -> Run \union {NoRun}]
      /\ itemKind \in [Item -> CanonicalTaskItemKind \union {"none"}]
      /\ itemStatus \in [Item -> CanonicalTaskItemStatus \union {"none"}]
      /\ attItem \in [Attempt -> Item \union {NoItem}]
  BY <1>0 DEF StoreTypeOK
<1>3. /\ \A i \in Item \ {s} : /\ itemRun'[i] = itemRun[i] /\ itemKind'[i] = itemKind[i]
                              /\ itemStatus'[i] = itemStatus[i]
      /\ itemRun'[s] = r /\ itemKind'[s] = "steering" /\ itemStatus'[s] = st
  BY <1>0, <1>2
<1>4. itemRun[s] = NoRun \/ itemKind[s] = "steering"
  BY DEF RowsAgree
<1>5. Grows
  BY <1>0, <1>1, <1>3, <1>4 DEF Grows
<1>6. StoreTypeOK'
  <2>1. "steering" \in CanonicalTaskItemKind
    BY DEF CanonicalTaskItemKind
  <2> QED BY <1>0, <1>1, <1>2, <2>1 DEF StoreTypeOK
<1>7. RowsConsistent' /\ AttemptRowsConsistent'
  BY <1>0, <1>1, <1>3 DEF RowsConsistent, AttemptRowsConsistent
<1>8. PauseMatchesReviews' /\ FinalResultIffCompleted'
  <2>1. \A p \in Review : itemRun'[p] = itemRun[p]
    BY <1>0, <1>3
  <2>2. \A q \in Run : WaitingReviews(q)' = WaitingReviews(q)
    BY <1>0, <1>1, <2>1, WaitingReviewsFrame
  <2> QED BY <1>0, <1>1, <2>2 DEF StoreInv, PauseMatchesReviews, FinalResultIffCompleted
<1>9. StoreInv'
  BY <1>6, <1>7, <1>8 DEF StoreInv
<1>10. AttemptsHaveItems'
  BY <1>0, <1>1, <1>2, <1>5 DEF AttemptsHaveItems, Grows
<1>11. ExecInv'
  BY <1>0, <1>1, <1>5, <1>9, <1>10, BesideStep DEF WorkTypeOK
<1>12. \A a \in Attempt : attStatus[a] = "running" => attItem[a] \in Item /\ attItem[a] # s
  BY <1>0, <1>2 DEF AttemptRowsConsistent, AttemptsHaveItems, OneTryAtATime
<1>13. NothingWaits' /\ LiveTaskHasLiveRun' /\ OneTryAtATime'
  BY <1>1, <1>3, <1>12 DEF WorkInv, NothingWaits, LiveTaskHasLiveRun, RunsOf, OneTryAtATime
<1>14. WorkSettled'
  BY <1>0, <1>1, <1>2, <1>3, <1>12 DEF WorkInv, WorkSettled
<1>15. ASSUME NEW q \in Run
       PROVE  HeldByToken(q)' /\ TriesOf(q)'
  <2>1. HeldByToken(q) /\ TriesOf(q) /\ HoldsRows(q)
    BY DEF WorkInv, ExecInv
  <2>2. exec[q].pc = "start" => exec[q].item \in Item /\ exec[q].item # s
    BY <1>4, <2>1 DEF HoldsRows, Owns
  <2>3. TriesOf(q)'
    BY <1>1, <1>3, <1>12, <2>1, <2>2 DEF TriesOf
  <2>4. HeldByToken(q)'
    BY <1>1, <2>1 DEF HeldByToken
  <2> QED BY <2>3, <2>4
<1> QED BY <1>5, <1>11, <1>13, <1>14, <1>15 DEF WorkInv

-----------------------------------------------------------------------------
(* What stays. *)

\* A completed Item stays completed.
CompletedStays ==
    \A i \in Item : itemRun[i] # NoRun /\ itemStatus[i] = "completed" => itemStatus'[i] = "completed"

\* Executors and Stops keep completed Items: an Attempt that can end runs on an Item
\* that runs.
LEMMA StepOfCompleted ==
    ASSUME WorkInv, NEW r \in Run, StepOf(r)
    PROVE  CompletedStays
<1>0. /\ StoreInv /\ OneTryAtATime
      /\ itemStatus \in [Item -> CanonicalTaskItemStatus \union {"none"}]
  BY DEF WorkInv, ExecInv, StoreInv, StoreTypeOK
<1>1. CASE UNCHANGED itemStatus
  BY <1>1 DEF CompletedStays
<1>2. ASSUME NEW st \in GeneralTerminal, TerminalizeGeneralRun(r, st)
      PROVE  CompletedStays
  BY <1>2 DEF TerminalizeGeneralRun, CloseWorkOf, CompletedStays
<1>3. ASSUME NEW i \in Item \ Review, AppendGeneralItem(r, i, "provider_generation")
      PROVE  CompletedStays
  BY <1>0, <1>3 DEF AppendGeneralItem, CompletedStays
<1>4. ASSUME NEW i \in Item \ Review, NEW a \in Attempt, BeginItemAttempt(i, a)
      PROVE  CompletedStays
  BY <1>0, <1>4 DEF BeginItemAttempt, CompletedStays
<1>5. ASSUME NEW a \in Attempt, NEW st \in Terminal, TerminalizeItemAttempt(a, st)
      PROVE  CompletedStays
  BY <1>0, <1>5 DEF TerminalizeItemAttempt, OneTryAtATime, CompletedStays
<1>6. ASSUME NEW i \in Item \ Review, NEW a \in Attempt, BeginToolAttempt(r, i, a)
      PROVE  CompletedStays
  BY <1>0, <1>6 DEF BeginToolAttempt, CompletedStays
<1>7. \/ \E t \in Task : BeginGeneralTaskRun(t, r)
      \/ CompleteGeneralTask(r)
      \/ UNCHANGED storeVars
      => UNCHANGED itemStatus
  BY DEF BeginGeneralTaskRun, CompleteGeneralTask, itemVars, storeVars
<1> QED BY <1>1, <1>2, <1>3, <1>4, <1>5, <1>6, <1>7 DEF StepOf

\* So a closed door stays closed.
LEMMA ClosedStays ==
    ASSUME SteeringInv, Grows, CompletedStays, generation \subseteq generation', NEW q \in Run, Closed(q)
    PROVE  Closed(q)'
<1>1. PICK i \in generation : itemRun[i] = q /\ itemStatus[i] = "completed"
  BY DEF Closed
<1>2. i \in Item /\ q # NoRun
  BY DEF SteeringInv, SteeringTypeOK
<1> QED BY <1>1, <1>2 DEF Grows, CompletedStays, Closed

\* The Steering rows and their Items stay.
SteeringsStay ==
    /\ UNCHANGED steering
    /\ \A s \in Steering : itemRun'[s] = itemRun[s] /\ itemKind'[s] = itemKind[s]

\* Then the Run has the undecided and the applied ones it had.
LEMMA SameSteerings ==
    ASSUME SteeringsStay, NEW q \in Run
    PROVE  PendingOf(q)' = PendingOf(q) /\ Applied(q)' = Applied(q)
BY DEF SteeringsStay, PendingOf, Applied

\* Nothing that the invariant says of Run q and its executor is touched, except that
\* the Run may end.
Beside(q) ==
    /\ exec'[q] = exec[q] /\ planning'[q] = planning[q]
    /\ plan'[q] = plan[q] /\ planRevision'[q] = planRevision[q] /\ runTask'[q] = runTask[q]
    /\ runStatus'[q] = "running" => runStatus[q] = "running"
    /\ exec[q].pc \in {"admit", "call"} =>
          attStatus'[exec[q].att] = attStatus[exec[q].att] \/ runStatus'[q] # "running"
    /\ PendingOf(q)' = PendingOf(q) /\ Applied(q)' = Applied(q)
    /\ Closed(q) => Closed(q)'
    /\ generation \subseteq generation'
    /\ \A s \in Steering : itemRun[s] = q => itemRun'[s] = q /\ steering'[s] = steering[s]

\* The invariant's part about such a Run stays.
LEMMA BesideKeeps ==
    ASSUME SteeringInv, NEW q \in Run, Beside(q)
    PROVE  Revision(q)' /\ Hands(q)' /\ Stages(q)' /\ Decided(q)'
<1>0. /\ Revision(q) /\ Hands(q) /\ Stages(q) /\ Decided(q)
      /\ planning[q].id \in Steering \union {NoSteering}
  BY DEF SteeringInv, SteeringTypeOK
<1>1. /\ exec'[q] = exec[q] /\ planning'[q] = planning[q]
      /\ plan'[q] = plan[q] /\ planRevision'[q] = planRevision[q] /\ runTask'[q] = runTask[q]
      /\ runStatus'[q] = "running" => runStatus[q] = "running"
      /\ PendingOf(q)' = PendingOf(q) /\ Applied(q)' = Applied(q)
      /\ Closed(q) => Closed(q)'
  BY DEF Beside
<1>2. Revision(q)'
  BY <1>0, <1>1 DEF Revision
<1>3. Asking(q)' <=> Asking(q)
  BY <1>1 DEF Asking
<1>4. planning[q].id # NoSteering =>
         /\ steering'[planning[q].id].status = "pending" /\ itemRun'[planning[q].id] = q
  BY <1>0 DEF Hands, Beside
<1>5. exec[q].pc \in {"admit", "call"} => attStatus'[exec[q].att] = "running" \/ runStatus'[q] # "running"
  BY <1>0, <1>1 DEF Hands, Beside
<1>6. exec[q].item \in generation => exec[q].item \in generation'
  BY DEF Beside
<1>7. Hands(q)'
  BY <1>0, <1>1, <1>3, <1>4, <1>5, <1>6 DEF Hands
<1>8. Stages(q)'
  BY <1>0, <1>1 DEF Stages
<1>9. Decided(q)'
  BY <1>0, <1>1 DEF Decided
<1> QED BY <1>2, <1>7, <1>8, <1>9

\* The invariant's parts about the rows stay with the Steerings and the Runs.
LEMMA RowsKeep ==
    ASSUME SteeringInv, Grows, SteeringsStay, \A i \in generation' : itemRun'[i] # NoRun
    PROVE  RowsAgree' /\ OnePending' /\ (submit' = submit => SubmitHolds')
<1>1. RowsAgree' /\ OnePending'
  BY DEF SteeringInv, SteeringsStay, RowsAgree, OnePending
<1>2. submit' = submit => SubmitHolds'
  BY DEF SteeringInv, SubmitHolds, Grows
<1> QED BY <1>1, <1>2

\* The executor of Run r moves, and all that is said of the other Runs stays.
LEMMA OthersKeep ==
    ASSUME SteeringInv, Grows, CompletedStays, NEW r \in Run, WritesOnly(r),
           \A q \in Run \ {r} : /\ exec'[q] = exec[q] /\ planning'[q] = planning[q]
                                /\ planRevision'[q] = planRevision[q] /\ plan'[q] = plan[q],
           SteeringsStay, generation \subseteq generation', NEW q \in Run \ {r}
    PROVE  Revision(q)' /\ Hands(q)' /\ Stages(q)' /\ Decided(q)'
<1>1. PendingOf(q)' = PendingOf(q) /\ Applied(q)' = Applied(q)
  BY SameSteerings
<1>2. Closed(q) => Closed(q)'
  BY ClosedStays
<1>3. exec[q].pc \in {"admit", "call"} => attStatus'[exec[q].att] = attStatus[exec[q].att]
  <2>1. HoldsRows(q)
    BY DEF SteeringInv, WorkInv, ExecInv
  <2> QED BY <2>1 DEF HoldsRows, Owns, Grows, WritesOnly
<1>4. \A s \in Steering : itemRun[s] = q => itemRun'[s] = q /\ steering'[s] = steering[s]
  BY DEF SteeringsStay
<1>5. runStatus'[q] = runStatus[q] /\ runTask'[q] = runTask[q]
  BY DEF WritesOnly
<1>6. Beside(q)
  BY <1>1, <1>2, <1>3, <1>4, <1>5 DEF Beside
<1> QED BY <1>6, BesideKeeps

\* So only the part about Run r and its executor is left to show.
LEMMA SteerLocal ==
    ASSUME SteeringInv, WorkInv', SteeringTypeOK', Grows, CompletedStays, NEW r \in Run, WritesOnly(r),
           \A q \in Run \ {r} : exec'[q] = exec[q] /\ planning'[q] = planning[q],
           UNCHANGED <<planRevision, plan, submit, runTask>>, SteeringsStay,
           generation \subseteq generation', \A i \in generation' : itemRun'[i] # NoRun,
           Hands(r)', Stages(r)', Decided(r)'
    PROVE  SteeringInv'
<1>1. RowsAgree' /\ OnePending' /\ SubmitHolds'
  BY RowsKeep
<1>2. ASSUME NEW q \in Run \ {r}
      PROVE  Revision(q)' /\ Hands(q)' /\ Stages(q)' /\ Decided(q)'
  BY OthersKeep
<1>3. Revision(r)'
  <2>1. PendingOf(r)' = PendingOf(r) /\ Applied(r)' = Applied(r)
    BY SameSteerings
  <2>2. Closed(r) => Closed(r)'
    BY ClosedStays
  <2>3. Revision(r)
    BY DEF SteeringInv
  <2> QED BY <2>1, <2>2, <2>3 DEF Revision
<1> QED BY <1>1, <1>2, <1>3 DEF SteeringInv

-----------------------------------------------------------------------------
(* The executor's steps that leave Plans and Steering alone. *)

\* How such a step moves the executor of Run r.
MovesOn(r) ==
    LET e == exec[r]
        f == exec'[r]
    IN \/ e.pc # "exit" /\ f.pc \in {"fail", "failTurn", "exit"} /\ f.phase \in {"initial", e.phase}
       \/ /\ f.phase = e.phase
          /\ \/ e.pc = "called" /\ f.pc = "turn"
             \/ e.pc = "begun" /\ f.pc = "work"
             \/ /\ e.pc \in {"work", "start", "admit", "call", "error"}
                /\ f.pc \in {"work", "error", "answer"}
                /\ e.pc = "work" => /\ planning[r].tries # MaxTries
                                    /\ f.pc = "error" => ~planning[r].answered
             \/ e.pc = "start" /\ f.pc = "admit" /\ f.item = e.item /\ attStatus'[f.att] = "running"
             \/ e.pc = "admit" /\ f.pc = "call" /\ f.item = e.item /\ f.att = e.att /\ UNCHANGED attStatus

\* What is said of the executor stays true as it moves on.
LEMMA MovesOnKeeps ==
    ASSUME SteeringInv, NEW r \in Run, MovesOn(r), planning'[r] = planning[r], plan'[r] = plan[r],
           SteeringsStay, Closed(r) => Closed(r)', generation \subseteq generation',
           runStatus'[r] = "running" => runStatus[r] = "running"
    PROVE  Hands(r)' /\ Stages(r)' /\ Decided(r)'
<1>0. /\ Hands(r) /\ Stages(r) /\ Decided(r)
      /\ planning[r].id \in Steering \union {NoSteering}
  BY DEF SteeringInv, SteeringTypeOK
<1>1. PendingOf(r)' = PendingOf(r) /\ (Asking(r)' <=> Asking(r))
  BY SameSteerings DEF Asking
<1>2. planning[r].id # NoSteering =>
         /\ steering'[planning[r].id].status = "pending" /\ itemRun'[planning[r].id] = r
  BY <1>0 DEF Hands, SteeringsStay
<1>3. Decided(r)'
  BY <1>0, <1>1 DEF Decided, MovesOn
<1>4. Stages(r)'
  BY <1>0 DEF Stages, MovesOn, Undecided, Hands
<1>5. exec'[r].pc # "exit" => planning'[r].local = plan'[r]
  BY <1>0 DEF Hands, MovesOn
<1>6. exec'[r].pc \in {"idle", "called", "turn", "begun"} => planning'[r] = Undecided
  BY <1>0 DEF Hands, MovesOn
<1>7. planning'[r].tries = MaxTries =>
         ~planning'[r].answered /\ exec'[r].pc \in {"work", "fail", "failTurn", "exit"}
  <2>1. 0 # MaxTries
    BY DEF MaxTries
  <2> QED BY <1>0, <2>1 DEF Hands, MovesOn, Undecided
<1>8. exec'[r].pc \in {"admit", "call"} => attStatus'[exec'[r].att] = "running" \/ runStatus'[r] # "running"
  BY <1>0 DEF Hands, MovesOn
<1>9. /\ exec'[r].pc \in {"start", "admit", "call", "error"} => ~planning'[r].answered
      /\ exec'[r].pc \in {"start", "admit", "call"} =>
            (Asking(r)' /\ planning'[r].stage # "goal" => exec'[r].item \in generation')
  BY <1>0, <1>1 DEF Hands, MovesOn
<1>10. Hands(r)'
  BY <1>0, <1>2, <1>5, <1>6, <1>7, <1>8, <1>9 DEF Hands
<1> QED BY <1>3, <1>4, <1>10

\* The rows of Steering stay typed where they stay.
LEMMA SteeringTypeKeeps ==
    ASSUME SteeringTypeOK, WorkInv', UNCHANGED steeringVars
    PROVE  SteeringTypeOK'
BY DEF SteeringTypeOK, WorkInv, ExecInv, steeringVars, steeringRows

\* Each of these steps moves the executor on.
LEMMA QuietMovesOn ==
    ASSUME SteeringInv, NEW r \in Run, FreeStep(r) \/ LockedStep(r), ~LaterPhase(r)
    PROVE  MovesOn(r)
<1>0. /\ WorkTypeOK /\ exec \in [Run -> Exec] /\ exec[r] \in Exec /\ HeldByToken(r) /\ HoldsRows(r)
      /\ Hands(r) /\ Stages(r) /\ attStatus \in [Attempt -> CanonicalTaskItemStatus \union {"none"}]
  BY DEF SteeringInv, WorkInv, ExecInv, WorkTypeOK, StoreTypeOK
<1>p. ExecPc = {"idle", "called", "turn", "begun", "work", "start", "admit", "call", "tool",
                "error", "fail", "failTurn", "answer", "replay", "exit",
                "confirm", "submitted", "bind", "wait", "decided", "approved", "granted"}
  BY DEF ExecPc
<1>l. ASSUME Return(r), exec[r].pc # "exit"
      PROVE  MovesOn(r)
  <2>1. exec'[r].pc = "exit" /\ exec'[r].phase = "initial"
    BY <1>0, <1>l, ReturnFacts DEF Moves
  <2> QED BY <1>l, <2>1 DEF MovesOn
<1>e. ASSUME NEW st \in GeneralTerminal, GoFail(r, st), exec[r].pc # "exit"
      PROVE  MovesOn(r)
  <2>1. exec'[r].pc = "fail" /\ exec'[r].phase = "initial"
    BY <1>0, <1>p, <1>e, DropFacts DEF GoFail, Moves
  <2> QED BY <1>e, <2>1 DEF MovesOn
<1>g. ASSUME NEW pc \in ExecPc, Goto(r, pc)
      PROVE  /\ exec'[r].pc = pc /\ exec'[r].phase = exec[r].phase
             /\ exec'[r].item = exec[r].item /\ exec'[r].att = exec[r].att
  BY <1>0, <1>g, GotoFacts DEF Moves
<1>f. GeneralTerminal = {"blocked", "failed", "cancelled", "interrupted", "effect_unknown"}
  BY DEF GeneralTerminal
<1>t. planning[r].stage = "done" => planning[r].tries # MaxTries
  BY <1>0 DEF Hands, MaxTries
<1>1. ASSUME BeginTurn(r)
      PROVE  MovesOn(r)
  <2>0. exec[r].pc = "called" /\ turn[r] = "none"
    BY <1>0, <1>1 DEF BeginTurn, At, HeldByToken
  <2>1. Goto(r, "turn") \/ Return(r)
    BY <1>1, <2>0 DEF BeginTurn
  <2>2. CASE Goto(r, "turn")
    BY <1>g, <1>p, <2>0, <2>2 DEF MovesOn
  <2> QED BY <1>l, <2>0, <2>1, <2>2
<1>2. ASSUME Register(r)
      PROVE  MovesOn(r)
  BY <1>2, <1>g, <1>p DEF Register, At, MovesOn
<1>3. ASSUME AdmitProviderStart(r)
      PROVE  MovesOn(r)
  <2>0. exec[r].pc = "admit" /\ UNCHANGED attStatus
    BY <1>3 DEF AdmitProviderStart, At, storeVars
  <2>1. CASE Goto(r, "error")
    BY <1>g, <1>p, <2>0, <2>1 DEF MovesOn
  <2>2. CASE exec' = [exec EXCEPT ![r].pc = "call", ![r].provider = "started"]
    <3>1. /\ exec'[r].pc = "call" /\ exec'[r].phase = exec[r].phase
          /\ exec'[r].item = exec[r].item /\ exec'[r].att = exec[r].att
      BY <1>0, <2>2 DEF Exec
    <3> QED BY <2>0, <3>1 DEF MovesOn
  <2> QED BY <1>3, <2>1, <2>2 DEF AdmitProviderStart
<1>4. ASSUME NEW a \in Attempt, ProviderBegin(r, a)
      PROVE  MovesOn(r)
  <2>0. exec[r].pc = "start"
    BY <1>4 DEF ProviderBegin, At
  <2>1. CASE Goto(r, "error")
    BY <1>g, <1>p, <2>0, <2>1 DEF MovesOn
  <2>2. CASE BeginItemAttempt(exec[r].item, a)
             /\ exec' = [exec EXCEPT ![r].pc = "admit", ![r].att = a]
    <3>1. /\ exec'[r].pc = "admit" /\ exec'[r].phase = exec[r].phase
          /\ exec'[r].item = exec[r].item /\ exec'[r].att = a
      BY <1>0, <2>2 DEF Exec
    <3>2. attStatus'[a] = "running"
      BY <1>0, <2>2 DEF BeginItemAttempt
    <3> QED BY <2>0, <3>1, <3>2 DEF MovesOn
  <2> QED BY <1>4, <2>1, <2>2 DEF ProviderBegin
<1>5. ASSUME StepError(r)
      PROVE  MovesOn(r)
  <2>0. exec[r].pc = "error"
    BY <1>5 DEF StepError, At
  <2>1. CASE Goto(r, "work")
    BY <1>g, <1>p, <2>0, <2>1 DEF MovesOn
  <2>2. FailureStatus(exec[r].provider, "blocked") \in GeneralTerminal
    BY <1>0, FailureStatusType DEF Exec
  <2> QED BY <1>5, <1>e, <1>f, <1>l, <2>0, <2>1, <2>2 DEF StepError
<1>6. ASSUME RefusedCall(r)
      PROVE  MovesOn(r)
  <2>1. exec[r].pc = "work" /\ Goto(r, "error")
    BY <1>6 DEF RefusedCall, StepRefused, At
  <2>2. planning[r].tries # MaxTries /\ ~planning[r].answered
    BY <1>0, <1>6, <1>t DEF RefusedCall, MayCall, MaxTries, Hands
  <2> QED BY <1>g, <1>p, <2>1, <2>2 DEF MovesOn
<1>7. ASSUME ObserveCancel(r) \/ ScopeUnreadable(r)
      PROVE  MovesOn(r)
  BY <1>7, <1>e, <1>f DEF ObserveCancel, ScopeUnreadable, At
<1>8. ASSUME ProviderFailed(r)
      PROVE  MovesOn(r)
  <2>1. FailureStatus(exec[r].provider, "failed") \in GeneralTerminal
    BY <1>0, FailureStatusType DEF Exec
  <2> QED BY <1>8, <1>e, <1>f, <2>1 DEF ProviderFailed, At
<1>9. ASSUME CompleteWorkTurn(r)
      PROVE  MovesOn(r)
  <2>0. exec[r].pc = "work" /\ planning[r].tries # MaxTries
    BY <1>0, <1>9, <1>t DEF CompleteWorkTurn, At, Stages
  <2>1. CASE Goto(r, "answer")
    BY <1>g, <1>p, <2>0, <2>1 DEF MovesOn
  <2> QED BY <1>9, <1>l, <2>0, <2>1 DEF CompleteWorkTurn
<1>10. ASSUME FailTurn(r) \/ BeginRunRefused(r) \/ ProjectionRefused(r) \/ CompleteTask(r)
       PROVE  MovesOn(r)
  BY <1>10, <1>l DEF FailTurn, BeginRunRefused, ProjectionRefused, CompleteTask, At
<1>11. ASSUME FailRun(r)
       PROVE  MovesOn(r)
  <2>0. exec[r].pc = "fail"
    BY <1>11 DEF FailRun, At
  <2>1. CASE Goto(r, "failTurn")
    BY <1>g, <1>p, <2>0, <2>1 DEF MovesOn
  <2> QED BY <1>11, <1>l, <2>0, <2>1 DEF FailRun
<1> QED
  BY <1>1, <1>2, <1>3, <1>4, <1>5, <1>6, <1>7, <1>8, <1>9, <1>10, <1>11
  DEF FreeStep, LockedStep, FreshAttempt, Fresh, LaterError

\* A Run begins to run when it is begun only.
LEMMA NoRunStarts ==
    ASSUME WorkInv, NEW r \in Run, StepOf(r), UNCHANGED runTask
    PROVE  runStatus'[r] = "running" => runStatus[r] = "running"
<1>0. /\ runStatus \in [Run -> CanonicalTaskStatus \union {"none"}]
      /\ runTask \in [Run -> Task \union {NoTask}]
  BY DEF WorkInv, ExecInv, WorkTypeOK, StoreTypeOK
<1>1. ASSUME NEW t \in Task, BeginGeneralTaskRun(t, r)
      PROVE  FALSE
  BY <1>0, <1>1 DEF BeginGeneralTaskRun
<1>2. ASSUME NEW st \in GeneralTerminal, TerminalizeGeneralRun(r, st)
      PROVE  runStatus'[r] # "running"
  BY <1>0, <1>2 DEF TerminalizeGeneralRun, GeneralTerminal
<1>3. CompleteGeneralTask(r) => runStatus'[r] # "running"
  BY <1>0 DEF CompleteGeneralTask
<1>4. \/ \E i \in Item \ Review : AppendGeneralItem(r, i, "provider_generation")
      \/ \E i \in Item \ Review, a \in Attempt : BeginItemAttempt(i, a)
      \/ \E a \in Attempt, st \in Terminal : TerminalizeItemAttempt(a, st)
      \/ \E i \in Item \ Review, a \in Attempt : BeginToolAttempt(r, i, a)
      \/ UNCHANGED storeVars
      => UNCHANGED runStatus
  BY DEF AppendGeneralItem, BeginItemAttempt, TerminalizeItemAttempt, BeginToolAttempt, runVars, storeVars
<1> QED BY <1>1, <1>2, <1>3, <1>4 DEF StepOf

\* What every step of an executor keeps, whatever it does for its Plan.
LEMMA ExecFacts ==
    ASSUME SteeringInv, NEW r \in Run, ExecStep(r)
    PROVE  /\ WorkInv' /\ StepOf(r) /\ Grows /\ WritesOnly(r) /\ CompletedStays
           /\ UNCHANGED runTask => (runStatus'[r] = "running" => runStatus[r] = "running")
<1>0. WorkInv /\ ExecInv
  BY DEF SteeringInv, WorkInv
<1>1. WorkInv' /\ StepOf(r) /\ Grows
  BY <1>0, WorkExecStep, StepOfFacts, ExecStepStore
<1>2. StoreInv'
  BY <1>1 DEF WorkInv, ExecInv
<1> QED BY <1>0, <1>1, <1>2, StepOfSettled, StepOfCompleted, NoRunStarts

\* These steps begin no Run and append no Item, and move one executor.
LEMMA QuietRows ==
    ASSUME SteeringInv, NEW r \in Run, FreeStep(r) \/ LockedStep(r)
    PROVE  /\ ExecStep(r) /\ UNCHANGED <<runTask, itemRun, itemKind>>
           /\ \A q \in Run \ {r} : exec'[q] = exec[q]
<1>1. FreshAttempt \subseteq Attempt
  BY DEF FreshAttempt, Fresh
<1>2. ExecStep(r)
  BY <1>1 DEF FreeStep, LockedStep, ExecStep, LaterError, LaterPhase, RefusedCall
<1>3. UNCHANGED <<runTask, itemRun, itemKind>>
  <2>1. CASE FreeStep(r)
    BY <2>1 DEF FreeStep, BeginTurn, Register, AdmitProviderStart, ProviderBegin, LaterError, LaterPhase,
        RefusedCall, StepError, EndPhase, StepRefused, ObserveCancel, ProviderFailed, CompleteWorkTurn,
        FailTurn, BeginItemAttempt, runVars, storeVars
  <2>2. CASE LockedStep(r)
    BY <2>2 DEF LockedStep, BeginRunRefused, ScopeUnreadable, ProjectionRefused, CompleteTask, FailRun,
        CompleteGeneralTask, TerminalizeGeneralRun, CloseWorkOf, itemVars, storeVars
  <2> QED BY <2>1, <2>2
<1>4. \A q \in Run \ {r} : exec'[q] = exec[q]
  <2>1. exec \in [Run -> Exec]
    BY DEF SteeringInv, WorkInv, ExecInv, WorkTypeOK
  <2>2. CASE FreeStep(r)
    BY <2>1, <2>2 DEF FreeStep, BeginTurn, Register, AdmitProviderStart, ProviderBegin, LaterError,
        LaterPhase, RefusedCall, StepError, EndPhase, StepRefused, ObserveCancel, ProviderFailed,
        CompleteWorkTurn, FailTurn, Goto, GoFail, Return, Drop
  <2>3. CASE LockedStep(r)
    BY <2>1, <2>3 DEF LockedStep, BeginRunRefused, ScopeUnreadable, ProjectionRefused, CompleteTask,
        FailRun, Goto, GoFail, Return, Drop
  <2> QED BY <2>2, <2>3
<1> QED BY <1>2, <1>3, <1>4

\* These steps keep the invariant.
LEMMA QuietExec ==
    ASSUME SteeringInv, NEW r \in Run, FreeStep(r) \/ LockedStep(r), UNCHANGED steeringVars
    PROVE  SteeringInv'
<1>0. /\ Hands(r) /\ Stages(r) /\ Decided(r) /\ RowsAgree /\ SteeringTypeOK
      /\ exec \in [Run -> Exec] /\ exec[r] \in Exec
  BY DEF SteeringInv, WorkInv, ExecInv, WorkTypeOK
<1>1. /\ ExecStep(r) /\ UNCHANGED <<runTask, itemRun, itemKind>>
      /\ \A q \in Run \ {r} : exec'[q] = exec[q]
  BY QuietRows
<1>2. /\ WorkInv' /\ Grows /\ WritesOnly(r) /\ CompletedStays
      /\ runStatus'[r] = "running" => runStatus[r] = "running"
  BY <1>1, ExecFacts
<1>3. UNCHANGED <<generation, planRevision, plan, steering, message, submit, planning>>
  BY DEF steeringVars, steeringRows
<1>4. SteeringsStay /\ SteeringTypeOK' /\ (Closed(r) => Closed(r)')
  BY <1>0, <1>1, <1>2, <1>3, ClosedStays, SteeringTypeKeeps DEF SteeringsStay
<1>5. Hands(r)' /\ Stages(r)' /\ Decided(r)'
  <2>1. CASE ~LaterPhase(r)
    BY <1>2, <1>3, <1>4, <2>1, QuietMovesOn, MovesOnKeeps
  <2>2. CASE LaterPhase(r)
    <3>1. exec[r].pc = "work" /\ planning[r].stage = "done" /\ exec[r].phase # "initial"
          /\ UNCHANGED storeVars
      BY <1>0, <2>2 DEF LaterPhase, EndPhase, At, Stages
    <3>2. CASE GoFail(r, "blocked")
      <4>1. exec'[r].pc = "fail" /\ exec'[r].phase = "initial"
        BY <1>0, <3>2, DropFacts DEF GoFail, Moves, ExecPc, GeneralTerminal
      <4>2. MovesOn(r)
        BY <3>1, <4>1 DEF MovesOn
      <4> QED BY <1>2, <1>3, <1>4, <4>2, MovesOnKeeps
    <3>3. ASSUME NEW ph \in {"kernel", "post"}, exec' = [exec EXCEPT ![r].phase = ph]
          PROVE  Hands(r)' /\ Stages(r)' /\ Decided(r)'
      <4>1. exec'[r].pc = "work" /\ exec'[r].phase = ph
        BY <1>0, <3>1, <3>3 DEF Exec
      <4>2. PendingOf(r)' = PendingOf(r)
        BY <1>4, SameSteerings
      <4>3. Decided(r)'
        BY <1>0, <1>2, <1>3, <1>4, <3>1, <4>1, <4>2 DEF Decided
      <4>4. Stages(r)'
        BY <1>3, <3>1, <4>1 DEF Stages
      <4>5. Hands(r)'
        BY <1>0, <1>1, <1>3, <3>1, <4>1 DEF Hands
      <4> QED BY <4>3, <4>4, <4>5
    <3> QED BY <2>2, <3>1, <3>2, <3>3 DEF LaterPhase, EndPhase
  <2> QED BY <2>1, <2>2
<1>6. \A i \in generation' : itemRun'[i] # NoRun
  BY <1>0, <1>1, <1>3 DEF RowsAgree
<1>7. \A q \in Run \ {r} : exec'[q] = exec[q] /\ planning'[q] = planning[q]
  BY <1>1, <1>3
<1> QED BY <1>1, <1>2, <1>3, <1>4, <1>5, <1>6, <1>7, SteerLocal

-----------------------------------------------------------------------------
(* Steps of the planning state. *)

PlanningState == [stage : Stage, tries : 0..MaxTries, fallback : BOOLEAN, local : Nat,
                  id : Steering \union {NoSteering}, answered : BOOLEAN]

\* A store that stays keeps everything that is read from it.
LEMMA StillStore ==
    ASSUME SteeringInv, UNCHANGED storeVars, UNCHANGED <<generation, steering>>, NEW r \in Run
    PROVE  /\ Grows /\ CompletedStays /\ WritesOnly(r) /\ SteeringsStay
           /\ UNCHANGED <<runTask, runStatus, itemRun, attStatus>>
           /\ Closed(r)' = Closed(r) /\ PendingOf(r)' = PendingOf(r)
           /\ \A i \in generation' : itemRun'[i] # NoRun
<1>1. UNCHANGED <<runTask, runStatus, itemRun, itemKind, itemStatus, attItem, attStatus>>
  BY DEF storeVars
<1>2. RowsAgree
  BY DEF SteeringInv
<1> QED BY <1>1, <1>2 DEF Grows, CompletedStays, WritesOnly, SteeringsStay, Closed, PendingOf, RowsAgree

\* The planning state of one executor takes another value.
LEMMA PlanningType ==
    ASSUME SteeringTypeOK, WorkInv', NEW r \in Run, NEW p \in PlanningState,
           planning' = [planning EXCEPT ![r] = p], UNCHANGED <<steeringRows, submit>>
    PROVE  SteeringTypeOK' /\ planning'[r] = p /\ \A q \in Run \ {r} : planning'[q] = planning[q]
<1>1. planning \in [Run -> PlanningState]
  BY DEF SteeringTypeOK, PlanningState
<1>2. /\ planning' \in [Run -> PlanningState]
      /\ planning'[r] = p /\ \A q \in Run \ {r} : planning'[q] = planning[q]
  BY <1>1
<1> QED BY <1>2 DEF SteeringTypeOK, PlanningState, WorkInv, ExecInv, steeringRows

\* A step of one executor that writes its planning state and nothing of the stores.
LEMMA PlanningStep ==
    ASSUME SteeringInv, WorkInv', NEW r \in Run, NEW p \in PlanningState,
           planning' = [planning EXCEPT ![r] = p], UNCHANGED <<storeVars, steeringRows, submit>>,
           \A q \in Run \ {r} : exec'[q] = exec[q],
           Hands(r)', Stages(r)', Decided(r)'
    PROVE  SteeringInv'
<1>1. UNCHANGED <<generation, planRevision, plan, steering, submit>> /\ SteeringTypeOK
  BY DEF steeringRows, SteeringInv
<1>2. SteeringTypeOK' /\ \A q \in Run \ {r} : planning'[q] = planning[q]
  BY <1>1, PlanningType
<1>3. /\ Grows /\ CompletedStays /\ WritesOnly(r) /\ SteeringsStay /\ UNCHANGED runTask
      /\ \A i \in generation' : itemRun'[i] # NoRun
  BY <1>1, StillStore
<1> QED BY <1>1, <1>2, <1>3, SteerLocal

\* An executor that returns or fails keeps the invariant.
LEMMA LeavesPlanning ==
    ASSUME SteeringInv, NEW r \in Run, At(r, "work"),
           UNCHANGED <<storeVars, turn, stop, boot, crashes, steeringVars>>,
           \/ Return(r)
           \/ UNCHANGED cancel /\ \E st \in GeneralTerminal : GoFail(r, st)
    PROVE  SteeringInv'
<1>0. WorkInv /\ SteeringTypeOK /\ exec[r].pc = "work"
  BY DEF SteeringInv, At
<1>1. /\ WorkInv' /\ exec'[r].pc \in {"fail", "exit"} /\ exec'[r].phase = "initial"
      /\ \A q \in Run \ {r} : exec'[q] = exec[q]
  BY <1>0, LeavesWork
<1>2. UNCHANGED <<generation, planRevision, plan, steering, submit, planning>>
  BY DEF steeringRows, steeringVars
<1>3. /\ Grows /\ CompletedStays /\ WritesOnly(r) /\ SteeringsStay /\ UNCHANGED <<runTask, runStatus>>
      /\ Closed(r)' = Closed(r)
      /\ \A i \in generation' : itemRun'[i] # NoRun
  BY <1>2, StillStore
<1>4. SteeringTypeOK'
  BY <1>0, <1>1, SteeringTypeKeeps
<1>5. MovesOn(r)
  BY <1>0, <1>1 DEF MovesOn
<1>6. Hands(r)' /\ Stages(r)' /\ Decided(r)'
  BY <1>2, <1>3, <1>5, MovesOnKeeps
<1> QED BY <1>1, <1>2, <1>3, <1>4, <1>6, SteerLocal

\* What the invariant says of an executor at work on its plan.
LEMMA AtWork ==
    ASSUME SteeringInv, NEW r \in Run
    PROVE  /\ Hands(r) /\ Stages(r) /\ Decided(r) /\ WorkInv /\ SteeringTypeOK
           /\ planning[r] \in PlanningState /\ exec[r] \in Exec /\ exec \in [Run -> Exec]
           /\ planning \in [Run -> PlanningState]
BY DEF SteeringInv, SteeringTypeOK, PlanningState, WorkInv, ExecInv, WorkTypeOK

\* The initial planning state, and a decision on it.
LEMMA UndecidedType ==
    /\ Undecided \in PlanningState
    /\ \A st \in Stage, b \in BOOLEAN, n \in Nat :
          [Undecided EXCEPT !.stage = st, !.local = n, !.fallback = b] \in PlanningState
<1>1. 0 \in 0..MaxTries /\ "goal" \in Stage
  BY DEF MaxTries, Stage
<1> QED BY <1>1 DEF Undecided, PlanningState

\* The steps that move the planning state only.
LEMMA AcceptGoalKeeps ==
    ASSUME SteeringInv, NEW r \in Run, AcceptGoal(r)
    PROVE  SteeringInv'
<1>0. /\ Hands(r) /\ Stages(r) /\ Decided(r) /\ WorkInv /\ planning \in [Run -> PlanningState]
  BY AtWork
<1>1. /\ exec[r].pc = "work" /\ planning[r].stage = "goal"
      /\ planning' = [planning EXCEPT ![r] = [Undecided EXCEPT !.stage = "decision"]]
      /\ UNCHANGED <<allVars, steeringRows, submit>>
  BY DEF AcceptGoal, At
<1>2. UNCHANGED <<storeVars, exec, generation, plan, steering>> /\ WorkInv'
  BY <1>0, <1>1, WorkInvStep DEF allVars, workVars, steeringRows
<1>3. /\ Closed(r)' = Closed(r) /\ PendingOf(r)' = PendingOf(r)
      /\ UNCHANGED <<runStatus, itemRun, attStatus>>
  BY <1>2, StillStore
<1>4. PICK p : p = [Undecided EXCEPT !.stage = "decision"]
  OBVIOUS
<1>5. /\ p.stage = "decision" /\ p.tries = 0 /\ p.local = 0
      /\ p.id = NoSteering /\ ~p.answered /\ p \in PlanningState
  <2>1. 0 \in 0..MaxTries /\ "decision" \in Stage
    BY DEF MaxTries, Stage
  <2> QED BY <1>4, <2>1 DEF Undecided, PlanningState
<1>6. planning'[r] = p
  BY <1>0, <1>1, <1>4
<1>7. Hands(r)'
  <2>1. planning[r].local = plan[r] /\ planning[r].local = 0
    BY <1>0, <1>1 DEF Hands
  <2>2. 0 < MaxTries
    BY DEF MaxTries
  <2> QED BY <1>1, <1>2, <1>5, <1>6, <2>1, <2>2 DEF Hands
<1>8. Stages(r)' /\ Decided(r)'
  BY <1>0, <1>1, <1>2, <1>3, <1>5, <1>6 DEF Stages, Decided
<1> QED BY <1>1, <1>2, <1>4, <1>5, <1>7, <1>8, PlanningStep

\* A direct step looks for Steering.
LEMMA CheckDirectKeeps ==
    ASSUME SteeringInv, NEW r \in Run, CheckDirect(r)
    PROVE  SteeringInv'
<1>0. /\ Hands(r) /\ Stages(r) /\ Decided(r) /\ WorkInv /\ planning \in [Run -> PlanningState]
      /\ planning[r] \in PlanningState
  BY AtWork
<1>1. PICK st : st = IF PendingOf(r) # {} THEN "persist" ELSE "done"
  OBVIOUS
<1>2. /\ exec[r].pc = "work" /\ exec[r].phase = "planning" /\ planning[r].stage = "direct"
      /\ planning' = [planning EXCEPT ![r].stage = st]
      /\ UNCHANGED <<allVars, steeringRows, submit>>
  BY <1>1 DEF CheckDirect, Planning, At
<1>3. UNCHANGED <<storeVars, exec, generation, plan, steering>> /\ WorkInv'
  BY <1>0, <1>2, WorkInvStep DEF allVars, workVars, steeringRows
<1>4. /\ Closed(r)' = Closed(r) /\ PendingOf(r)' = PendingOf(r)
      /\ UNCHANGED <<runStatus, itemRun, attStatus>>
  BY <1>3, StillStore
<1>5. PICK p : p = [planning[r] EXCEPT !.stage = st]
  OBVIOUS
<1>6. /\ p.stage = st /\ p.tries = planning[r].tries /\ p.fallback = planning[r].fallback
      /\ p.local = planning[r].local /\ p.id = planning[r].id /\ p.answered = planning[r].answered
      /\ p \in PlanningState
  BY <1>0, <1>1, <1>5 DEF PlanningState, Stage
<1>7. planning' = [planning EXCEPT ![r] = p] /\ planning'[r] = p
  BY <1>0, <1>2, <1>5
<1>8. Hands(r)'
  BY <1>0, <1>1, <1>2, <1>3, <1>4, <1>6, <1>7 DEF Hands, MaxTries
<1>9. Stages(r)' /\ Decided(r)'
  BY <1>0, <1>1, <1>2, <1>3, <1>4, <1>6, <1>7 DEF Stages, Decided
<1> QED BY <1>2, <1>3, <1>6, <1>7, <1>8, <1>9, PlanningStep

\* The kernel comes to a checkpoint.
LEMMA KernelCheckpointKeeps ==
    ASSUME SteeringInv, NEW r \in Run, KernelCheckpoint(r)
    PROVE  SteeringInv'
<1>0. /\ Hands(r) /\ Stages(r) /\ Decided(r) /\ WorkInv /\ planning \in [Run -> PlanningState]
      /\ planning[r] \in PlanningState
  BY AtWork
<1>2. /\ exec[r].pc = "work" /\ exec[r].phase = "kernel" /\ planning[r].stage = "done"
      /\ planning' = [planning EXCEPT ![r].stage = "checkpoint"]
      /\ UNCHANGED <<allVars, steeringRows, submit>>
  BY DEF KernelCheckpoint, At
<1>3. UNCHANGED <<storeVars, exec, generation, plan, steering>> /\ WorkInv'
  BY <1>0, <1>2, WorkInvStep DEF allVars, workVars, steeringRows
<1>4. /\ Closed(r)' = Closed(r) /\ PendingOf(r)' = PendingOf(r)
      /\ UNCHANGED <<runStatus, itemRun, attStatus>>
  BY <1>3, StillStore
<1>5. PICK p : p = [planning[r] EXCEPT !.stage = "checkpoint"]
  OBVIOUS
<1>6. /\ p.stage = "checkpoint" /\ p.tries = planning[r].tries /\ p.fallback = planning[r].fallback
      /\ p.local = planning[r].local /\ p.id = planning[r].id /\ p.answered = planning[r].answered
      /\ p \in PlanningState
  BY <1>0, <1>5 DEF PlanningState, Stage
<1>7. planning' = [planning EXCEPT ![r] = p] /\ planning'[r] = p
  BY <1>0, <1>2, <1>5
<1>8. Hands(r)'
  BY <1>0, <1>2, <1>3, <1>4, <1>6, <1>7 DEF Hands, MaxTries
<1>9. Stages(r)' /\ Decided(r)'
  BY <1>0, <1>2, <1>3, <1>4, <1>6, <1>7 DEF Stages, Decided, Hands
<1> QED BY <1>2, <1>3, <1>6, <1>7, <1>8, <1>9, PlanningStep

\* The checkpoint looks for Steering, and is over when there is none.
LEMMA LoadKeeps ==
    ASSUME SteeringInv, NEW r \in Run, LoadPendingSteering(r)
    PROVE  SteeringInv'
<1>0. /\ Hands(r) /\ Stages(r) /\ Decided(r) /\ WorkInv /\ planning \in [Run -> PlanningState]
      /\ planning[r] \in PlanningState
  BY AtWork
<1>1. PICK st \in {"checkpoint", "done"}, s \in Steering \union {NoSteering} :
         /\ planning' = [planning EXCEPT ![r] = [planning[r] EXCEPT !.stage = st, !.id = s]]
         /\ st = "done" => s = NoSteering /\ PendingOf(r) = {}
         /\ st = "checkpoint" => s \in PendingOf(r)
  <2>1. planning[r].stage = "checkpoint" /\ planning[r].id = NoSteering
    BY DEF LoadPendingSteering, AtCheckpoint
  <2>2. CASE \E s \in PendingOf(r) : planning' = [planning EXCEPT ![r].id = s]
    <3>1. PICK s \in PendingOf(r) : planning' = [planning EXCEPT ![r].id = s]
      BY <2>2
    <3>2. [planning[r] EXCEPT !.stage = "checkpoint", !.id = s] = [planning[r] EXCEPT !.id = s]
      BY <1>0, <2>1 DEF PlanningState
    <3>3. planning' = [planning EXCEPT ![r] = [planning[r] EXCEPT !.id = s]]
      BY <1>0, <3>1
    <3> QED BY <3>1, <3>2, <3>3 DEF PendingOf
  <2>3. CASE PendingOf(r) = {} /\ planning' = [planning EXCEPT ![r].stage = "done"]
    <3>1. [planning[r] EXCEPT !.stage = "done", !.id = NoSteering] = [planning[r] EXCEPT !.stage = "done"]
      BY <1>0, <2>1 DEF PlanningState
    <3>2. planning' = [planning EXCEPT ![r] = [planning[r] EXCEPT !.stage = "done"]]
      BY <1>0, <2>3
    <3> QED BY <2>3, <3>1, <3>2
  <2> QED BY <2>2, <2>3 DEF LoadPendingSteering
<1>2. /\ exec[r].pc = "work" /\ planning[r].stage = "checkpoint" /\ planning[r].id = NoSteering
      /\ UNCHANGED <<allVars, steeringRows, submit>>
  BY DEF LoadPendingSteering, AtCheckpoint, At
<1>3. UNCHANGED <<storeVars, exec, generation, plan, steering>> /\ WorkInv'
  BY <1>0, <1>2, WorkInvStep DEF allVars, workVars, steeringRows
<1>4. /\ Closed(r)' = Closed(r) /\ PendingOf(r)' = PendingOf(r)
      /\ UNCHANGED <<runStatus, itemRun, attStatus>>
  BY <1>3, StillStore
<1>5. PICK p : p = [planning[r] EXCEPT !.stage = st, !.id = s]
  OBVIOUS
<1>6. /\ p.stage = st /\ p.tries = planning[r].tries /\ p.fallback = planning[r].fallback
      /\ p.local = planning[r].local /\ p.id = s /\ p.answered = planning[r].answered
      /\ p \in PlanningState
  BY <1>0, <1>5 DEF PlanningState, Stage
<1>7. planning' = [planning EXCEPT ![r] = p] /\ planning'[r] = p
  BY <1>0, <1>1, <1>5
<1>8. s # NoSteering => st = "checkpoint" /\ steering'[s].status = "pending" /\ itemRun'[s] = r
  BY <1>1, <1>3, <1>4 DEF PendingOf
<1>9. Hands(r)'
  BY <1>0, <1>2, <1>3, <1>4, <1>6, <1>7, <1>8 DEF Hands, MaxTries
<1>10. Stages(r)' /\ Decided(r)'
  BY <1>0, <1>1, <1>2, <1>3, <1>4, <1>6, <1>7 DEF Stages, Decided, Hands
<1> QED BY <1>2, <1>3, <1>6, <1>7, <1>9, <1>10, PlanningStep

\* An answer turns out invalid: its try has failed.
LEMMA AnswerInvalidKeeps ==
    ASSUME SteeringInv, NEW r \in Run, AnswerInvalid(r)
    PROVE  SteeringInv'
<1>0. /\ Hands(r) /\ Stages(r) /\ Decided(r) /\ WorkInv /\ planning \in [Run -> PlanningState]
      /\ planning[r] \in PlanningState /\ exec \in [Run -> Exec] /\ "error" \in ExecPc
  BY AtWork DEF ExecPc
<1>1. /\ exec[r].pc = "work" /\ planning[r].answered /\ Goto(r, "error")
      /\ planning' = [planning EXCEPT ![r].answered = FALSE]
      /\ UNCHANGED <<storeVars, steeringRows, submit>>
  BY DEF AnswerInvalid, At
<1>2. WorkInv'
  <2>1. ExecStep(r)
    BY DEF AnswerInvalid, ExecStep, StepRefused
  <2> QED BY <1>0, <2>1, WorkExecStep
<1>3. /\ exec'[r].pc = "error" /\ exec'[r].phase = exec[r].phase
      /\ \A q \in Run \ {r} : exec'[q] = exec[q]
  BY <1>0, <1>1, GotoFacts DEF Moves
<1>4. UNCHANGED <<generation, plan, steering>>
  BY <1>1 DEF steeringRows
<1>5. /\ Closed(r)' = Closed(r) /\ PendingOf(r)' = PendingOf(r)
      /\ UNCHANGED <<runStatus, itemRun, attStatus>>
  BY <1>1, <1>4, StillStore
<1>6. PICK p : p = [planning[r] EXCEPT !.answered = FALSE]
  OBVIOUS
<1>7. /\ p.stage = planning[r].stage /\ p.tries = planning[r].tries /\ p.fallback = planning[r].fallback
      /\ p.local = planning[r].local /\ p.id = planning[r].id /\ ~p.answered
      /\ p \in PlanningState
  BY <1>0, <1>6 DEF PlanningState
<1>8. planning' = [planning EXCEPT ![r] = p] /\ planning'[r] = p
  BY <1>0, <1>1, <1>6
<1>9. planning[r].tries # MaxTries
  BY <1>0, <1>1 DEF Hands
<1>10. Hands(r)'
  BY <1>0, <1>1, <1>3, <1>4, <1>5, <1>7, <1>8, <1>9 DEF Hands
<1>11. Stages(r)' /\ Decided(r)'
  BY <1>0, <1>1, <1>3, <1>4, <1>5, <1>7, <1>8 DEF Stages, Decided
<1> QED BY <1>1, <1>2, <1>3, <1>7, <1>8, <1>10, <1>11, PlanningStep

\* A failed try is spent, and another one begins or the checkpoint ends.
LEMMA SpendTryKeeps ==
    ASSUME SteeringInv, NEW r \in Run, SpendTry(r)
    PROVE  SteeringInv'
<1>0. /\ Hands(r) /\ Stages(r) /\ Decided(r) /\ WorkInv /\ planning \in [Run -> PlanningState]
      /\ planning[r] \in PlanningState
  BY AtWork
<1>1. /\ exec[r].pc = "error" /\ At(r, "error") /\ Asking(r) /\ Goto(r, "work")
      /\ planning' = [planning EXCEPT ![r].tries = @ + 1]
      /\ UNCHANGED <<storeVars, turn, cancel, stop, boot, crashes, steeringRows, submit>>
      /\ \/ planning[r].tries + 1 < MaxTries /\ planning[r].stage \in {"goal", "decision"}
         \/ planning[r].stage = "checkpoint"
  BY <1>0 DEF SpendTry, RetryDecision, At, Stages
<1>2. /\ WorkInv' /\ exec'[r].pc = "work" /\ exec'[r].phase = exec[r].phase
      /\ \A q \in Run \ {r} : exec'[q] = exec[q]
  BY <1>0, <1>1, TriesAgain
<1>4. UNCHANGED <<generation, plan, steering>>
  BY <1>1 DEF steeringRows
<1>5. /\ Closed(r)' = Closed(r) /\ PendingOf(r)' = PendingOf(r)
      /\ UNCHANGED <<runStatus, itemRun, attStatus>>
  BY <1>1, <1>4, StillStore
<1>6. PICK p : p = [planning[r] EXCEPT !.tries = planning[r].tries + 1]
  OBVIOUS
<1>7. planning[r].tries \in 0..MaxTries /\ planning[r].tries # MaxTries /\ ~planning[r].answered
  BY <1>0, <1>1 DEF Hands, PlanningState
<1>8. planning[r].tries + 1 \in 0..MaxTries
  BY <1>7 DEF MaxTries
<1>9. /\ p.stage = planning[r].stage /\ p.tries = planning[r].tries + 1
      /\ p.fallback = planning[r].fallback /\ p.local = planning[r].local
      /\ p.id = planning[r].id /\ ~p.answered /\ p \in PlanningState
  BY <1>0, <1>6, <1>7, <1>8 DEF PlanningState
<1>10. planning' = [planning EXCEPT ![r] = p] /\ planning'[r] = p
  BY <1>0, <1>1, <1>6
<1>11. planning[r].id = NoSteering => planning[r].stage \in {"goal", "decision"}
  BY <1>1 DEF Asking
<1>12. p.stage \in {"goal", "decision"} => p.tries < MaxTries
  BY <1>1, <1>9
<1>13. Hands(r)'
  BY <1>0, <1>1, <1>2, <1>4, <1>5, <1>9, <1>10, <1>11, <1>12 DEF Hands
<1>14. Stages(r)' /\ Decided(r)'
  BY <1>0, <1>1, <1>2, <1>4, <1>5, <1>9, <1>10 DEF Stages, Decided
<1> QED BY <1>1, <1>2, <1>9, <1>10, <1>13, <1>14, PlanningStep

\* The decision is made without the model.
LEMMA FallBackKeeps ==
    ASSUME SteeringInv, NEW r \in Run, FallBack(r)
    PROVE  SteeringInv'
<1>0. /\ Hands(r) /\ Stages(r) /\ Decided(r) /\ WorkInv /\ planning \in [Run -> PlanningState]
      /\ planning[r] \in PlanningState
  BY AtWork
<1>1. /\ exec[r].pc = "error" /\ At(r, "error") /\ exec[r].phase = "initial" /\ Goto(r, "work")
      /\ planning[r].stage = "decision"
      /\ planning' = [planning EXCEPT ![r].fallback = TRUE, ![r].answered = TRUE]
      /\ UNCHANGED <<storeVars, turn, cancel, stop, boot, crashes, steeringRows, submit>>
  BY DEF FallBack, RetryDecision, At
<1>2. /\ WorkInv' /\ exec'[r].pc = "work" /\ exec'[r].phase = exec[r].phase
      /\ \A q \in Run \ {r} : exec'[q] = exec[q]
  BY <1>0, <1>1, TriesAgain
<1>4. UNCHANGED <<generation, plan, steering>>
  BY <1>1 DEF steeringRows
<1>5. /\ Closed(r)' = Closed(r) /\ PendingOf(r)' = PendingOf(r)
      /\ UNCHANGED <<runStatus, itemRun, attStatus>>
  BY <1>1, <1>4, StillStore
<1>6. PICK p : p = [planning[r] EXCEPT !.fallback = TRUE, !.answered = TRUE]
  OBVIOUS
<1>9. /\ p.stage = planning[r].stage /\ p.tries = planning[r].tries
      /\ p.fallback /\ p.local = planning[r].local
      /\ p.id = planning[r].id /\ p.answered /\ p \in PlanningState
  BY <1>0, <1>6 DEF PlanningState
<1>10. planning' = [planning EXCEPT ![r] = p] /\ planning'[r] = p
  BY <1>0, <1>1, <1>6
<1>11. planning[r].tries # MaxTries
  BY <1>0, <1>1 DEF Hands
<1>13. Hands(r)'
  BY <1>0, <1>1, <1>2, <1>4, <1>5, <1>9, <1>10, <1>11 DEF Hands
<1>14. Stages(r)' /\ Decided(r)'
  BY <1>0, <1>1, <1>2, <1>4, <1>5, <1>9, <1>10 DEF Stages, Decided
<1> QED BY <1>1, <1>2, <1>9, <1>10, <1>13, <1>14, PlanningStep

\* The executor decides: the Run's door is closed by then, unless it was stopped.
LEMMA DecideInitiallyKeeps ==
    ASSUME SteeringInv, NEW r \in Run, DecideInitially(r)
    PROVE  SteeringInv'
<1>0. /\ Hands(r) /\ Stages(r) /\ Decided(r) /\ WorkInv /\ planning \in [Run -> PlanningState]
      /\ planning[r] \in PlanningState /\ exec \in [Run -> Exec] /\ exec[r] \in Exec
      /\ HeldByToken(r)
  BY AtWork DEF WorkInv
<1>1. PICK next \in {"persist", "direct"} :
         planning' = [planning EXCEPT ![r] =
            [Undecided EXCEPT !.stage = next, !.fallback = planning[r].fallback]]
  BY DEF DecideInitially
<1>2. /\ exec[r].pc = "work" /\ At(r, "work") /\ exec[r].phase = "initial"
      /\ planning[r].stage = "decision" /\ planning[r].answered
      /\ UNCHANGED <<storeVars, turn, cancel, stop, boot, crashes, steeringRows, submit>>
  BY <1>0 DEF DecideInitially, At, Stages
<1>3. WorkInv'
  <2>1. EndPhase(r)
    BY <1>2 DEF DecideInitially, EndPhase
  <2>2. ExecStep(r)
    BY <2>1 DEF ExecStep
  <2> QED BY <1>0, <2>2, WorkExecStep
<1>4. UNCHANGED <<generation, plan, steering>>
  BY <1>2 DEF steeringRows
<1>5. /\ Closed(r)' = Closed(r) /\ PendingOf(r)' = PendingOf(r)
      /\ UNCHANGED <<runStatus, itemRun, attStatus>>
  BY <1>2, <1>4, StillStore
<1>6. PICK p : p = [Undecided EXCEPT !.stage = next, !.fallback = planning[r].fallback]
  OBVIOUS
<1>7. /\ p.stage = next /\ p.tries = 0 /\ p.fallback = planning[r].fallback /\ p.local = 0
      /\ p.id = NoSteering /\ ~p.answered /\ p \in PlanningState
  <2>1. 0 \in 0..MaxTries /\ next \in Stage
    BY DEF MaxTries, Stage
  <2>2. planning[r].fallback \in BOOLEAN
    BY <1>0 DEF PlanningState
  <2> QED BY <1>6, <2>1, <2>2 DEF Undecided, PlanningState
<1>8. planning' = [planning EXCEPT ![r] = p] /\ planning'[r] = p
  BY <1>0, <1>1, <1>6
<1>9. plan[r] = 0 /\ 0 # MaxTries
  BY <1>0, <1>2 DEF Hands, MaxTries
<1>10. CASE cancel[r] = "active" /\ exec' = [exec EXCEPT ![r].phase = "planning"]
  <2>1. /\ exec'[r].pc = "work" /\ exec'[r].phase = "planning"
        /\ \A q \in Run \ {r} : exec'[q] = exec[q]
    BY <1>0, <1>2, <1>10 DEF Exec
  <2>2. ~planning[r].fallback => Closed(r)
    BY <1>0, <1>2, <1>10 DEF Decided, HeldByToken, Working
  <2>3. Hands(r)'
    BY <1>4, <1>7, <1>8, <1>9, <2>1 DEF Hands
  <2>4. Stages(r)' /\ Decided(r)'
    BY <1>5, <1>7, <1>8, <2>1, <2>2 DEF Stages, Decided
  <2> QED BY <1>2, <1>3, <1>7, <1>8, <2>1, <2>3, <2>4, PlanningStep
<1>11. CASE cancel[r] = "cancelled" /\ GoFail(r, "cancelled")
  <2>0. "fail" \in ExecPc /\ "cancelled" \in GeneralTerminal \union {"none"}
    BY DEF ExecPc, GeneralTerminal
  <2>1. /\ exec'[r].pc = "fail" /\ exec'[r].phase = "initial"
        /\ \A q \in Run \ {r} : exec'[q] = exec[q]
    BY <1>0, <1>11, <2>0, DropFacts DEF GoFail, Moves
  <2>2. Hands(r)'
    BY <1>4, <1>7, <1>8, <1>9, <2>1 DEF Hands
  <2>3. Stages(r)' /\ Decided(r)'
    BY <1>5, <1>7, <1>8, <2>1 DEF Stages, Decided
  <2> QED BY <1>2, <1>3, <1>7, <1>8, <2>1, <2>2, <2>3, PlanningStep
<1> QED BY <1>10, <1>11 DEF DecideInitially

\* The plan step Items, or the return of an executor whose Run ended.
LEMMA AppendPlanKeeps ==
    ASSUME SteeringInv, NEW r \in Run, AppendPlanItems(r)
    PROVE  SteeringInv'
<1>0. /\ Hands(r) /\ Stages(r) /\ Decided(r) /\ WorkInv /\ planning \in [Run -> PlanningState]
      /\ planning[r] \in PlanningState
  BY AtWork
<1>1. /\ At(r, "work") /\ exec[r].pc = "work" /\ exec[r].phase = "planning" /\ planning[r].stage = "items"
      /\ UNCHANGED <<storeVars, turn, stop, boot, crashes, steeringRows, submit>>
  BY DEF AppendPlanItems, Planning, At
<1>2. CASE Return(r) /\ UNCHANGED planning
  BY <1>1, <1>2, LeavesPlanning DEF steeringVars
<1>3. CASE UNCHANGED <<exec, cancel>> /\ planning' = [planning EXCEPT ![r].stage = "checkpoint"]
  <2>1. UNCHANGED <<exec, generation, plan, steering>> /\ WorkInv'
    BY <1>0, <1>1, <1>3, WorkInvStep DEF allVars, workVars, steeringRows
  <2>2. /\ Closed(r)' = Closed(r) /\ PendingOf(r)' = PendingOf(r)
        /\ UNCHANGED <<runStatus, itemRun, attStatus>>
    BY <1>1, <2>1, StillStore
  <2>3. PICK p : p = [planning[r] EXCEPT !.stage = "checkpoint"]
    OBVIOUS
  <2>4. /\ p.stage = "checkpoint" /\ p.tries = planning[r].tries /\ p.fallback = planning[r].fallback
        /\ p.local = planning[r].local /\ p.id = planning[r].id /\ p.answered = planning[r].answered
        /\ p \in PlanningState
    BY <1>0, <2>3 DEF PlanningState, Stage
  <2>5. planning' = [planning EXCEPT ![r] = p] /\ planning'[r] = p
    BY <1>0, <1>3, <2>3
  <2>6. Hands(r)'
    BY <1>0, <1>1, <2>1, <2>2, <2>4, <2>5 DEF Hands, MaxTries
  <2>7. Stages(r)' /\ Decided(r)'
    BY <1>0, <1>1, <2>1, <2>2, <2>4, <2>5 DEF Stages, Decided, Hands
  <2> QED BY <1>1, <2>1, <2>4, <2>5, <2>6, <2>7, PlanningStep
<1> QED BY <1>2, <1>3 DEF AppendPlanItems

\* The Plan is stored with the Run's revision, or the executor returns.
LEMMA PersistKeeps ==
    ASSUME SteeringInv, NEW r \in Run, PersistWorkPlan(r)
    PROVE  SteeringInv'
<1>0. /\ Hands(r) /\ Stages(r) /\ Decided(r) /\ WorkInv /\ planning \in [Run -> PlanningState]
      /\ planning[r] \in PlanningState /\ SteeringTypeOK /\ Revision(r)
      /\ plan \in [Run -> Nat] /\ planRevision \in [Run -> Nat]
  BY AtWork DEF SteeringInv, SteeringTypeOK
<1>1. /\ At(r, "work") /\ exec[r].pc = "work" /\ exec[r].phase = "planning"
      /\ planning[r].stage = "persist"
      /\ UNCHANGED <<storeVars, turn, stop, boot, crashes, generation, planRevision, steering,
                     message, submit>>
  BY DEF PersistWorkPlan, Planning, At
<1>2. CASE Return(r) /\ UNCHANGED <<plan, planning>>
  BY <1>1, <1>2, LeavesPlanning DEF steeringVars, steeringRows
<1>3. CASE /\ UNCHANGED <<exec, cancel>>
           /\ plan' = [plan EXCEPT ![r] = planRevision[r]]
           /\ planning' = [planning EXCEPT ![r].stage = "items", ![r].local = planRevision[r]]
  <2>1. UNCHANGED <<exec, generation, steering>> /\ WorkInv'
    BY <1>0, <1>1, <1>3, WorkInvStep DEF allVars, workVars
  <2>2. /\ Closed(r)' = Closed(r) /\ PendingOf(r)' = PendingOf(r)
        /\ UNCHANGED <<runTask, runStatus, itemRun, attStatus>>
        /\ Grows /\ CompletedStays /\ WritesOnly(r) /\ SteeringsStay
        /\ \A i \in generation' : itemRun'[i] # NoRun
    BY <1>1, <2>1, StillStore
  <2>3. PICK p : p = [planning[r] EXCEPT !.stage = "items", !.local = planRevision[r]]
    OBVIOUS
  <2>4. /\ p.stage = "items" /\ p.tries = planning[r].tries /\ p.fallback = planning[r].fallback
        /\ p.local = planRevision[r] /\ p.id = planning[r].id /\ p.answered = planning[r].answered
        /\ p \in PlanningState
    BY <1>0, <2>3 DEF PlanningState, Stage
  <2>5. /\ planning'[r] = p /\ planning' \in [Run -> PlanningState]
        /\ \A q \in Run \ {r} : planning'[q] = planning[q]
    BY <1>0, <1>3, <2>3, <2>4
  <2>6. /\ plan'[r] = planRevision[r] /\ plan' \in [Run -> Nat]
        /\ \A q \in Run \ {r} : plan'[q] = plan[q]
    BY <1>0, <1>3
  <2>7. Hands(r)'
    BY <1>0, <1>1, <2>1, <2>2, <2>4, <2>5, <2>6 DEF Hands, MaxTries
  <2>8. Stages(r)' /\ Decided(r)'
    BY <1>0, <1>1, <2>1, <2>2, <2>4, <2>5 DEF Stages, Decided, Hands
  <2>9. Revision(r)'
    <3>1. Applied(r)' = Applied(r)
      BY <2>2, SameSteerings
    <3>2. runTask[r] # NoTask
      BY <1>0, <1>1 DEF WorkInv, ExecInv, HoldsTurn
    <3> QED BY <1>0, <1>1, <2>2, <2>6, <3>1, <3>2 DEF Revision
  <2>10. SteeringTypeOK'
    BY <1>0, <1>1, <2>1, <2>5, <2>6 DEF SteeringTypeOK, PlanningState, WorkInv, ExecInv
  <2>11. RowsAgree' /\ OnePending' /\ SubmitHolds'
    BY <1>1, <2>2, RowsKeep
  <2>12. ASSUME NEW q \in Run \ {r}
         PROVE  Revision(q)' /\ Hands(q)' /\ Stages(q)' /\ Decided(q)'
    BY <1>1, <2>1, <2>2, <2>5, <2>6, OthersKeep
  <2> QED BY <2>1, <2>7, <2>8, <2>9, <2>10, <2>11, <2>12 DEF SteeringInv
<1> QED BY <1>2, <1>3 DEF PersistWorkPlan

-----------------------------------------------------------------------------
(* Steps of the executor that write the task store. *)

\* A Run begins with its first revision and no Steering.
LEMMA BeginRunKeeps ==
    ASSUME SteeringInv, NEW r \in Run, BeginRunWithRevision(r)
    PROVE  SteeringInv'
<1>0. /\ Hands(r) /\ Stages(r) /\ Decided(r) /\ WorkInv /\ SteeringTypeOK /\ Revision(r)
      /\ exec \in [Run -> Exec] /\ HeldByToken(r) /\ RowsAgree /\ StoreInv
      /\ planRevision \in [Run -> Nat] /\ "begun" \in ExecPc
  BY AtWork DEF SteeringInv, SteeringTypeOK, WorkInv, ExecInv, ExecPc
<1>1. /\ exec[r].pc = "turn" /\ BeginRun(r) /\ Goto(r, "begun")
      /\ planRevision' = [planRevision EXCEPT ![r] = 1]
      /\ UNCHANGED <<generation, plan, steering, message, submit, planning>>
  BY DEF BeginRunWithRevision, BeginRun, At
<1>2. runTask[r] = NoTask /\ BeginGeneralTaskRun(exec[r].task, r)
  BY <1>0, <1>1 DEF HeldByToken, BeginRun
<1>3. UNCHANGED <<itemRun, itemKind, itemStatus, attItem, attStatus>>
  BY <1>2 DEF BeginGeneralTaskRun, itemVars, attVars
<1>4. ExecStep(r)
  BY <1>1 DEF ExecStep
<1>5. WorkInv' /\ Grows /\ WritesOnly(r) /\ CompletedStays
  BY <1>4, ExecFacts
<1>6. /\ exec'[r].pc = "begun" /\ exec'[r].phase = exec[r].phase
      /\ \A q \in Run \ {r} : exec'[q] = exec[q]
  BY <1>0, <1>1, GotoFacts DEF Moves
<1>7. SteeringsStay /\ \A i \in generation' : itemRun'[i] # NoRun
  BY <1>0, <1>1, <1>3 DEF SteeringsStay, RowsAgree
<1>8. RowsAgree' /\ OnePending' /\ SubmitHolds'
  BY <1>1, <1>5, <1>7, RowsKeep
<1>9. /\ planRevision'[r] = 1 /\ planRevision' \in [Run -> Nat]
      /\ \A q \in Run \ {r} : planRevision'[q] = planRevision[q]
  BY <1>0, <1>1
<1>10. SteeringTypeOK'
  BY <1>0, <1>1, <1>5, <1>9 DEF SteeringTypeOK, WorkInv, ExecInv
<1>11. ASSUME NEW q \in Run \ {r}
       PROVE  Revision(q)' /\ Hands(q)' /\ Stages(q)' /\ Decided(q)'
  BY <1>1, <1>5, <1>6, <1>7, <1>9, OthersKeep
<1>12. planning[r] = Undecided
  BY <1>0, <1>1 DEF Hands
<1>13. /\ Undecided.stage = "goal" /\ Undecided.tries = 0 /\ Undecided.local = 0
       /\ Undecided.id = NoSteering /\ ~Undecided.answered /\ 0 < MaxTries /\ MaxTries # 0
  BY DEF Undecided, MaxTries
<1>14. Hands(r)'
  <2>1. plan[r] = 0
    BY <1>0, <1>1, <1>12, <1>13 DEF Hands
  <2> QED BY <1>1, <1>6, <1>12, <1>13, <2>1 DEF Hands
<1>15. Stages(r)' /\ Decided(r)'
  BY <1>0, <1>1, <1>6, <1>12, <1>13 DEF Stages, Decided
<1>16. Revision(r)'
  <2>1. \A s \in Steering : itemRun[s] # r
    <3>1. RowsConsistent
      BY <1>0 DEF StoreInv
    <3>2. r # NoRun
      OBVIOUS
    <3> QED BY <1>2, <3>1, <3>2 DEF RowsConsistent
  <2>2. Applied(r)' = {}
    BY <1>3, <2>1 DEF Applied
  <2>3. plan'[r] = 0
    BY <1>0, <1>1, <1>2 DEF Revision
  <2> QED BY <1>9, <2>2, <2>3 DEF Revision
<1> QED BY <1>5, <1>8, <1>10, <1>11, <1>14, <1>15, <1>16 DEF SteeringInv

\* A provider call opens.  What it asks for decides whether it is a generation.
LEMMA ProviderCallKeeps ==
    ASSUME SteeringInv, NEW r \in Run, NEW i \in FreshItem, ProviderCall(r, i)
    PROVE  SteeringInv'
<1>0. /\ Hands(r) /\ Stages(r) /\ Decided(r) /\ WorkInv /\ SteeringTypeOK
      /\ exec \in [Run -> Exec] /\ exec[r] \in Exec /\ RowsAgree
      /\ itemRun \in [Item -> Run \union {NoRun}] /\ generation \subseteq Item
      /\ itemKind \in [Item -> CanonicalTaskItemKind \union {"none"}]
  BY AtWork DEF SteeringInv, SteeringTypeOK, WorkInv, ExecInv, WorkTypeOK, StoreTypeOK
<1>1. i \in Item \ (Review \union Steering)
  BY DEF FreshItem, Fresh
<1>2. /\ exec[r].pc = "work" /\ MayCall(r) /\ AppendGeneralItem(r, i, "provider_generation")
      /\ exec' = [exec EXCEPT ![r].pc = "start", ![r].item = i]
      /\ UNCHANGED <<planRevision, plan, steering, message, submit, planning>>
      /\ generation' \in {generation, generation \union {i}}
      /\ planning[r].stage # "goal" /\ Asking(r) => i \in generation'
  <2>1. \/ planning[r].stage # "goal" /\ generation' = generation \union {i}
        \/ /\ planning[r].stage = "goal" \/ (exec[r].phase = "kernel" /\ ~Asking(r))
           /\ generation' = generation
    BY DEF ProviderCall
  <2>2. /\ generation' \in {generation, generation \union {i}}
        /\ planning[r].stage # "goal" /\ Asking(r) => i \in generation'
    BY <2>1
  <2> QED BY <2>2 DEF ProviderCall, ProviderAppend, At
<1>3. ExecStep(r)
  BY <1>1 DEF ProviderCall, ExecStep
<1>4. WorkInv' /\ Grows /\ WritesOnly(r) /\ CompletedStays
  BY <1>3, ExecFacts
<1>5. /\ UNCHANGED <<runTask, runStatus, attStatus>>
      /\ itemRun' = [itemRun EXCEPT ![i] = r]
      /\ itemKind' = [itemKind EXCEPT ![i] = "provider_generation"]
  BY <1>2 DEF AppendGeneralItem, runVars, attVars
<1>6. /\ exec'[r].pc = "start" /\ exec'[r].phase = exec[r].phase /\ exec'[r].item = i
      /\ \A q \in Run \ {r} : exec'[q] = exec[q]
  BY <1>0, <1>2 DEF Exec
<1>7. SteeringsStay /\ \A j \in generation' : itemRun'[j] # NoRun
  <2>1. \A s \in Steering : s \in Item /\ s # i
    BY <1>1
  <2>2. SteeringsStay
    BY <1>0, <1>2, <1>5, <2>1 DEF SteeringsStay
  <2>3. itemRun'[i] = r /\ r # NoRun
    BY <1>0, <1>1, <1>5
  <2>4. \A j \in generation : itemRun'[j] # NoRun
    BY <1>0, <1>4, <1>5, <2>3 DEF RowsAgree, Grows
  <2> QED BY <1>2, <2>2, <2>3, <2>4
<1>8. generation \subseteq generation' /\ generation' \subseteq Item
  BY <1>0, <1>1, <1>2
<1>9. SteeringTypeOK'
  BY <1>0, <1>2, <1>4, <1>8 DEF SteeringTypeOK, WorkInv, ExecInv
<1>10. PendingOf(r)' = PendingOf(r) /\ (Closed(r) => Closed(r)') /\ (Asking(r)' <=> Asking(r))
  BY <1>2, <1>4, <1>7, <1>8, SameSteerings, ClosedStays DEF Asking
<1>11. ~planning[r].answered /\ planning[r].tries # MaxTries
  <2>1. CASE Asking(r) /\ planning[r].tries < MaxTries /\ ~planning[r].answered
    BY <2>1 DEF MaxTries
  <2>2. CASE planning[r].stage = "done"
    <3>1. planning[r].tries = 0 /\ ~planning[r].answered
      BY <1>0, <2>2 DEF Hands
    <3> QED BY <3>1 DEF MaxTries
  <2> QED BY <1>2, <2>1, <2>2 DEF MayCall
<1>12. planning[r].id # NoSteering =>
          steering'[planning[r].id].status = "pending" /\ itemRun'[planning[r].id] = r
  <2>1. planning[r].id \in Steering \union {NoSteering}
    BY <1>0 DEF SteeringTypeOK
  <2> QED BY <1>0, <1>7, <2>1 DEF Hands, SteeringsStay
<1>13. Hands(r)'
  BY <1>0, <1>2, <1>6, <1>10, <1>11, <1>12 DEF Hands
<1>14. Stages(r)' /\ Decided(r)'
  BY <1>0, <1>2, <1>5, <1>6, <1>10, <1>11 DEF Stages, Decided
<1> QED BY <1>2, <1>4, <1>5, <1>6, <1>7, <1>8, <1>9, <1>13, <1>14, SteerLocal

\* A provider answers: an answer that arrives in time completes its Item.
LEMMA ProviderAnswerKeeps ==
    ASSUME SteeringInv, NEW r \in Run, NEW outcome \in {"completed", "failed"}, ProviderAnswer(r, outcome)
    PROVE  SteeringInv'
<1>0. /\ Hands(r) /\ Stages(r) /\ Decided(r) /\ WorkInv /\ SteeringTypeOK
      /\ exec \in [Run -> Exec] /\ exec[r] \in Exec /\ RowsAgree /\ HoldsRows(r)
      /\ itemStatus \in [Item -> CanonicalTaskItemStatus \union {"none"}]
      /\ planning \in [Run -> PlanningState] /\ planning[r] \in PlanningState
  BY AtWork DEF SteeringInv, WorkInv, ExecInv, WorkTypeOK, StoreTypeOK
<1>1. /\ exec[r].pc = "call" /\ ProviderFinish(r, outcome)
      /\ UNCHANGED <<generation, planRevision, plan, steering, message, submit, steeringRows>>
  BY DEF ProviderAnswer, ProviderFinish, At, steeringRows
<1>2. PICK b \in BOOLEAN : /\ b <=> (outcome = "completed" /\ Asking(r))
                          /\ planning' = [planning EXCEPT ![r] = [planning[r] EXCEPT !.answered = b]]
  <2>1. (outcome = "completed" /\ Asking(r)) \in BOOLEAN
    OBVIOUS
  <2>2. planning' = [planning EXCEPT ![r].answered = (outcome = "completed" /\ Asking(r))]
    BY DEF ProviderAnswer
  <2>3. PICK b \in BOOLEAN : b = (outcome = "completed" /\ Asking(r))
    BY <2>1
  <2>4. planning' = [planning EXCEPT ![r].answered = b]
    BY <2>2, <2>3, Zenon
  <2>5. planning' = [planning EXCEPT ![r] = [planning[r] EXCEPT !.answered = b]]
    BY <1>0, <2>4
  <2> QED BY <2>3, <2>5
<1>3. outcome \in DOMAIN AttemptEnd
  BY DEF AttemptEnd
<1>4. ExecStep(r)
  BY <1>1, <1>3 DEF ExecStep
<1>5. WorkInv' /\ Grows /\ WritesOnly(r) /\ CompletedStays
  BY <1>4, ExecFacts
<1>6. UNCHANGED <<runTask, runStatus, itemRun, itemKind>>
  BY <1>1 DEF ProviderFinish, TerminalizeItemAttempt, runVars, storeVars
<1>7. /\ exec'[r].pc = (IF outcome = "completed" THEN "work" ELSE "error")
      /\ exec'[r].phase = exec[r].phase
      /\ \A q \in Run \ {r} : exec'[q] = exec[q]
  <2>1. PICK won \in BOOLEAN :
           exec' = [exec EXCEPT ![r].pc = IF outcome = "completed" THEN "work" ELSE "error",
                                ![r].provider = outcome, ![r].lifecycleError = won,
                                ![r].item = NoItem, ![r].att = NoAttempt]
    <3>1. (exec[r].lifecycleError \/ ~(attStatus[exec[r].att] = "running")) \in BOOLEAN
      OBVIOUS
    <3>2. exec' = [exec EXCEPT ![r].pc = IF outcome = "completed" THEN "work" ELSE "error",
                   ![r].provider = outcome,
                   ![r].lifecycleError = (exec[r].lifecycleError \/ ~(attStatus[exec[r].att] = "running")),
                   ![r].item = NoItem, ![r].att = NoAttempt]
      BY <1>1, Zenon DEF ProviderFinish
    <3> QED BY <3>1, <3>2, Zenon
  <2> QED BY <1>0, <2>1 DEF Exec
<1>8. SteeringsStay /\ \A j \in generation' : itemRun'[j] # NoRun
  BY <1>0, <1>1, <1>6 DEF SteeringsStay, RowsAgree
<1>9. PendingOf(r)' = PendingOf(r) /\ (Closed(r) => Closed(r)')
  BY <1>1, <1>5, <1>8, SameSteerings, ClosedStays
<1>10. PICK p : p = [planning[r] EXCEPT !.answered = b]
  OBVIOUS
<1>11. /\ p.stage = planning[r].stage /\ p.tries = planning[r].tries /\ p.fallback = planning[r].fallback
       /\ p.local = planning[r].local /\ p.id = planning[r].id /\ (p.answered <=> b)
       /\ p \in PlanningState
  BY <1>0, <1>10 DEF PlanningState
<1>12. planning'[r] = p /\ SteeringTypeOK' /\ \A q \in Run \ {r} : planning'[q] = planning[q]
  BY <1>0, <1>1, <1>2, <1>5, <1>10, <1>11, PlanningType
<1>13. planning[r].id # NoSteering =>
          steering'[planning[r].id].status = "pending" /\ itemRun'[planning[r].id] = r
  BY <1>0, <1>1, <1>6 DEF Hands
<1>14. planning[r].tries # MaxTries
  BY <1>0, <1>1 DEF Hands
<1>15. Hands(r)'
  BY <1>0, <1>1, <1>2, <1>7, <1>11, <1>12, <1>13, <1>14 DEF Hands, Asking
<1>16. b /\ planning[r].stage # "goal" => Closed(r)' \/ runStatus'[r] # "running"
  <2> SUFFICES ASSUME b, planning[r].stage # "goal", runStatus[r] = "running"
               PROVE  Closed(r)'
    BY <1>6
  <2>1. exec[r].item \in generation /\ attStatus[exec[r].att] = "running"
    BY <1>0, <1>1, <1>2 DEF Hands
  <2>2. attItem[exec[r].att] = exec[r].item /\ exec[r].item \in Item /\ itemRun[exec[r].item] = r
    BY <1>0, <1>1 DEF HoldsRows, Owns
  <2>3. TerminalizeItemAttempt(exec[r].att, "completed")
    BY <1>1, <1>2, <2>1 DEF ProviderFinish, AttemptEnd
  <2>4. itemStatus'[exec[r].item] = "completed"
    BY <1>0, <2>2, <2>3 DEF TerminalizeItemAttempt
  <2> QED BY <1>1, <1>6, <2>1, <2>2, <2>4 DEF Closed
<1>17. Stages(r)'
  BY <1>0, <1>1, <1>7, <1>11, <1>12 DEF Stages
<1>18. Decided(r)'
  BY <1>0, <1>6, <1>7, <1>9, <1>11, <1>12, <1>16 DEF Decided
<1> QED BY <1>1, <1>5, <1>6, <1>7, <1>8, <1>12, <1>15, <1>17, <1>18, SteerLocal

\* The undecided Steering s of Run r is decided, and its Item with it.
Decides(r, s, v, st) ==
    /\ steering[s].status = "pending" /\ itemRun[s] = r
    /\ steering' = [steering EXCEPT ![s].status = v]
    /\ SettleSteeringItem(s, st)
    /\ UNCHANGED <<workVars, generation, message, submit>>

\* What that leaves of the rows: nothing undecided for the Run.
LEMMA DecidesFacts ==
    ASSUME SteeringInv, NEW r \in Run, NEW s \in Steering, NEW v \in {"applied", "rejected", "blocked"},
           NEW st \in CanonicalTaskItemStatus, Decides(r, s, v, st)
    PROVE  /\ WorkInv' /\ RowsAgree' /\ OnePending' /\ SubmitHolds'
           /\ UNCHANGED <<exec, runTask, runStatus, itemRun, attStatus, generation, submit, message>>
           /\ PendingOf(r)' = {} /\ (Closed(r) => Closed(r)')
           /\ Applied(r)' = IF v = "applied" THEN Applied(r) \union {s} ELSE Applied(r)
           /\ steering' \in [Steering -> [status : SteeringStatus \union {"none"}, base : Nat]]
           /\ \A q \in Run \ {r} : /\ PendingOf(q)' = PendingOf(q) /\ Applied(q)' = Applied(q)
                                   /\ Closed(q) => Closed(q)'
           /\ \A x \in Steering \ {s} : steering'[x] = steering[x]
<1>0. /\ WorkInv /\ RowsAgree /\ OnePending /\ SubmitHolds /\ StoreInv
      /\ steering \in [Steering -> [status : SteeringStatus \union {"none"}, base : Nat]]
      /\ itemRun \in [Item -> Run \union {NoRun}] /\ s \in Item
      /\ itemKind \in [Item -> CanonicalTaskItemKind \union {"none"}]
      /\ itemStatus \in [Item -> CanonicalTaskItemStatus \union {"none"}]
  BY DEF SteeringInv, SteeringTypeOK, WorkInv, ExecInv, StoreInv, StoreTypeOK
<1>1. /\ steering[s].status = "pending" /\ itemRun[s] = r
      /\ steering' = [steering EXCEPT ![s].status = v]
      /\ itemStatus' = [itemStatus EXCEPT ![s] = IF @ = "waiting" THEN st ELSE @]
      /\ UNCHANGED <<taskVars, runVars, itemRun, itemKind, attVars, resultVars, reviewVars, workVars>>
      /\ UNCHANGED <<generation, message, submit>>
  BY DEF Decides, SettleSteeringItem
<1>2. UNCHANGED <<exec, runTask, runStatus, attStatus>>
  BY <1>1 DEF workVars, runVars, attVars
<1>3. itemKind[s] = "steering" /\ runTask[r] # NoTask /\ r # NoRun
  BY <1>0, <1>1 DEF RowsAgree, StoreInv, RowsConsistent
<1>4. WorkInv' /\ Grows
  <2>1. CASE itemStatus[s] = "waiting"
    <3>1. itemStatus' = [itemStatus EXCEPT ![s] = st]
      BY <1>0, <1>1, <2>1
    <3>2. itemRun' = [itemRun EXCEPT ![s] = r] /\ itemKind' = [itemKind EXCEPT ![s] = "steering"]
      BY <1>0, <1>1, <1>3
    <3>3. /\ UNCHANGED <<taskVars, runVars, attVars, resultVars, reviewVars, workVars>>
          /\ itemRun[s] \in {NoRun, r} /\ st \in CanonicalTaskItemStatus \union {"none"}
          /\ WorkInv /\ RowsAgree
      BY <1>0, <1>1
    <3> QED BY <1>3, <2>1, <3>1, <3>2, <3>3, SteeringItemWork
  <2>2. CASE itemStatus[s] # "waiting"
    <3>1. UNCHANGED itemStatus
      BY <1>0, <1>1, <2>2
    <3>2. UNCHANGED allVars
      BY <1>1, <3>1
      DEF allVars, storeVars, taskVars, runVars, attVars, resultVars, reviewVars
    <3>3. UNCHANGED <<runTask, itemRun, itemKind, attItem>>
      BY <3>2 DEF allVars, storeVars
    <3> QED BY <1>0, <3>2, <3>3, WorkInvStep DEF Grows
  <2> QED BY <2>1, <2>2
<1>5. CompletedStays
  BY <1>0, <1>1 DEF CompletedStays
<1>6. \A q \in Run : Closed(q) => Closed(q)'
  BY <1>1, <1>4, <1>5, ClosedStays
<1>7. /\ steering'[s].status = v /\ \A x \in Steering \ {s} : steering'[x] = steering[x]
      /\ steering' \in [Steering -> [status : SteeringStatus \union {"none"}, base : Nat]]
  BY <1>0, <1>1 DEF SteeringStatus
<1>8. RowsAgree' /\ SubmitHolds'
  BY <1>0, <1>1, <1>2, <1>3, <1>7 DEF RowsAgree, SubmitHolds
<1>9. OnePending'
  BY <1>0, <1>1, <1>7 DEF OnePending
<1>10. PendingOf(r)' = {}
  BY <1>0, <1>1, <1>3, <1>7 DEF PendingOf, OnePending
<1>11. Applied(r)' = IF v = "applied" THEN Applied(r) \union {s} ELSE Applied(r)
  BY <1>1, <1>7 DEF Applied
<1>12. \A q \in Run \ {r} : PendingOf(q)' = PendingOf(q) /\ Applied(q)' = Applied(q)
  BY <1>1, <1>7 DEF PendingOf, Applied
<1> QED BY <1>1, <1>2, <1>4, <1>6, <1>7, <1>8, <1>9, <1>10, <1>11, <1>12

\* The other Runs are beside it.
LEMMA DecidesOthers ==
    ASSUME SteeringInv, NEW r \in Run, NEW s \in Steering, NEW v \in {"applied", "rejected", "blocked"},
           NEW st \in CanonicalTaskItemStatus, Decides(r, s, v, st), NEW q \in Run \ {r},
           planning'[q] = planning[q], plan'[q] = plan[q], planRevision'[q] = planRevision[q]
    PROVE  Revision(q)' /\ Hands(q)' /\ Stages(q)' /\ Decided(q)'
<1>1. /\ UNCHANGED <<exec, runTask, runStatus, itemRun, attStatus, generation>>
      /\ PendingOf(q)' = PendingOf(q) /\ Applied(q)' = Applied(q) /\ (Closed(q) => Closed(q)')
      /\ \A x \in Steering \ {s} : steering'[x] = steering[x]
  BY DecidesFacts
<1>2. itemRun[s] = r
  BY DEF Decides
<1>3. Beside(q)
  BY <1>1, <1>2 DEF Beside
<1> QED BY <1>3, BesideKeeps

\* The checkpoint's end leaves a planning state with nothing open.
LEMMA CheckpointDoneFacts ==
    ASSUME SteeringInv, NEW r \in Run, NEW n \in Nat, CheckpointDone(r, n)
    PROVE  /\ planning' \in [Run -> PlanningState] /\ \A q \in Run \ {r} : planning'[q] = planning[q]
           /\ planning'[r].stage = "done" /\ planning'[r].tries = 0 /\ planning'[r].local = n
           /\ planning'[r].fallback = planning[r].fallback
           /\ planning'[r].id = NoSteering /\ ~planning'[r].answered
<1>0. planning \in [Run -> PlanningState] /\ planning[r] \in PlanningState
  BY AtWork
<1>1. PICK p : p = [Undecided EXCEPT !.stage = "done", !.local = n, !.fallback = planning[r].fallback]
  OBVIOUS
<1>2. /\ p.stage = "done" /\ p.tries = 0 /\ p.local = n /\ p.fallback = planning[r].fallback
      /\ p.id = NoSteering /\ ~p.answered /\ p \in PlanningState
  <2>1. 0 \in 0..MaxTries /\ "done" \in Stage
    BY DEF MaxTries, Stage
  <2>2. planning[r].fallback \in BOOLEAN
    BY <1>0 DEF PlanningState
  <2> QED BY <1>1, <2>1, <2>2 DEF Undecided, PlanningState
<1>3. planning' = [planning EXCEPT ![r] = p]
  BY <1>1 DEF CheckpointDone
<1> QED BY <1>0, <1>2, <1>3

\* The last try of a replan failed: the Steering is rejected or blocked.
LEMMA ResolveKeeps ==
    ASSUME SteeringInv, NEW r \in Run, ResolvePendingSteering(r)
    PROVE  SteeringInv'
<1>0. /\ Hands(r) /\ Stages(r) /\ Decided(r) /\ WorkInv /\ SteeringTypeOK /\ Revision(r)
      /\ planning[r] \in PlanningState
  BY AtWork DEF SteeringInv
<1>1. PICK s : s = planning[r].id
  OBVIOUS
<1>2. PICK v \in {"rejected", "blocked"} :
         /\ steering' = [steering EXCEPT ![s].status = v]
         /\ SettleSteeringItem(s, IF v = "blocked" THEN "blocked" ELSE "failed")
  BY <1>1 DEF ResolvePendingSteering
<1>3. PICK st : st = IF v = "blocked" THEN "blocked" ELSE "failed"
  OBVIOUS
<1>4. /\ exec[r].pc = "work" /\ planning[r].stage = "checkpoint" /\ planning[r].tries = MaxTries
      /\ CheckpointDone(r, planning[r].local) /\ UNCHANGED <<planRevision, plan>>
      /\ UNCHANGED <<workVars, generation, message, submit>>
  BY DEF ResolvePendingSteering, AtCheckpoint, At
<1>5. s \in Steering /\ steering[s].status = "pending" /\ itemRun[s] = r
  <2>1. planning[r].id # NoSteering
    BY <1>0, <1>4 DEF Hands, MaxTries
  <2> QED BY <1>0, <1>1, <2>1 DEF Hands, PlanningState
<1>6. st \in CanonicalTaskItemStatus
  BY <1>3 DEF CanonicalTaskItemStatus, Terminal, GeneralTerminal
<1>7. Decides(r, s, v, st)
  BY <1>2, <1>3, <1>4, <1>5 DEF Decides
<1>8. /\ WorkInv' /\ RowsAgree' /\ OnePending' /\ SubmitHolds'
      /\ UNCHANGED <<exec, runTask, runStatus, generation, submit, message>>
      /\ PendingOf(r)' = {} /\ (Closed(r) => Closed(r)')
      /\ Applied(r)' = Applied(r)
      /\ steering' \in [Steering -> [status : SteeringStatus \union {"none"}, base : Nat]]
  BY <1>5, <1>6, <1>7, DecidesFacts
<1>9. planning[r].local \in Nat
  BY <1>0 DEF PlanningState
<1>10. /\ planning' \in [Run -> PlanningState] /\ \A q \in Run \ {r} : planning'[q] = planning[q]
       /\ planning'[r].stage = "done" /\ planning'[r].tries = 0
       /\ planning'[r].local = planning[r].local /\ planning'[r].fallback = planning[r].fallback
       /\ planning'[r].id = NoSteering /\ ~planning'[r].answered
  BY <1>4, <1>9, CheckpointDoneFacts
<1>11. SteeringTypeOK'
  BY <1>0, <1>4, <1>8, <1>10 DEF SteeringTypeOK, PlanningState, WorkInv, ExecInv
<1>12. ASSUME NEW q \in Run \ {r}
       PROVE  Revision(q)' /\ Hands(q)' /\ Stages(q)' /\ Decided(q)'
  BY <1>4, <1>5, <1>6, <1>7, <1>10, DecidesOthers
<1>13. Revision(r)'
  BY <1>0, <1>4, <1>8 DEF Revision
<1>14. Hands(r)'
  <2>1. 0 # MaxTries
    BY DEF MaxTries
  <2> QED BY <1>0, <1>4, <1>8, <1>10, <2>1 DEF Hands
<1>15. Stages(r)' /\ Decided(r)'
  BY <1>0, <1>4, <1>8, <1>10 DEF Stages, Decided
<1> QED BY <1>8, <1>11, <1>12, <1>13, <1>14, <1>15 DEF SteeringInv

\* The Steering is applied: the Run adopted none before, and none can follow.
LEMMA ApplyKeeps ==
    ASSUME SteeringInv, NEW r \in Run, ApplyPendingSteeringPlan(r)
    PROVE  SteeringInv'
<1>0. /\ Hands(r) /\ Stages(r) /\ Decided(r) /\ WorkInv /\ SteeringTypeOK /\ Revision(r)
      /\ planning[r] \in PlanningState
      /\ plan \in [Run -> Nat] /\ planRevision \in [Run -> Nat]
  BY AtWork DEF SteeringInv, SteeringTypeOK
<1>1. PICK s, n : s = planning[r].id /\ n = steering[s].base
  OBVIOUS
<1>2. /\ At(r, "work") /\ exec[r].pc = "work" /\ planning[r].stage = "checkpoint" /\ planning[r].answered
      /\ UNCHANGED <<turn, stop, boot, crashes, generation, message, submit>>
  BY DEF ApplyPendingSteeringPlan, AtCheckpoint, At
<1>3. CASE /\ Return(r) \/ (GoFail(r, "blocked") /\ UNCHANGED cancel)
           /\ UNCHANGED <<storeVars, planRevision, plan, steering, planning>>
  <2>1. "blocked" \in GeneralTerminal
    BY DEF GeneralTerminal
  <2> QED BY <1>2, <1>3, <2>1, LeavesPlanning DEF steeringVars, steeringRows
<1>4. CASE /\ steering[s].status = "pending" /\ plan[r] = n
           /\ runStatus[r] = "running" /\ planRevision[r] = n
           /\ planRevision' = [planRevision EXCEPT ![r] = n + 1]
           /\ plan' = [plan EXCEPT ![r] = n + 1]
           /\ steering' = [steering EXCEPT ![s].status = "applied"]
           /\ SettleSteeringItem(s, "completed")
           /\ CheckpointDone(r, n + 1)
           /\ UNCHANGED <<exec, cancel>>
  <2>1. s \in Steering /\ itemRun[s] = r
    <3>1. planning[r].id # NoSteering
      BY <1>0, <1>2 DEF Hands
    <3> QED BY <1>0, <1>1, <3>1 DEF Hands, PlanningState
  <2>2. "completed" \in CanonicalTaskItemStatus
    BY DEF CanonicalTaskItemStatus, Terminal
  <2>3. UNCHANGED <<workVars, generation, message, submit>>
    BY <1>2, <1>4 DEF workVars
  <2>4. Decides(r, s, "applied", "completed")
    BY <1>4, <2>1, <2>3 DEF Decides
  <2>5. /\ WorkInv' /\ RowsAgree' /\ OnePending' /\ SubmitHolds'
        /\ UNCHANGED <<runTask, runStatus, itemRun, attStatus, generation, submit, message>>
        /\ PendingOf(r)' = {} /\ (Closed(r) => Closed(r)')
        /\ Applied(r)' = Applied(r) \union {s}
        /\ steering' \in [Steering -> [status : SteeringStatus \union {"none"}, base : Nat]]
    BY <2>1, <2>2, <2>4, DecidesFacts
  <2>6. runTask[r] # NoTask /\ Closed(r)
    BY <1>0, <1>2, <1>4 DEF WorkInv, ExecInv, HoldsTurn, Decided
  <2>7. s \in PendingOf(r)
    BY <1>4, <2>1 DEF PendingOf
  <2>8. Applied(r) = {} /\ n = 1
    BY <1>0, <1>4, <2>6, <2>7 DEF Revision
  <2>9. n + 1 \in Nat /\ n + 1 = 2
    BY <2>8
  <2>10. /\ planRevision'[r] = 2 /\ plan'[r] = 2
         /\ plan' \in [Run -> Nat] /\ planRevision' \in [Run -> Nat]
         /\ \A q \in Run \ {r} : plan'[q] = plan[q] /\ planRevision'[q] = planRevision[q]
    BY <1>0, <1>4, <2>9
  <2>11. /\ planning' \in [Run -> PlanningState] /\ \A q \in Run \ {r} : planning'[q] = planning[q]
         /\ planning'[r].stage = "done" /\ planning'[r].tries = 0
         /\ planning'[r].local = n + 1 /\ planning'[r].fallback = planning[r].fallback
         /\ planning'[r].id = NoSteering /\ ~planning'[r].answered
    BY <1>4, <2>9, CheckpointDoneFacts
  <2>12. SteeringTypeOK'
    BY <1>0, <1>2, <2>5, <2>10, <2>11 DEF SteeringTypeOK, PlanningState, WorkInv, ExecInv
  <2>13. ASSUME NEW q \in Run \ {r}
         PROVE  Revision(q)' /\ Hands(q)' /\ Stages(q)' /\ Decided(q)'
    BY <2>1, <2>2, <2>4, <2>10, <2>11, DecidesOthers
  <2>14. Revision(r)'
    <3>1. Applied(r)' = {s}
      BY <2>5, <2>8
    <3>2. \E x \in Steering : Applied(r)' = {x}
      BY <2>1, <3>1
    <3> QED BY <2>5, <2>6, <2>10, <3>2 DEF Revision
  <2>15. Hands(r)'
    <3>1. 0 # MaxTries
      BY DEF MaxTries
    <3> QED BY <1>2, <1>4, <2>9, <2>10, <2>11, <3>1 DEF Hands
  <2>16. Stages(r)' /\ Decided(r)'
    BY <1>0, <1>2, <1>4, <2>5, <2>6, <2>11 DEF Stages, Decided
  <2> QED BY <2>5, <2>12, <2>13, <2>14, <2>15, <2>16 DEF SteeringInv
<1> QED BY <1>1, <1>3, <1>4 DEF ApplyPendingSteeringPlan

-----------------------------------------------------------------------------
(* The command. *)

\* A step of the command that writes no row of the task store.
LEMMA CommandKeeps ==
    ASSUME SteeringInv, UNCHANGED <<allVars, generation, planRevision, plan, steering, planning>>,
           message' \in [Steering -> Run \union {NoRun}], SubmitHolds',
           submit' \in [pc : {"idle", "append", "submit"}, id : Steering \union {NoSteering},
                        run : Run \union {NoRun}, base : Nat]
    PROVE  SteeringInv'
<1>1. WorkInv /\ WorkInv' /\ SteeringTypeOK /\ UNCHANGED <<storeVars, exec>>
  BY WorkInvStep DEF SteeringInv, allVars, workVars
<1>2. SteeringTypeOK'
  BY <1>1 DEF SteeringTypeOK, WorkInv, ExecInv
<1>3. ASSUME NEW r \in Run
      PROVE  Revision(r)' /\ Hands(r)' /\ Stages(r)' /\ Decided(r)'
  <2>1. /\ SteeringsStay /\ UNCHANGED <<runTask, runStatus, itemRun, attStatus>>
        /\ Closed(r)' = Closed(r) /\ PendingOf(r)' = PendingOf(r)
    BY <1>1, StillStore
  <2>2. Applied(r)' = Applied(r)
    BY <2>1, SameSteerings
  <2>3. Beside(r)
    BY <1>1, <2>1, <2>2 DEF Beside
  <2> QED BY <2>3, BesideKeeps
<1>4. UNCHANGED <<itemRun, itemKind>> /\ RowsAgree /\ OnePending
  BY <1>1 DEF storeVars, SteeringInv
<1>5. RowsAgree' /\ OnePending'
  BY <1>4 DEF RowsAgree, OnePending
<1> QED BY <1>1, <1>2, <1>3, <1>5 DEF SteeringInv

\* The command takes the lock and checks.
LEMMA ValidateKeeps ==
    ASSUME SteeringInv, NEW s \in Steering, NEW r \in Run, ValidateSteering(s, r)
    PROVE  SteeringInv'
<1>0. planRevision[r] \in Nat /\ message \in [Steering -> Run \union {NoRun}]
  BY DEF SteeringInv, SteeringTypeOK
<1>1. /\ submit' = [pc |-> "append", id |-> s, run |-> r, base |-> planRevision[r]]
      /\ runTask[r] # NoTask
      /\ UNCHANGED <<allVars, generation, planRevision, plan, steering, message, planning>>
  BY DEF ValidateSteering, steeringRows
<1>2. UNCHANGED runTask
  BY <1>1 DEF allVars, storeVars
<1>3. /\ submit' \in [pc : {"idle", "append", "submit"}, id : Steering \union {NoSteering},
                      run : Run \union {NoRun}, base : Nat]
      /\ submit'.id = s /\ submit'.run = r
  BY <1>0, <1>1
<1>4. SubmitHolds'
  BY <1>1, <1>2, <1>3 DEF SubmitHolds
<1> QED BY <1>0, <1>1, <1>3, <1>4, CommandKeeps

\* The command writes the message.
LEMMA AppendKeeps ==
    ASSUME SteeringInv, AppendWorkSteering
    PROVE  SteeringInv'
<1>0. /\ submit \in [pc : {"idle", "append", "submit"}, id : Steering \union {NoSteering},
                     run : Run \union {NoRun}, base : Nat]
      /\ message \in [Steering -> Run \union {NoRun}] /\ SubmitHolds
  BY DEF SteeringInv, SteeringTypeOK
<1>1. /\ submit.pc = "append"
      /\ UNCHANGED <<allVars, generation, planRevision, plan, steering, planning>>
  BY DEF AppendWorkSteering
<1>2. submit.id \in Steering /\ submit.run \in Run /\ runTask[submit.run] # NoTask /\ UNCHANGED runTask
  BY <1>0, <1>1 DEF SubmitHolds, allVars, storeVars
<1>3. CASE submit' = NoSubmit /\ UNCHANGED message
  <2>1. /\ submit' \in [pc : {"idle", "append", "submit"}, id : Steering \union {NoSteering},
                        run : Run \union {NoRun}, base : Nat]
        /\ submit'.pc = "idle"
    BY <1>3 DEF NoSubmit
  <2>2. SubmitHolds'
    BY <2>1 DEF SubmitHolds
  <2> QED BY <1>0, <1>1, <1>3, <2>1, <2>2, CommandKeeps
<1>4. CASE /\ message' = [message EXCEPT ![submit.id] = submit.run]
           /\ submit' = [submit EXCEPT !.pc = "submit"]
  <2>1. /\ submit' \in [pc : {"idle", "append", "submit"}, id : Steering \union {NoSteering},
                        run : Run \union {NoRun}, base : Nat]
        /\ submit'.id = submit.id /\ submit'.run = submit.run
    BY <1>0, <1>4
  <2>2. SubmitHolds'
    BY <1>2, <2>1 DEF SubmitHolds
  <2>3. message' \in [Steering -> Run \union {NoRun}]
    BY <1>0, <1>2, <1>4
  <2> QED BY <1>1, <2>1, <2>2, <2>3, CommandKeeps
<1> QED BY <1>3, <1>4 DEF AppendWorkSteering

\* The command inserts the Steering behind an open door, or nothing.
LEMMA SubmitKeeps ==
    ASSUME SteeringInv, SubmitSteering
    PROVE  SteeringInv'
<1>0. /\ submit \in [pc : {"idle", "append", "submit"}, id : Steering \union {NoSteering},
                     run : Run \union {NoRun}, base : Nat]
      /\ WorkInv /\ RowsAgree /\ OnePending /\ SubmitHolds /\ SteeringTypeOK /\ StoreInv
      /\ message \in [Steering -> Run \union {NoRun}]
      /\ steering \in [Steering -> [status : SteeringStatus \union {"none"}, base : Nat]]
      /\ itemRun \in [Item -> Run \union {NoRun}] /\ generation \subseteq Item
      /\ itemKind \in [Item -> CanonicalTaskItemKind \union {"none"}]
      /\ itemStatus \in [Item -> CanonicalTaskItemStatus \union {"none"}]
  BY DEF SteeringInv, SteeringTypeOK, WorkInv, ExecInv, StoreInv, StoreTypeOK
<1>1. PICK s, r : s = submit.id /\ r = submit.run
  OBVIOUS
<1>2. /\ submit' = NoSubmit
      /\ UNCHANGED <<taskVars, runVars, attVars, resultVars, reviewVars, workVars>>
      /\ UNCHANGED <<generation, planRevision, plan, message, planning>>
  BY DEF SubmitSteering
<1>3. s \in Steering /\ r \in Run /\ runTask[r] # NoTask /\ s \in Item /\ r # NoRun
  <2>1. submit.pc = "submit"
    BY DEF SubmitSteering
  <2> QED BY <1>0, <1>1, <2>1 DEF SubmitHolds
<1>4. /\ submit' \in [pc : {"idle", "append", "submit"}, id : Steering \union {NoSteering},
                      run : Run \union {NoRun}, base : Nat]
      /\ SubmitHolds'
  <2>1. /\ submit' \in [pc : {"idle", "append", "submit"}, id : Steering \union {NoSteering},
                        run : Run \union {NoRun}, base : Nat]
        /\ submit'.pc = "idle"
    BY <1>2 DEF NoSubmit
  <2> QED BY <2>1 DEF SubmitHolds
<1>5. CASE UNCHANGED <<steering, itemVars>>
  <2>1. UNCHANGED allVars
    BY <1>2, <1>5 DEF allVars, storeVars, taskVars, runVars, itemVars, attVars, resultVars, reviewVars
  <2> QED BY <1>0, <1>2, <1>4, <1>5, <2>1, CommandKeeps
<1>6. CASE /\ steering[s].status = "none" /\ Admissible(r, submit.base)
           /\ steering' = [steering EXCEPT ![s] = [status |-> "pending", base |-> submit.base]]
           /\ itemRun' = [itemRun EXCEPT ![s] = r]
           /\ itemKind' = [itemKind EXCEPT ![s] = "steering"]
           /\ itemStatus' = [itemStatus EXCEPT ![s] = "waiting"]
  <2>0. itemRun[s] = NoRun /\ ~CheckpointPassed(r) /\ PendingOf(r) = {}
    BY <1>0, <1>3, <1>6 DEF RowsAgree, Admissible
  <2>1. WorkInv' /\ Grows
    <3>1. "waiting" \in CanonicalTaskItemStatus \union {"none"} /\ itemRun[s] \in {NoRun, r}
      BY <2>0 DEF CanonicalTaskItemStatus
    <3> QED BY <1>0, <1>2, <1>3, <1>6, <2>0, <3>1, SteeringItemWork
  <2>2. UNCHANGED <<exec, runTask, runStatus, attStatus>>
    BY <1>2 DEF workVars, runVars, attVars
  <2>3. CompletedStays
    BY <1>0, <1>6, <2>0 DEF CompletedStays
  <2>4. \A q \in Run : Closed(q) => Closed(q)'
    BY <1>2, <2>1, <2>3, ClosedStays
  <2>5. /\ steering'[s].status = "pending" /\ \A x \in Steering \ {s} : steering'[x] = steering[x]
        /\ steering' \in [Steering -> [status : SteeringStatus \union {"none"}, base : Nat]]
    BY <1>0, <1>3, <1>6 DEF SteeringStatus
  <2>6. itemRun'[s] = r /\ itemKind'[s] = "steering"
        /\ \A x \in Item \ {s} : itemRun'[x] = itemRun[x] /\ itemKind'[x] = itemKind[x]
    BY <1>0, <1>3, <1>6
  <2>7. RowsAgree'
    <3>1. \A i \in generation' : itemRun'[i] # NoRun
      BY <1>0, <1>2, <1>3, <2>6 DEF RowsAgree
    <3>2. \A x \in Steering : /\ steering'[x].status = "none" <=> itemRun'[x] = NoRun
                              /\ itemRun'[x] # NoRun => itemKind'[x] = "steering"
      BY <1>0, <1>3, <2>5, <2>6 DEF RowsAgree
    <3> QED BY <3>1, <3>2 DEF RowsAgree
  <2>8. OnePending'
    <3>1. \A x \in Steering \ {s} : steering[x].status = "pending" => itemRun[x] # r
      BY <2>0 DEF PendingOf
    <3>2. \A x \in Steering \ {s} : itemRun'[x] = itemRun[x] /\ steering'[x].status = steering[x].status
      BY <2>5, <2>6
    <3> QED BY <1>0, <2>5, <2>6, <3>1, <3>2 DEF OnePending
  <2>9. SteeringTypeOK'
    BY <1>0, <1>2, <1>4, <2>1, <2>5 DEF SteeringTypeOK, WorkInv, ExecInv
  <2>10. ASSUME NEW q \in Run \ {r}
         PROVE  Revision(q)' /\ Hands(q)' /\ Stages(q)' /\ Decided(q)'
    <3>1. \A x \in Steering \ {s} : itemRun'[x] = itemRun[x] /\ steering'[x] = steering[x]
      BY <2>5, <2>6
    <3>2. q # NoRun
      OBVIOUS
    <3>3. PendingOf(q)' = PendingOf(q) /\ Applied(q)' = Applied(q)
      BY <1>3, <2>0, <2>6, <3>1, <3>2 DEF PendingOf, Applied
    <3>4. Beside(q)
      BY <1>2, <2>0, <2>2, <2>4, <3>1, <3>2, <3>3 DEF Beside
    <3> QED BY <3>4, BesideKeeps
  <2>11. /\ ~Closed(r) /\ Revision(r) /\ Hands(r) /\ Stages(r) /\ Decided(r)
         /\ planning[r].id \in Steering \union {NoSteering}
    BY <1>3, <2>0 DEF SteeringInv, SteeringTypeOK, Closed, CheckpointPassed
  <2>12. Applied(r)' = Applied(r)
    <3>1. \A x \in Steering \ {s} : itemRun'[x] = itemRun[x] /\ steering'[x] = steering[x]
      BY <2>5, <2>6
    <3> QED BY <1>3, <2>0, <2>5, <3>1 DEF Applied
  <2>13. planning[r].id = NoSteering
    BY <2>0, <2>11 DEF Hands, PendingOf
  <2>14. Revision(r)'
    BY <1>2, <2>2, <2>11, <2>12 DEF Revision
  <2>15. Hands(r)'
    <3>1. Asking(r)' <=> Asking(r)
      BY <1>2 DEF Asking
    <3> QED BY <1>2, <2>2, <2>11, <2>13, <3>1 DEF Hands
  <2>16. Stages(r)' /\ Decided(r)'
    BY <1>2, <2>2, <2>11 DEF Stages, Decided
  <2> QED BY <1>3, <1>4, <2>1, <2>7, <2>8, <2>9, <2>10, <2>14, <2>15, <2>16 DEF SteeringInv
<1> QED BY <1>1, <1>5, <1>6 DEF SubmitSteering

-----------------------------------------------------------------------------
(* Stop, restart, crash and startup. *)

\* Steps that may end Runs and touch neither executors nor the Steering rows.
LEMMA AsideKeeps ==
    ASSUME SteeringInv, WorkInv', Grows, CompletedStays, UNCHANGED steeringVars,
           UNCHANGED <<exec, runTask, itemRun, itemKind, attItem>>,
           \A q \in Run : runStatus'[q] = "running" => runStatus[q] = "running",
           \A a \in Attempt : \/ attStatus'[a] = attStatus[a]
                              \/ /\ attItem[a] # NoItem
                                 /\ runStatus'[itemRun[attItem[a]]] # "running"
    PROVE  SteeringInv'
<1>1. UNCHANGED <<generation, planRevision, plan, steering, message, submit, planning>>
  BY DEF steeringVars, steeringRows
<1>2. SteeringsStay /\ RowsAgree /\ SteeringTypeOK
  BY <1>1 DEF SteeringsStay, SteeringInv
<1>3. SteeringTypeOK' /\ RowsAgree' /\ OnePending' /\ SubmitHolds'
  <2>1. \A i \in generation' : itemRun'[i] # NoRun
    BY <1>1, <1>2 DEF RowsAgree
  <2> QED BY <1>1, <1>2, <2>1, SteeringTypeKeeps, RowsKeep
<1>4. ASSUME NEW q \in Run
      PROVE  Revision(q)' /\ Hands(q)' /\ Stages(q)' /\ Decided(q)'
  <2>1. PendingOf(q)' = PendingOf(q) /\ Applied(q)' = Applied(q)
    BY <1>2, SameSteerings
  <2>2. Closed(q) => Closed(q)'
    BY <1>1, ClosedStays
  <2>3. exec[q].pc \in {"admit", "call"} =>
           attStatus'[exec[q].att] = attStatus[exec[q].att] \/ runStatus'[q] # "running"
    <3>1. HoldsRows(q)
      BY DEF SteeringInv, WorkInv, ExecInv
    <3> QED BY <3>1 DEF HoldsRows, Owns
  <2>4. Beside(q)
    BY <1>1, <2>1, <2>2, <2>3 DEF Beside
  <2> QED BY <2>4, BesideKeeps
<1> QED BY <1>3, <1>4 DEF SteeringInv

\* Stop.
LEMMA SteerStopKeeps ==
    ASSUME SteeringInv, NEW r \in Run, SteerStopStep(r) \/ (RequestStop(r) /\ UNCHANGED steeringVars)
    PROVE  SteeringInv'
<1>0. WorkInv /\ StoreInv /\ UNCHANGED steeringVars /\ UNCHANGED exec
      /\ runStatus \in [Run -> CanonicalTaskStatus \union {"none"}]
  BY DEF SteeringInv, WorkInv, ExecInv, StoreInv, StoreTypeOK, SteerStopStep, RequestStop, RequestCancel,
         StopTurn, StopRun
<1>1. WorkInv'
  BY <1>0, WorkStopStep DEF SteerStopStep, StopStep
<1>2. CASE UNCHANGED storeVars
  <2>1. UNCHANGED <<runTask, runStatus, itemRun, itemKind, itemStatus, attItem, attStatus>>
    BY <1>2 DEF storeVars
  <2>2. Grows /\ CompletedStays
    BY <2>1 DEF Grows, CompletedStays
  <2> QED BY <1>0, <1>1, <2>1, <2>2, AsideKeeps
<1>3. CASE TerminalizeGeneralRun(r, "cancelled")
  <2>1. /\ UNCHANGED <<runTask, itemRun, itemKind, attItem>> /\ CloseWorkOf({r}, "cancelled")
        /\ runStatus' = [runStatus EXCEPT ![r] = "cancelled"]
    BY <1>3 DEF TerminalizeGeneralRun, CloseWorkOf
  <2>2. Grows /\ CompletedStays
    BY <2>1 DEF Grows, CompletedStays, CloseWorkOf
  <2>3. \A q \in Run : runStatus'[q] = "running" => runStatus[q] = "running"
    BY <1>0, <2>1
  <2>4. runStatus'[r] # "running"
    BY <1>0, <2>1
  <2>5. \A a \in Attempt : \/ attStatus'[a] = attStatus[a]
                           \/ /\ attItem[a] # NoItem /\ runStatus'[itemRun[attItem[a]]] # "running"
    BY <2>1, <2>4 DEF CloseWorkOf
  <2> QED BY <1>0, <1>1, <2>1, <2>2, <2>3, <2>5, AsideKeeps
<1> QED BY <1>2, <1>3 DEF SteerStopStep, RequestStop, RequestCancel, StopTurn, StopRun

\* Startup.
LEMMA SteerBootKeeps ==
    ASSUME SteeringInv, SteerBootStep
    PROVE  SteeringInv'
<1>0. WorkInv /\ BootStep /\ UNCHANGED steeringVars /\ UNCHANGED exec
      /\ runStatus \in [Run -> CanonicalTaskStatus \union {"none"}]
  BY DEF SteeringInv, WorkInv, ExecInv, StoreInv, StoreTypeOK, SteerBootStep, BootStep, BootTurns, BootRuns
<1>1. WorkInv'
  BY <1>0, WorkBoot
<1>2. CASE UNCHANGED storeVars
  <2>1. UNCHANGED <<runTask, runStatus, itemRun, itemKind, itemStatus, attItem, attStatus>>
    BY <1>2 DEF storeVars
  <2>2. Grows /\ CompletedStays
    BY <2>1 DEF Grows, CompletedStays
  <2> QED BY <1>0, <1>1, <2>1, <2>2, AsideKeeps
<1>3. CASE RecoverInterruptedGeneralRuns
  <2>1. PICK R : /\ R = {q \in Run : runStatus[q] = "running"}
                 /\ runStatus' = [q \in Run |-> IF q \in R THEN "interrupted" ELSE runStatus[q]]
                 /\ CloseWorkOf(R, "interrupted") /\ UNCHANGED runTask
    BY <1>3 DEF RecoverInterruptedGeneralRuns
  <2>2. UNCHANGED <<itemRun, itemKind, attItem>> /\ Grows /\ CompletedStays
    BY <2>1 DEF Grows, CompletedStays, CloseWorkOf
  <2>3. \A q \in Run : runStatus'[q] # "running"
    BY <2>1
  <2>4. \A a \in Attempt : \/ attStatus'[a] = attStatus[a]
                           \/ /\ attItem[a] # NoItem /\ runStatus'[itemRun[attItem[a]]] # "running"
    BY <2>1, <2>3 DEF CloseWorkOf
  <2> QED BY <1>0, <1>1, <2>1, <2>2, <2>3, <2>4, AsideKeeps
<1> QED BY <1>0, <1>2, <1>3 DEF BootStep, BootTurns, BootRuns

\* A request: the executor that it starts has decided nothing.
LEMMA SteerUserKeeps ==
    ASSUME SteeringInv, UserStep, UNCHANGED steeringVars
    PROVE  SteeringInv'
<1>0. WorkInv /\ SteeringTypeOK /\ exec \in [Run -> Exec]
  BY DEF SteeringInv, WorkInv, ExecInv, WorkTypeOK
<1>1. ASSUME NEW r \in Run, RequestStop(r)
      PROVE  SteeringInv'
  BY <1>1, SteerStopKeeps
<1>2. ASSUME NEW r \in Run, NEW t \in Task, At(r, "idle"), Call(r, t), UNCHANGED storeVars
      PROVE  SteeringInv'
  <2>1. WorkInv'
    BY <1>0, WorkUserStep
  <2>2. /\ exec[r].pc = "idle" /\ exec'[r].pc = "called" /\ exec'[r].phase = "initial"
        /\ \A q \in Run \ {r} : exec'[q] = exec[q]
    BY <1>0, <1>2, CallFacts DEF At
  <2>3. UNCHANGED <<generation, planRevision, plan, steering, submit, planning>>
    BY DEF steeringVars, steeringRows
  <2>4. /\ Grows /\ CompletedStays /\ WritesOnly(r) /\ SteeringsStay /\ UNCHANGED runTask
        /\ \A i \in generation' : itemRun'[i] # NoRun
    BY <1>2, <2>3, StillStore
  <2>5. SteeringTypeOK'
    BY <1>0, <2>1, SteeringTypeKeeps
  <2>6. Hands(r) /\ planning[r] = Undecided
    BY <2>2 DEF SteeringInv, Hands
  <2>7. /\ Undecided.stage = "goal" /\ Undecided.tries = 0 /\ Undecided.id = NoSteering
        /\ Undecided.local = 0 /\ ~Undecided.answered /\ 0 < MaxTries /\ MaxTries # 0
    BY DEF Undecided, MaxTries
  <2>8. Hands(r)'
    BY <2>2, <2>3, <2>6, <2>7 DEF Hands
  <2>9. Stages(r)' /\ Decided(r)'
    BY <2>2, <2>3, <2>6, <2>7 DEF Stages, Decided
  <2> QED BY <2>1, <2>2, <2>3, <2>4, <2>5, <2>8, <2>9, SteerLocal
<1> QED BY <1>1, <1>2 DEF UserStep, StartWork, RestartWork

\* A crash: what was undecided stays undecided, and every executor is gone.
LEMMA SteerCrashKeeps ==
    ASSUME SteeringInv, SteerCrash
    PROVE  SteeringInv'
<1>0. /\ WorkInv /\ WorkTypeOK /\ SteeringTypeOK /\ RowsAgree /\ OnePending /\ Crash
      /\ exec \in [Run -> Exec]
  BY DEF SteeringInv, WorkInv, ExecInv, WorkTypeOK, SteerCrash
<1>1. WorkInv'
  BY <1>0, WorkCrash
<1>2. /\ submit' = NoSubmit /\ planning' = [r \in Run |-> Undecided]
      /\ UNCHANGED <<storeVars, generation, planRevision, plan, steering, message>>
  BY DEF SteerCrash, Crash, steeringRows
<1>3. UNCHANGED <<itemRun, itemKind>>
  BY <1>2 DEF storeVars
<1>4. RowsAgree' /\ OnePending'
  BY <1>0, <1>2, <1>3 DEF RowsAgree, OnePending
<1>5. /\ submit' \in [pc : {"idle", "append", "submit"}, id : Steering \union {NoSteering},
                      run : Run \union {NoRun}, base : Nat]
      /\ submit'.pc = "idle"
  BY <1>2 DEF NoSubmit
<1>6. SubmitHolds'
  BY <1>5 DEF SubmitHolds
<1>7. planning' \in [Run -> PlanningState]
  BY <1>2, UndecidedType
<1>8. SteeringTypeOK'
  BY <1>0, <1>1, <1>2, <1>5, <1>7 DEF SteeringTypeOK, PlanningState, WorkInv, ExecInv
<1>9. /\ Undecided.stage = "goal" /\ Undecided.tries = 0 /\ Undecided.id = NoSteering
      /\ Undecided.local = 0 /\ ~Undecided.answered /\ 0 < MaxTries /\ MaxTries # 0
  BY DEF Undecided, MaxTries
<1>10. ASSUME NEW r \in Run
       PROVE  Revision(r)' /\ Hands(r)' /\ Stages(r)' /\ Decided(r)'
  <2>0. Revision(r) /\ Hands(r) /\ Stages(r) /\ exec[r] \in Exec
    BY <1>0 DEF SteeringInv
  <2>1. exec'[r] = IF exec[r].pc = "idle" THEN exec[r]
                   ELSE [NotStarted EXCEPT !.pc = "exit", !.task = exec[r].task]
    BY <1>0 DEF Crash
  <2>2. exec[r].pc = "idle" => exec[r].phase = "initial" /\ plan[r] = 0
    BY <1>9, <2>0 DEF Hands, Stages
  <2>3. /\ exec'[r].pc = "idle" \/ exec'[r].pc = "exit"
        /\ exec'[r].pc = "idle" => exec[r].pc = "idle"
        /\ exec'[r].phase = "initial"
    BY <2>1, <2>2 DEF NotStarted
  <2>4. planning'[r] = Undecided
    BY <1>2
  <2>5. /\ SteeringsStay /\ UNCHANGED <<runTask, runStatus>>
        /\ Closed(r)' = Closed(r) /\ PendingOf(r)' = PendingOf(r)
    BY <1>2, StillStore
  <2>6. Revision(r)'
    <3>1. Applied(r)' = Applied(r)
      BY <2>5, SameSteerings
    <3> QED BY <1>2, <2>0, <2>5, <3>1 DEF Revision
  <2>7. Hands(r)'
    BY <1>2, <1>9, <2>2, <2>3, <2>4 DEF Hands
  <2>8. Stages(r)' /\ Decided(r)'
    BY <1>9, <2>3, <2>4 DEF Stages, Decided
  <2> QED BY <2>6, <2>7, <2>8
<1> QED BY <1>1, <1>4, <1>6, <1>8, <1>10 DEF SteeringInv

-----------------------------------------------------------------------------
(* The theorems. *)

\* The invariant holds at first.
LEMMA SteeringInvInit == SteeringInit => SteeringInv
<1> SUFFICES ASSUME SteeringInit
             PROVE  SteeringInv
  OBVIOUS
<1>1. WorkInit /\ WorkInv
  BY WorkInvInit DEF SteeringInit
<1>2. /\ generation = {} /\ planRevision = [r \in Run |-> 0] /\ plan = [r \in Run |-> 0]
      /\ steering = [s \in Steering |-> [status |-> "none", base |-> 0]]
      /\ message = [s \in Steering |-> NoRun] /\ submit = NoSubmit
      /\ planning = [r \in Run |-> Undecided]
      /\ itemRun = [i \in Item |-> NoRun] /\ runTask = [r \in Run |-> NoTask]
      /\ exec = [r \in Run |-> NotStarted]
  BY <1>1 DEF SteeringInit, WorkInit, StoreInit
<1>3. SteeringTypeOK
  <2>1. submit \in [pc : {"idle", "append", "submit"}, id : Steering \union {NoSteering},
                    run : Run \union {NoRun}, base : Nat]
    BY <1>2 DEF NoSubmit
  <2>2. planning \in [Run -> PlanningState]
    BY <1>2, UndecidedType
  <2>3. /\ steering \in [Steering -> [status : SteeringStatus \union {"none"}, base : Nat]]
        /\ planRevision \in [Run -> Nat] /\ plan \in [Run -> Nat] /\ generation \subseteq Item
        /\ message \in [Steering -> Run \union {NoRun}]
    BY <1>2
  <2> QED BY <1>1, <2>1, <2>2, <2>3 DEF SteeringTypeOK, PlanningState, WorkInv, ExecInv
<1>4. \A s \in Steering : s \in Item /\ itemRun[s] = NoRun /\ steering[s].status = "none"
  BY <1>2
<1>5. RowsAgree /\ SubmitHolds /\ OnePending
  BY <1>2, <1>4 DEF RowsAgree, SubmitHolds, OnePending, NoSubmit
<1>6. /\ Undecided.stage = "goal" /\ Undecided.tries = 0 /\ Undecided.id = NoSteering
      /\ Undecided.local = 0 /\ ~Undecided.answered /\ 0 < MaxTries /\ MaxTries # 0
  BY DEF Undecided, MaxTries
<1>7. ASSUME NEW r \in Run
      PROVE  Revision(r) /\ Hands(r) /\ Stages(r) /\ Decided(r)
  <2>1. exec[r].pc = "idle" /\ exec[r].phase = "initial" /\ planning[r] = Undecided /\ plan[r] = 0
        /\ runTask[r] = NoTask
    BY <1>2 DEF NotStarted
  <2>2. Applied(r) = {}
    BY <1>4 DEF Applied
  <2>3. Revision(r)
    BY <2>1, <2>2 DEF Revision
  <2>4. Hands(r)
    BY <1>6, <2>1 DEF Hands
  <2>5. Stages(r) /\ Decided(r)
    BY <1>6, <2>1 DEF Stages, Decided
  <2> QED BY <2>3, <2>4, <2>5
<1> QED BY <1>1, <1>3, <1>5, <1>7 DEF SteeringInv

\* Every step of an executor keeps it.
LEMMA SteerExecKeeps ==
    ASSUME SteeringInv, NEW r \in Run, SteerExecStep(r)
    PROVE  SteeringInv'
<1>1. ASSUME DirectStepRefused(r)
      PROVE  SteeringInv'
  <2>1. "blocked" \in GeneralTerminal
    BY DEF GeneralTerminal
  <2> QED BY <1>1, <2>1, LeavesPlanning DEF DirectStepRefused
<1> QED
  BY <1>1, BeginRunKeeps, ProviderCallKeeps, ProviderAnswerKeeps, AnswerInvalidKeeps, SpendTryKeeps,
     AcceptGoalKeeps, FallBackKeeps, DecideInitiallyKeeps, CheckDirectKeeps, PersistKeeps, AppendPlanKeeps,
     KernelCheckpointKeeps, LoadKeeps, ApplyKeeps, ResolveKeeps, QuietExec
  DEF SteerExecStep

\* Every step keeps it.
LEMMA SteeringInvStep == SteeringInv /\ [SteeringNext]_everything => SteeringInv'
<1> SUFFICES ASSUME SteeringInv, [SteeringNext]_everything
             PROVE  SteeringInv'
  OBVIOUS
<1>1. CASE UNCHANGED everything
  <2>1. /\ UNCHANGED <<allVars, generation, planRevision, plan, steering, planning>>
        /\ UNCHANGED <<message, submit, runTask>>
    BY <1>1 DEF everything, steeringVars, steeringRows, allVars, storeVars
  <2>2. /\ message' \in [Steering -> Run \union {NoRun}] /\ SubmitHolds'
        /\ submit' \in [pc : {"idle", "append", "submit"}, id : Steering \union {NoSteering},
                        run : Run \union {NoRun}, base : Nat]
    BY <2>1 DEF SteeringInv, SteeringTypeOK, SubmitHolds
  <2> QED BY <2>1, <2>2, CommandKeeps
<1>2. CASE SteerUserStep
  BY <1>2, SteerUserKeeps, ValidateKeeps DEF SteerUserStep
<1>3. CASE \E r \in Run : SteerExecStep(r) \/ SteerStopStep(r)
  BY <1>3, SteerExecKeeps, SteerStopKeeps
<1>4. CASE SubmitStep
  BY <1>4, AppendKeeps, SubmitKeeps DEF SubmitStep
<1>5. CASE SteerCrash \/ SteerBootStep
  BY <1>5, SteerCrashKeeps, SteerBootKeeps
<1> QED BY <1>1, <1>2, <1>3, <1>4, <1>5 DEF SteeringNext

\* SteeringInv is an invariant of Steering, with any number of Runs, instructions and
\* crashes: the command's check and insert, the generations that open on the store's
\* clone and the executor's looks for Steering never leave it.
THEOREM SteeringInvariant == SteeringSpec => []SteeringInv
<1>1. SteeringSpec => SteeringInit /\ [][SteeringNext]_everything
  BY PTL DEF SteeringSpec
<1> QED BY <1>1, SteeringInvInit, SteeringInvStep, PTL

\* The rows, the command and the planning state stay in their types: no executor spends
\* a third try on one question.
THEOREM SteeringTypeCorrect == SteeringSpec => []SteeringTypeOK
<1>1. SteeringInv => SteeringTypeOK
  BY DEF SteeringInv
<1> QED BY <1>1, SteeringInvariant, PTL

\* Whoever acts on the model's decision has decided every Steering of the Run.
THEOREM SteeringDecidedCorrect == SteeringSpec => []SteeringDecidedBeforeWork
<1>1. SteeringInv => SteeringDecidedBeforeWork
  <2> SUFFICES ASSUME SteeringInv, NEW r \in Run, exec[r].phase \in {"kernel", "post"}, ~planning[r].fallback
               PROVE  PendingOf(r) = {}
    BY DEF SteeringDecidedBeforeWork
  <2>1. Decided(r)
    BY DEF SteeringInv
  <2> QED BY <2>1 DEF Decided
<1> QED BY <1>1, SteeringInvariant, PTL

\* The Run's revision counts the Steering it adopted.
LEMMA RevisionCounts ==
    ASSUME SteeringInv, NEW r \in Run
    PROVE  /\ Cardinality({s \in Steering : itemRun[s] = r /\ steering[s].status = "applied"}) \in {0, 1}
           /\ runTask[r] # NoTask => planRevision[r] = 1 + Cardinality({s \in Steering :
                 itemRun[s] = r /\ steering[s].status = "applied"})
<1>1. Revision(r)
  BY DEF SteeringInv
<1>2. CASE Applied(r) = {}
  <2>1. Cardinality(Applied(r)) = 0
    BY <1>2, FS_EmptySet
  <2>2. runTask[r] # NoTask => planRevision[r] = 1
    BY <1>1, <1>2 DEF Revision
  <2> QED BY <2>1, <2>2 DEF Applied
<1>3. ASSUME NEW s \in Steering, Applied(r) = {s}
      PROVE  Cardinality(Applied(r)) = 1 /\ planRevision[r] = 2
  <2>1. Cardinality(Applied(r)) = 1
    BY <1>3, FS_Singleton
  <2>2. planRevision[r] = 2
    BY <1>1, <1>3 DEF Revision
  <2> QED BY <2>1, <2>2
<1>4. CASE \E s \in Steering : Applied(r) = {s}
  <2>1. Cardinality(Applied(r)) = 1 /\ planRevision[r] = 2
    BY <1>3, <1>4
  <2> QED BY <2>1 DEF Applied
<1> QED BY <1>1, <1>2, <1>4 DEF Revision

\* A Run adopts one Steering in its life.
THEOREM OneSteeringCorrect == SteeringSpec => []OneSteeringApplied
<1>1. SteeringInv => OneSteeringApplied
  <2> SUFFICES ASSUME SteeringInv, NEW r \in Run
               PROVE  Cardinality({s \in Steering : itemRun[s] = r /\ steering[s].status = "applied"}) <= 1
    BY DEF OneSteeringApplied
  <2>1. Cardinality({s \in Steering : itemRun[s] = r /\ steering[s].status = "applied"}) \in {0, 1}
    BY RevisionCounts
  <2> QED BY <2>1
<1> QED BY <1>1, SteeringInvariant, PTL

\* The Run's revision, the stored Plan's and the one the executor works on agree, and
\* count the Steering that was applied.
THEOREM PlanRevisionsCorrect == SteeringSpec => []PlanRevisionsAgree
<1>1. SteeringInv => PlanRevisionsAgree
  <2> SUFFICES ASSUME SteeringInv
               PROVE  PlanRevisionsAgree
    OBVIOUS
  <2>1. ASSUME NEW r \in Run, plan[r] # 0
        PROVE  /\ plan[r] = planRevision[r]
               /\ plan[r] = 1 + Cardinality({s \in Steering :
                     itemRun[s] = r /\ steering[s].status = "applied"})
    <3>1. plan[r] = planRevision[r] /\ runTask[r] # NoTask
      BY <2>1 DEF SteeringInv, Revision
    <3> QED BY <3>1, RevisionCounts
  <2>2. ASSUME NEW r \in Run, Executing(r)
        PROVE  planning[r].local = plan[r]
    BY <2>2 DEF SteeringInv, Hands, Executing
  <2> QED BY <2>1, <2>2 DEF PlanRevisionsAgree
<1> QED BY <1>1, SteeringInvariant, PTL
=============================================================================
