-------------------------- MODULE ToolReviewProofs --------------------------
(***************************************************************************)
(* Machine-checked proofs about the tool permission Review, for every set  *)
(* of Runs, Items, Reviews and concurrent commands: what the executor, the *)
(* accept and reject commands, Stops, crashes and the startup repair leave *)
(* in the three stores.                                                    *)
(***************************************************************************)
EXTENDS ToolReview, WorkProofs

USE ReviewAssumption, NullAssumption, WorkAssumption, CallerAssumption

-----------------------------------------------------------------------------
(* The invariant. *)

\* The checkpoint rows: a Review belongs to the Run of the tool Item it asks for, and
\* a Review that was rejected or cancelled belongs to a Run that ended.
ReviewRow(p) ==
    /\ reviewStatus[p] \in {"rejected", "cancelled"} => runStatus[itemRun[p]] \in Terminal
    /\ reviewStatus[p] # "none" => Owns(itemRun[p], reviewTool[p], "tool_call")
    /\ reviewStatus[p] = "none" => reviewTool[p] = NoItem

ReviewRows == \A p \in Review : ReviewRow(p)

\* Where an executor holds a Review, and where it goes on with an accepted one.
AsksPc == {"submitted", "bind", "wait", "decided", "approved", "granted"}
GoesOnPc == {"decided", "approved", "granted"}

\* An executor knows its Review, and goes on with an accepted one only.
AsksInv ==
    /\ \A r \in Run : exec[r].pc \in AsksPc => asking[r] \in Review
    /\ \A r \in Run : exec[r].pc \in GoesOnPc => reviewStatus[asking[r]] = "accepted"
    /\ \A p \in Review : mailbox[p] = "accepted" => reviewStatus[p] = "accepted"
    /\ \A p \in Review : mailbox[p] = "rejected" => reviewStatus[p] = "rejected"

\* What a command relies on at each of its steps: what it read or wrote in one store
\* still holds when it writes the next.
CommandHolds(c) ==
    LET p == command[c].p
        pc == command[c].pc
    IN /\ pc # "idle" => p \in Review /\ proposal[p] # "none"
       /\ pc \in {"apply", "record"} => proposal[p] = "claimed"
       /\ pc = "record" => permission[p] # "none"
       /\ pc = "status" => proposal[p] \in {"confirmed", "accepted"}
       /\ pc \in {"project", "mark", "resolve", "race"} => proposal[p] = "accepted"
       /\ pc \in {"resolve", "race"} => reviewStatus[p] = "accepted"
       /\ pc \in {"rejectMark", "rejectResolve"} => proposal[p] = "rejected"
       /\ pc = "rejectResolve" => reviewStatus[p] = "rejected"

\* One command at a time has claimed the dispatch of a Proposal.
OneDispatch ==
    \A c, d \in Caller :
       /\ command[c].pc \in {"apply", "record"} /\ command[d].pc \in {"apply", "record"}
       /\ command[c].p = command[d].p
       => c = d

\* A Proposal was submitted by a Run, and its effect is its permission.
ProposalInv ==
    \A p \in Review :
       /\ proposal[p] # "none" => asker[p] \in Run
       /\ proposal[p] \in {"confirmed", "accepted"} => permission[p] # "none"

\* The invariant of the protocol, and with it that of the composition.
ProtocolInv ==
    /\ AsksInv
    /\ \A c \in Caller : CommandHolds(c)
    /\ OneDispatch
    /\ ProposalInv
    /\ DecisionsAgree

ToolInv ==
    /\ ToolReviewTypeOK
    /\ ExecInv
    /\ ReviewRows
    /\ ProtocolInv

-----------------------------------------------------------------------------
(* What the store's operations do to Reviews. *)

\* A decided Review stays what it was.
DecisionStays ==
    \A p \in Review : reviewStatus[p] \in {"accepted", "rejected", "cancelled"} =>
       reviewStatus'[p] = reviewStatus[p]

\* No Review is accepted or rejected, and no decided one changes.
Undecided ==
    \A p \in Review :
       \/ reviewStatus'[p] = reviewStatus[p]
       \/ reviewStatus[p] \in {"none", "waiting"} /\ reviewStatus'[p] \in {"waiting", "cancelled"}

\* A Review with a row has a Run that was begun.
LEMMA ReviewHasRun ==
    ASSUME StoreInv, NEW p \in Review, reviewStatus[p] # "none"
    PROVE  itemRun[p] \in Run /\ runStatus[itemRun[p]] # "none"
<1>1. itemRun[p] # NoRun /\ itemRun[p] \in Run \union {NoRun}
  BY DEF StoreInv, RowsConsistent, StoreTypeOK
<1>2. runTask[itemRun[p]] # NoTask
  BY <1>1 DEF StoreInv, RowsConsistent
<1> QED BY <1>1, <1>2 DEF StoreInv, RowsConsistent

\* An operation that leaves a checkpoint alone keeps its row.
LEMMA ReviewRowFrame ==
    ASSUME StoreInv, Grows, KeepEndedRuns, NEW p \in Review, ReviewRow(p),
           reviewStatus'[p] = reviewStatus[p], reviewTool'[p] = reviewTool[p],
           reviewStatus[p] # "none"
    PROVE  ReviewRow(p)'
<1>1. itemRun[p] \in Run /\ itemRun'[p] = itemRun[p]
  BY ReviewHasRun DEF Grows
<1>2. runStatus[itemRun[p]] \in Terminal => runStatus'[itemRun[p]] \in Terminal
  BY <1>1 DEF KeepEndedRuns
<1>3. ASSUME Owns(itemRun[p], reviewTool[p], "tool_call")
      PROVE  Owns(itemRun[p], reviewTool[p], "tool_call")'
  BY <1>1, <1>3 DEF Owns, Grows
<1> QED BY <1>1, <1>2, <1>3 DEF ReviewRow

\* An operation that leaves all checkpoints alone keeps their rows.
LEMMA ReviewRowsFrame ==
    ASSUME StoreInv, ReviewRows, Grows, KeepEndedRuns, UNCHANGED <<reviewStatus, reviewTool>>
    PROVE  ReviewRows' /\ DecisionStays
<1>1. ASSUME NEW p \in Review
      PROVE  ReviewRow(p)'
  <2>1. ReviewRow(p)
    BY DEF ReviewRows
  <2>2. CASE reviewStatus[p] # "none"
    BY <2>1, <2>2, ReviewRowFrame
  <2>3. CASE reviewStatus[p] = "none"
    BY <2>1, <2>3 DEF ReviewRow
  <2> QED BY <2>2, <2>3
<1> QED BY <1>1 DEF ReviewRows, DecisionStays

\* Every operation of the store, whoever calls it, keeps the checkpoint rows, and a
\* decided Review stays decided.
LEMMA ReviewRowsStep ==
    ASSUME StoreInv, ReviewRows, [StoreNext]_storeVars
    PROVE  ReviewRows' /\ DecisionStays
<1>0. Grows /\ KeepEndedRuns /\ StoreTypeOK
  BY StoreGrows, RunTerminalStep DEF StoreInv
<1>1. ASSUME UNCHANGED <<reviewStatus, reviewTool>>
      PROVE  ReviewRows' /\ DecisionStays
  BY <1>0, <1>1, ReviewRowsFrame
<1>2. ASSUME NEW r \in Run, NEW st \in GeneralTerminal, TerminalizeGeneralRun(r, st)
      PROVE  ReviewRows' /\ DecisionStays
  <2>1. /\ UNCHANGED <<reviewTool, itemRun, itemKind>>
        /\ runStatus' = [runStatus EXCEPT ![r] = st]
        /\ \A p \in Review : \/ reviewStatus'[p] = reviewStatus[p]
                             \/ /\ reviewStatus[p] = "waiting" /\ reviewStatus'[p] = "cancelled"
                                /\ itemRun[p] = r
    <3>1. \A p \in Review : p \in WaitingReviews(r) <=> itemRun[p] = r /\ reviewStatus[p] = "waiting"
      BY WaitingReviewsDef
    <3> QED BY <1>2, <3>1 DEF TerminalizeGeneralRun, CloseWorkOf
  <2>2. runStatus'[r] \in Terminal
    BY <1>0, <2>1, StatusFacts DEF StoreTypeOK
  <2>3. ASSUME NEW p \in Review
        PROVE  ReviewRow(p)'
    <3>1. ReviewRow(p)
      BY DEF ReviewRows
    <3>2. CASE reviewStatus[p] = "none"
      BY <2>1, <3>1, <3>2 DEF ReviewRow
    <3>3. CASE reviewStatus[p] # "none" /\ reviewStatus'[p] = reviewStatus[p]
      BY <1>0, <2>1, <3>1, <3>3, ReviewRowFrame
    <3>4. CASE reviewStatus[p] = "waiting" /\ reviewStatus'[p] = "cancelled" /\ itemRun[p] = r
      <4>1. Owns(itemRun[p], reviewTool[p], "tool_call")
        BY <3>1, <3>4 DEF ReviewRow
      <4> QED BY <2>1, <2>2, <3>4, <4>1 DEF ReviewRow, Owns
    <3> QED BY <2>1, <3>2, <3>3, <3>4
  <2> QED BY <2>1, <2>3 DEF ReviewRows, DecisionStays
<1>3. ASSUME NEW r \in Run, NEW i \in Item \ Review, NEW p \in Review, BindToolReview(r, i, p)
      PROVE  ReviewRows' /\ DecisionStays
  <2>1. /\ itemRun[i] = r /\ itemKind[i] = "tool_call" /\ reviewStatus[p] \in {"none", "waiting"}
        /\ reviewStatus' = [reviewStatus EXCEPT ![p] = "waiting"]
        /\ reviewTool' = [reviewTool EXCEPT ![p] = i]
        /\ itemRun' = [itemRun EXCEPT ![p] = r]
        /\ itemKind' = [itemKind EXCEPT ![p] = "review_checkpoint"]
    BY <1>3 DEF BindToolReview
  <2>2. ReviewRow(p)'
    BY <1>0, <2>1 DEF ReviewRow, Owns, StoreTypeOK
  <2>3. ASSUME NEW q \in Review, q # p
        PROVE  ReviewRow(q)'
    <3>1. ReviewRow(q) /\ reviewStatus'[q] = reviewStatus[q] /\ reviewTool'[q] = reviewTool[q]
      BY <1>0, <2>1, <2>3 DEF ReviewRows, StoreTypeOK
    <3>2. CASE reviewStatus[q] = "none"
      BY <3>1, <3>2 DEF ReviewRow
    <3>3. CASE reviewStatus[q] # "none"
      BY <1>0, <3>1, <3>3, ReviewRowFrame
    <3> QED BY <3>2, <3>3
  <2>4. DecisionStays
    BY <1>0, <2>1 DEF DecisionStays, StoreTypeOK
  <2> QED BY <2>2, <2>3, <2>4 DEF ReviewRows
<1>4. ASSUME NEW p \in Review, NEW d \in {"accepted", "rejected"},
             NEW next \in {"running", "interrupted", "waiting_review", "blocked"},
             DecideToolReview(p, d, next), d = "rejected" => next = "blocked"
      PROVE  ReviewRows' /\ DecisionStays
  <2>1. /\ reviewStatus[p] = "waiting"
        /\ reviewStatus' = [reviewStatus EXCEPT ![p] = d]
        /\ runStatus' = [runStatus EXCEPT ![itemRun[p]] = IF @ = "waiting_review" THEN next ELSE @]
        /\ UNCHANGED <<itemRun, itemKind, reviewTool>>
    BY <1>4 DEF DecideToolReview
  <2>2. itemRun[p] \in Run /\ runStatus[itemRun[p]] # "none"
    BY <2>1, ReviewHasRun
  <2>3. runStatus[itemRun[p]] \notin {"running", "completed"}
    <3>1. p \in WaitingReviews(itemRun[p])
      BY <2>1, <2>2, WaitingReviewsDef
    <3> QED BY <2>2, <3>1 DEF StoreInv, PauseMatchesReviews
  <2>4. runStatus[itemRun[p]] \in Terminal \union {"waiting_review"}
    <3>1. runStatus[itemRun[p]] \in CanonicalTaskStatus \union {"none"}
      BY <1>0, <2>2 DEF StoreTypeOK
    <3> QED BY <2>2, <2>3, <3>1 DEF CanonicalTaskStatus, Live
  <2>5. d = "rejected" => runStatus'[itemRun[p]] \in Terminal
    BY <1>0, <1>4, <2>1, <2>2, <2>4, StatusFacts DEF StoreTypeOK
  <2>6. ReviewRow(p)'
    <3>1. Owns(itemRun[p], reviewTool[p], "tool_call")
      BY <2>1 DEF ReviewRow, ReviewRows
    <3> QED BY <1>0, <2>1, <2>5, <3>1 DEF ReviewRow, Owns, StoreTypeOK
  <2>7. ASSUME NEW q \in Review, q # p
        PROVE  ReviewRow(q)'
    <3>1. ReviewRow(q) /\ reviewStatus'[q] = reviewStatus[q] /\ reviewTool'[q] = reviewTool[q]
      BY <1>0, <2>1, <2>7 DEF ReviewRows, StoreTypeOK
    <3>2. CASE reviewStatus[q] = "none"
      BY <3>1, <3>2 DEF ReviewRow
    <3>3. CASE reviewStatus[q] # "none"
      BY <1>0, <3>1, <3>3, ReviewRowFrame
    <3> QED BY <3>2, <3>3
  <2>8. DecisionStays
    BY <1>0, <2>1 DEF DecisionStays, StoreTypeOK
  <2> QED BY <2>6, <2>7, <2>8 DEF ReviewRows
<1>5. ASSUME NEW p \in Review, NEW live \in BOOLEAN, MarkToolReviewAccepted(p, live, FALSE)
      PROVE  ReviewRows' /\ DecisionStays
  <2>1. \E next \in {"running", "interrupted", "waiting_review", "blocked"} :
           DecideToolReview(p, "accepted", next)
    BY <1>5 DEF MarkToolReviewAccepted
  <2> QED BY <1>4, <2>1
<1>6. ASSUME NEW p \in Review, MarkToolReviewRejected(p)
      PROVE  ReviewRows' /\ DecisionStays
  BY <1>4, <1>6 DEF MarkToolReviewRejected
<1>7. CASE UNCHANGED storeVars
  BY <1>1, <1>7 DEF storeVars
<1> QED
  BY <1>1, <1>2, <1>3, <1>5, <1>6, <1>7
  DEF StoreNext, BeginGeneralTaskRun, RecoverInterruptedGeneralRuns, CompleteGeneralTask,
      DeferGeneralTaskResult, AppendGeneralItem, CompleteAppendedItem, BeginItemAttempt,
      TerminalizeItemAttempt, reviewVars

-----------------------------------------------------------------------------
(* The executor's side keeps the invariant of invocations. *)

\* Giving a step up is a move back to work with nothing in hand.
LEMMA GiveUp ==
    ASSUME exec \in [Run -> Exec], NEW r \in Run,
           \/ exec' = [exec EXCEPT ![r].pc = "work", ![r].item = NoItem]
           \/ exec' = [exec EXCEPT ![r].pc = "work", ![r].item = NoItem, ![r].att = NoAttempt]
    PROVE  Moves(r, "work")
<1>1. exec[r] \in Exec /\ "work" \in ExecPc
  BY DEF ExecPc
<1>2. CASE exec' = [exec EXCEPT ![r].pc = "work", ![r].item = NoItem]
  BY <1>1, <1>2 DEF Exec, Moves
<1>3. CASE exec' = [exec EXCEPT ![r].pc = "work", ![r].item = NoItem, ![r].att = NoAttempt]
  BY <1>1, <1>3 DEF Exec, Moves
<1> QED BY <1>2, <1>3

\* Which operation of the store a step of the Review protocol is.
LEMMA ReviewStepStore ==
    ASSUME ExecInv, AsksInv, NEW r \in Run, ReviewStep(r)
    PROVE  /\ [StoreNext]_storeVars
           /\ UNCHANGED <<turn, cancel, stop, boot, crashes, finalResult, runTask>>
<1>0. HoldsRows(r)
  BY DEF ExecInv
<1>1. ASSUME NeedsConfirmation(r)
      PROVE  /\ [StoreNext]_storeVars
             /\ UNCHANGED <<turn, cancel, stop, boot, crashes, finalResult, runTask>>
  <2>1. exec[r].att \in Attempt /\ "blocked" \in Terminal
    BY <1>0, <1>1, StatusFacts DEF NeedsConfirmation, At, HoldsRows, HoldsAttempt
  <2> QED BY <1>1, <2>1
    DEF NeedsConfirmation, ToolFinish, StoreNext, TerminalizeItemAttempt, runVars, resultVars, storeVars
<1>2. ASSUME BindReview(r)
      PROVE  /\ [StoreNext]_storeVars
             /\ UNCHANGED <<turn, cancel, stop, boot, crashes, finalResult, runTask>>
  <2>1. asking[r] \in Review /\ exec[r].item \in Item \ Review
    BY <1>0, <1>2 DEF BindReview, At, AsksInv, AsksPc, HoldsRows, HoldsItem, Owns
  <2> QED BY <1>2, <2>1 DEF BindReview, StoreNext, BindToolReview, resultVars, storeVars
<1>3. ASSUME NEW a \in Attempt, RetryApproved(r, a)
      PROVE  /\ [StoreNext]_storeVars
             /\ UNCHANGED <<turn, cancel, stop, boot, crashes, finalResult, runTask>>
  <2>1. exec[r].item \in Item \ Review
    BY <1>0, <1>3 DEF RetryApproved, At, HoldsRows, HoldsItem, Owns
  <2> QED BY <1>3, <2>1 DEF RetryApproved, StoreNext, BeginItemAttempt, runVars, resultVars, storeVars
<1>4. ASSUME ConsumePermission(r)
      PROVE  /\ [StoreNext]_storeVars
             /\ UNCHANGED <<turn, cancel, stop, boot, crashes, finalResult, runTask>>
  <2>1. exec[r].att \in Attempt /\ "blocked" \in Terminal
    BY <1>0, <1>4, StatusFacts DEF ConsumePermission, At, HoldsRows, HoldsAttempt
  <2> QED BY <1>4, <2>1
    DEF ConsumePermission, StoreNext, TerminalizeItemAttempt, runVars, resultVars, storeVars
<1> QED
  BY <1>1, <1>2, <1>3, <1>4
  DEF ReviewStep, SubmitReview, RegisterWaiter, WakeReview, storeVars

\* Every step of the Review protocol keeps the invariant of invocations.
LEMMA ReviewStepInv ==
    ASSUME ExecInv, AsksInv, NEW r \in Run, ReviewStep(r)
    PROVE  /\ ExecInv'
           /\ \A q \in Run \ {r} : exec'[q] = exec[q]
<1>0. exec \in [Run -> Exec] /\ exec[r] \in Exec /\ HoldsTurn(r) /\ HoldsRows(r)
  BY DEF ExecInv, WorkTypeOK
<1>p. {"confirm", "submitted", "bind", "wait", "decided", "approved", "granted", "work"} \subseteq ExecPc
  BY DEF ExecPc
<1>1. /\ [StoreNext]_storeVars
      /\ UNCHANGED <<turn, cancel, stop, boot, crashes, finalResult, runTask>>
  BY ReviewStepStore
<1>2. StoreInv' /\ Grows /\ AttemptsHaveItems'
  BY <1>1, InvStep, StoreGrows, StoreAttemptItems DEF ExecInv
<1>3. exec[r].pc \in {"tool", "confirm", "submitted", "bind", "wait", "decided", "approved"}
  BY DEF ReviewStep, NeedsConfirmation, SubmitReview, RegisterWaiter, BindReview, WakeReview,
         RetryApproved, ConsumePermission, At
<1>4. turn[r] # "none" /\ runTask[r] # NoTask
  BY <1>0, <1>3 DEF HoldsTurn
<1>5. ASSUME NEW pc \in {"confirm", "submitted", "bind", "wait", "decided", "approved", "granted", "work"},
             Moves(r, pc), HoldsRows(r)'
      PROVE  ExecInv' /\ \A q \in Run \ {r} : exec'[q] = exec[q]
  <2>1. cancel' \in [Run -> {"none", "active", "cancelled", "tombstone"}]
    BY <1>1 DEF ExecInv, WorkTypeOK
  <2>2. ExecInv'
    BY <1>p, <1>1, <1>2, <1>3, <1>4, <1>5, <2>1, QuietMove
  <2> QED BY <1>5, <2>2 DEF Moves
<1>6. ASSUME Moves(r, "work")
      PROVE  ExecInv' /\ \A q \in Run \ {r} : exec'[q] = exec[q]
  <2>1. HoldsRows(r)'
    BY <1>6 DEF Moves, HoldsRows, HoldsItem, HoldsAttempt
  <2> QED BY <1>5, <1>6, <2>1
<1>7. ASSUME NEW i, Owns(r, i, "tool_call")
      PROVE  Owns(r, i, "tool_call")'
  BY <1>2, <1>7 DEF Owns, Grows
<1>8. ASSUME NEW pc \in {"submitted", "bind", "wait", "decided"}, exec[r].pc \in HoldsItem, Goto(r, pc)
      PROVE  ExecInv' /\ \A q \in Run \ {r} : exec'[q] = exec[q]
  <2>1. Moves(r, pc) /\ exec'[r].item = exec[r].item
    BY <1>0, <1>p, <1>8, GotoFacts
  <2>2. PICK i : i = exec[r].item /\ Owns(r, i, "tool_call")'
    BY <1>0, <1>7, <1>8 DEF HoldsRows
  <2>3. HoldsRows(r)'
    BY <2>1, <2>2 DEF HoldsRows, Moves, HoldsItem, HoldsAttempt
  <2> QED BY <1>5, <2>1, <2>3
<1>9. ASSUME NeedsConfirmation(r)
      PROVE  ExecInv' /\ \A q \in Run \ {r} : exec'[q] = exec[q]
  <2>1. PICK i : i = exec[r].item /\ Owns(r, i, "tool_call")'
    BY <1>0, <1>7, <1>9 DEF NeedsConfirmation, At, HoldsRows, HoldsAttempt
  <2>2. CASE exec' = [exec EXCEPT ![r].pc = "confirm", ![r].att = NoAttempt, ![r].item = exec[r].item]
    <3>1. Moves(r, "confirm") /\ exec'[r].item = exec[r].item
      BY <1>0, <1>p, <2>2 DEF Moves, Exec
    <3>2. HoldsRows(r)'
      BY <2>1, <3>1 DEF HoldsRows, Moves, HoldsItem, HoldsAttempt
    <3> QED BY <1>5, <3>1, <3>2
  <2>3. CASE exec' = [exec EXCEPT ![r].pc = "work", ![r].item = NoItem, ![r].att = NoAttempt]
    BY <1>0, <1>6, <2>3, GiveUp
  <2> QED BY <1>0, <1>9, <2>2, <2>3 DEF NeedsConfirmation, ToolFinish
<1>10. ASSUME NEW p \in Review, SubmitReview(r, p)
       PROVE  ExecInv' /\ \A q \in Run \ {r} : exec'[q] = exec[q]
  BY <1>0, <1>6, <1>8, <1>10, GiveUp DEF SubmitReview, At, HoldsItem
<1>11. ASSUME RegisterWaiter(r) \/ BindReview(r) \/ WakeReview(r)
       PROVE  ExecInv' /\ \A q \in Run \ {r} : exec'[q] = exec[q]
  BY <1>0, <1>6, <1>8, <1>11, GiveUp DEF RegisterWaiter, BindReview, WakeReview, At, HoldsItem
<1>12. ASSUME NEW a \in Attempt, RetryApproved(r, a)
       PROVE  ExecInv' /\ \A q \in Run \ {r} : exec'[q] = exec[q]
  <2>1. CASE /\ BeginItemAttempt(exec[r].item, a)
             /\ exec' = [exec EXCEPT ![r].pc = "approved", ![r].att = a]
    <3>1. Moves(r, "approved") /\ exec'[r].item = exec[r].item /\ exec'[r].att = a
      BY <1>0, <1>p, <2>1 DEF Moves, Exec
    <3>2. PICK i : i = exec[r].item /\ Owns(r, i, "tool_call")'
      BY <1>0, <1>7, <1>12 DEF RetryApproved, At, HoldsRows, HoldsItem
    <3>3. attItem'[a] = exec[r].item
      BY <2>1 DEF BeginItemAttempt, ExecInv, StoreInv, StoreTypeOK
    <3>4. HoldsRows(r)'
      BY <3>1, <3>2, <3>3 DEF HoldsRows, Moves, HoldsItem, HoldsAttempt
    <3> QED BY <1>5, <3>1, <3>4
  <2>2. CASE exec' = [exec EXCEPT ![r].pc = "work", ![r].item = NoItem]
    BY <1>0, <1>6, <2>2, GiveUp
  <2> QED BY <1>12, <2>1, <2>2 DEF RetryApproved
<1>13. ASSUME ConsumePermission(r)
       PROVE  ExecInv' /\ \A q \in Run \ {r} : exec'[q] = exec[q]
  <2>1. CASE Goto(r, "granted") /\ UNCHANGED storeVars
    <3>1. Moves(r, "granted") /\ exec'[r].item = exec[r].item /\ exec'[r].att = exec[r].att
      BY <1>0, <1>p, <2>1, GotoFacts
    <3>2. /\ exec[r].att \in Attempt /\ attItem[exec[r].att] = exec[r].item
          /\ Owns(r, exec[r].item, "tool_call")
      BY <1>0, <1>13 DEF ConsumePermission, At, HoldsRows, HoldsAttempt
    <3>3. HoldsRows(r)'
      BY <1>7, <2>1, <3>1, <3>2 DEF HoldsRows, Moves, HoldsItem, HoldsAttempt, storeVars
    <3> QED BY <1>5, <3>1, <3>3
  <2>2. CASE exec' = [exec EXCEPT ![r].pc = "work", ![r].item = NoItem, ![r].att = NoAttempt]
    BY <1>0, <1>6, <2>2, GiveUp
  <2> QED BY <1>13, <2>1, <2>2 DEF ConsumePermission
<1> QED BY <1>9, <1>10, <1>11, <1>12, <1>13 DEF ReviewStep

-----------------------------------------------------------------------------
(* What a step of each actor is to the stores and to the executors. *)

\* Opening a command and the steps that only read leave the stores alone; the others
\* are operations of the task store that begin and complete no Run.
LEMMA CommandStore ==
    ASSUME ToolInv, NEW c \in Caller, OpenCommand(c) \/ CommandStep(c)
    PROVE  [StoreNext]_storeVars /\ UNCHANGED <<runTask, finalResult>> /\ UNCHANGED workVars
<1>0. CommandHolds(c) /\ ProposalInv /\ command[c].live \in BOOLEAN
  BY DEF ToolInv, ProtocolInv, ToolReviewTypeOK
<1>1. ASSUME MarkAccepted(c)
      PROVE  [StoreNext]_storeVars /\ UNCHANGED <<runTask, finalResult>> /\ UNCHANGED workVars
  <2>1. command[c].p \in Review
    BY <1>0, <1>1 DEF MarkAccepted, CommandHolds
  <2> QED BY <1>0, <1>1, <2>1
    DEF MarkAccepted, StoreNext, MarkToolReviewAccepted, DecideToolReview, resultVars, storeVars
<1>2. ASSUME MarkRejected(c)
      PROVE  [StoreNext]_storeVars /\ UNCHANGED <<runTask, finalResult>> /\ UNCHANGED workVars
  <2>1. command[c].p \in Review
    BY <1>0, <1>2 DEF MarkRejected, CommandHolds
  <2> QED BY <1>0, <1>2, <2>1
    DEF MarkRejected, StoreNext, MarkToolReviewRejected, DecideToolReview, resultVars, storeVars
<1>3. ASSUME InterruptUnwoken(c)
      PROVE  [StoreNext]_storeVars /\ UNCHANGED <<runTask, finalResult>> /\ UNCHANGED workVars
  <2>1. asker[command[c].p] \in Run /\ "interrupted" \in GeneralTerminal
    BY <1>0, <1>3, StatusFacts DEF InterruptUnwoken, CommandHolds, ProposalInv
  <2> QED BY <1>3, <2>1 DEF InterruptUnwoken, StoreNext, TerminalizeGeneralRun, resultVars, storeVars
<1>4. CASE UNCHANGED allVars
  BY <1>4 DEF allVars, storeVars
<1> QED
  BY <1>1, <1>2, <1>3, <1>4
  DEF OpenCommand, CommandStep, OpenAccept, OpenReject, RequireActive, ClaimDispatch, ApplyProposal,
      RecordEffect, ProjectStatus, ReadWaiter, ResolveAccepted, RejectProposal, ResolveRejected, OnlyCommand

\* Every step of the composition keeps the invariant of invocations, and to the task
\* store it is an operation or the tool Attempt.
LEMMA ToolStoreStep ==
    ASSUME ToolInv, [ToolReviewNext]_toolVars
    PROVE  /\ ExecInv'
           /\ \/ [StoreNext]_storeVars
              \/ \E r \in Run, i \in Item \ Review, a \in Attempt : BeginToolAttempt(r, i, a)
<1> DEFINE Known == \/ [StoreNext]_storeVars
                    \/ \E r \in Run, i \in Item \ Review, a \in Attempt : BeginToolAttempt(r, i, a)
<1>0. ExecInv /\ AsksInv
  BY DEF ToolInv, ProtocolInv
<1>1. ASSUME [WorkNext]_allVars
      PROVE  ExecInv' /\ Known
  BY <1>0, <1>1, ExecInvStep, WorkStoreStep
<1>2. ASSUME NEW r \in Run, ReinvokeRun(r)
      PROVE  ExecInv' /\ Known
  BY <1>0, <1>2, RequestInv DEF ReinvokeRun
<1>3. ASSUME NEW r \in Run, ReplayCompleted(r)
      PROVE  ExecInv' /\ Known
  BY <1>0, <1>3, ExecStepInv DEF ReplayCompleted, StoreNext
<1>4. ASSUME NEW r \in Run, ReviewStep(r)
      PROVE  ExecInv' /\ Known
  BY <1>0, <1>4, ReviewStepInv, ReviewStepStore
<1>5. ASSUME NEW c \in Caller, OpenCommand(c) \/ CommandStep(c)
      PROVE  ExecInv' /\ Known
  BY <1>0, <1>5, CommandStore, StoreStepInv
<1>6. CASE UNCHANGED toolVars
  BY <1>1, <1>6 DEF toolVars
<1> QED
  BY <1>1, <1>2, <1>3, <1>4, <1>5, <1>6
  DEF ToolReviewNext, Replay, ToolExecStep, ReviewCrash, ToolBootStep, ReconcileProposals, WorkNext, BootStep

\* Every step of the composition keeps the checkpoint rows and the decisions.
LEMMA ToolReviewRows ==
    ASSUME ToolInv, [ToolReviewNext]_toolVars
    PROVE  ReviewRows' /\ DecisionStays
<1>0. StoreInv /\ AttemptsHaveItems /\ ReviewRows
  BY DEF ToolInv, ExecInv
<1>1. ASSUME NEW r \in Run, NEW i \in Item \ Review, NEW a \in Attempt, BeginToolAttempt(r, i, a)
      PROVE  ReviewRows' /\ DecisionStays
  <2>1. Grows /\ KeepEndedRuns /\ UNCHANGED <<reviewStatus, reviewTool>>
    BY <1>0, <1>1, ToolAttemptStore DEF BeginToolAttempt, KeepEndedRuns, runVars, reviewVars
  <2> QED BY <1>0, <2>1, ReviewRowsFrame
<1> QED BY <1>0, <1>1, ReviewRowsStep, ToolStoreStep

\* An executor beside the Review protocol leaves every Review alone or cancels it with
\* its Run, and is at none of the protocol's stages afterwards.
LEMMA ExecLeavesReviews ==
    ASSUME ExecInv, NEW r \in Run, ExecStep(r) \/ ReplayCompleted(r)
    PROVE  /\ Undecided
           /\ exec'[r].pc \notin AsksPc
           /\ \A q \in Run \ {r} : exec'[q] = exec[q]
<1>0. WorkTypeOK /\ exec \in [Run -> Exec] /\ exec[r] \in Exec
  BY DEF ExecInv, WorkTypeOK
<1>1. Undecided
  <2>1. CASE UNCHANGED reviewStatus
    BY <2>1 DEF Undecided
  <2>2. ASSUME NEW st \in GeneralTerminal, TerminalizeGeneralRun(r, st)
        PROVE  Undecided
    BY <2>2, WaitingReviewsDef DEF TerminalizeGeneralRun, Undecided
  <2>3. ASSUME CompleteGeneralTask(r) \/ UNCHANGED storeVars
        PROVE  UNCHANGED reviewStatus
    BY <2>3 DEF CompleteGeneralTask, reviewVars, storeVars
  <2>4. CASE ReplayCompleted(r)
    BY <2>1, <2>3, <2>4 DEF ReplayCompleted
  <2>5. CASE ExecStep(r)
    <3>1. StepOf(r)
      BY <2>5, StepOfFacts
    <3> QED BY <2>1, <2>2, <2>3, <3>1
      DEF StepOf, BeginGeneralTaskRun, AppendGeneralItem, BeginItemAttempt, TerminalizeItemAttempt,
          BeginToolAttempt, reviewVars
  <2> QED BY <2>4, <2>5
<1> DEFINE Good == exec'[r].pc \notin AsksPc /\ \A q \in Run \ {r} : exec'[q] = exec[q]
<1> USE DEF AsksPc
<1>2. ASSUME AdmitProviderStart(r)
      PROVE  Good
  <2>1. CASE exec' = [exec EXCEPT ![r].pc = "call", ![r].provider = "started"]
    BY <1>0, <2>1 DEF Exec
  <2>2. CASE Goto(r, "error")
    BY <1>0, <2>2 DEF Goto, Exec
  <2> QED BY <1>2, <2>1, <2>2 DEF AdmitProviderStart
<1>3. ASSUME NEW pc \in {"turn", "begun", "work", "error", "answer", "replay", "failTurn"}, Goto(r, pc)
      PROVE  Good
  BY <1>0, <1>3 DEF Goto, Exec
<1>4. ASSUME NEW pc \in {"exit", "fail"}, NEW st, Drop(r, pc, st)
      PROVE  Good
  <2>1. exec'[r] = [NotStarted EXCEPT !.pc = pc, !.task = exec[r].task, !.endAs = st]
        /\ \A q \in Run \ {r} : exec'[q] = exec[q]
    BY <1>0, <1>4 DEF Drop
  <2> QED BY <1>4, <2>1 DEF NotStarted
<1>5. ASSUME Return(r)
      PROVE  Good
  BY <1>4, <1>5 DEF Return
<1>6. ASSUME NEW st, GoFail(r, st)
      PROVE  Good
  BY <1>4, <1>6 DEF GoFail
<1>7. ASSUME NEW i, ProviderAppend(r, i)
      PROVE  Good
  BY <1>0, <1>7 DEF ProviderAppend, Exec
<1>8. ASSUME NEW a, ProviderBegin(r, a)
      PROVE  Good
  <2>1. CASE exec' = [exec EXCEPT ![r].pc = "admit", ![r].att = a]
    BY <1>0, <2>1 DEF Exec
  <2> QED BY <1>3, <1>8, <2>1 DEF ProviderBegin
<1>9. ASSUME NEW outcome, ProviderFinish(r, outcome)
      PROVE  Good
  <2>1. PICK pc \in {"work", "error"}, b \in BOOLEAN :
           exec' = [exec EXCEPT ![r].pc = pc, ![r].provider = outcome, ![r].lifecycleError = b,
                                ![r].item = NoItem, ![r].att = NoAttempt]
    BY <1>9, Zenon DEF ProviderFinish
  <2> QED BY <1>0, <2>1 DEF Exec
<1>10. ASSUME NEW i, NEW a, BeginToolAttempt(r, i, a)
       PROVE  Good
  BY <1>0, <1>10 DEF BeginToolAttempt, Exec
<1>11. ASSUME NEW st, ToolFinish(r, st, "work")
       PROVE  Good
  BY <1>0, <1>11 DEF ToolFinish, Exec
<1>12. ASSUME EndPhase(r)
       PROVE  Good
  <2>1. ASSUME NEW ph, exec' = [exec EXCEPT ![r].phase = ph], exec[r].pc = "work"
        PROVE  Good
    BY <1>0, <2>1 DEF Exec
  <2> QED BY <1>6, <1>12, <2>1 DEF EndPhase, At
<1>13. Good
  BY <1>2, <1>3, <1>5, <1>6, <1>7, <1>8, <1>9, <1>10, <1>11, <1>12
  DEF ExecStep, BeginTurn, BeginRun, BeginRunRefused, ScopeUnreadable, Register, StepRefused,
      StepError, RetryDecision, ObserveCancel, ProviderFailed, ProjectionRefused, CompleteWorkTurn,
      CompleteTask, FailRun, FailTurn, ReplayCompleted
<1> QED BY <1>1, <1>13

-----------------------------------------------------------------------------
(* How Proposals, permissions and decisions advance. *)

\* A Proposal goes from its submission to one of its ends: accepted, rejected and
\* unknown are final, and only the command that claimed it takes it back to pending.
Advances(p) ==
    \/ proposal'[p] = proposal[p]
    \/ proposal[p] = "none" /\ proposal'[p] = "pending"
    \/ proposal[p] = "pending" /\ proposal'[p] \in {"claimed", "rejected"}
    \/ proposal[p] = "claimed" /\ proposal'[p] \in {"pending", "unknown", "confirmed"}
    \/ proposal[p] = "confirmed" /\ proposal'[p] = "accepted"

\* What every step does to one Review in the stores: its Proposal advances and is
\* confirmed with its permission only, a permission is granted once and used up for
\* an accepted checkpoint only, and a checkpoint follows the Proposal's decision.
Forward(p) ==
    /\ Advances(p)
    /\ \/ permission'[p] = permission[p]
       \/ permission[p] = "none" /\ permission'[p] = "granted"
       \/ permission'[p] = "consumed" /\ permission[p] = "granted" /\ reviewStatus[p] = "accepted"
    /\ proposal[p] # "none" => asker'[p] = asker[p]
    /\ proposal[p] = "none" /\ proposal'[p] # "none" => asker'[p] \in Run
    /\ proposal[p] = "claimed" /\ proposal'[p] = "confirmed" => permission[p] # "none"
    /\ reviewStatus'[p] = "accepted" => reviewStatus[p] = "accepted" \/ proposal[p] = "accepted"
    /\ reviewStatus'[p] = "rejected" => reviewStatus[p] = "rejected" \/ proposal[p] = "rejected"

\* Steps that move every Review forward keep the agreement of the stores.
LEMMA ForwardAgrees ==
    ASSUME ToolInv, DecisionStays, \A p \in Review : Forward(p)
    PROVE  ProposalInv' /\ DecisionsAgree'
<1>0. ProposalInv /\ DecisionsAgree
  BY DEF ToolInv, ProtocolInv
<1>1. ASSUME NEW p \in Review
      PROVE  /\ proposal'[p] # "none" => asker'[p] \in Run
             /\ proposal'[p] \in {"confirmed", "accepted"} => permission'[p] # "none"
  BY <1>0 DEF Forward, Advances, ProposalInv
<1>2. ASSUME NEW p \in Review
      PROVE  /\ reviewStatus'[p] = "accepted" => proposal'[p] = "accepted" /\ permission'[p] # "none"
             /\ reviewStatus'[p] = "rejected" => proposal'[p] = "rejected"
             /\ permission'[p] = "consumed" => reviewStatus'[p] = "accepted"
  BY <1>0, <1>1 DEF Forward, Advances, DecisionsAgree, DecisionStays
<1> QED BY <1>1, <1>2 DEF ProposalInv, DecisionsAgree

\* What a command relies on survives what everybody else does, as long as nobody
\* else writes the Proposal it has claimed.
LEMMA CommandKeeps ==
    ASSUME ToolInv, DecisionStays, \A p \in Review : Forward(p), NEW d \in Caller,
           command'[d] = command[d],
           command[d].pc \in {"apply", "record"} => proposal'[command[d].p] = proposal[command[d].p]
    PROVE  CommandHolds(d)'
<1>1. CommandHolds(d)
  BY DEF ToolInv, ProtocolInv
<1>2. CASE command[d].pc = "idle"
  BY <1>2 DEF CommandHolds
<1>3. CASE command[d].pc # "idle"
  <2>1. command[d].p \in Review
    BY <1>1, <1>3 DEF CommandHolds
  <2>2. /\ Forward(command[d].p)
        /\ reviewStatus[command[d].p] \in {"accepted", "rejected"} =>
              reviewStatus'[command[d].p] = reviewStatus[command[d].p]
    BY <2>1 DEF DecisionStays
  <2> QED BY <1>1, <2>1, <2>2 DEF CommandHolds, Forward, Advances
<1> QED BY <1>2, <1>3

\* The executors' part: whoever stays where it is, or leaves the protocol, still holds
\* what it held.
LEMMA AsksKeep ==
    ASSUME AsksInv, DecisionStays,
           \A r \in Run : \/ exec'[r].pc = exec[r].pc /\ asking'[r] = asking[r]
                          \/ exec'[r].pc \notin AsksPc,
           \A p \in Review : mailbox'[p] \in {mailbox[p], "none"}
    PROVE  AsksInv'
<1>1. GoesOnPc \subseteq AsksPc
  BY DEF GoesOnPc, AsksPc
<1>2. ASSUME NEW r \in Run
      PROVE  /\ exec'[r].pc \in AsksPc => asking'[r] \in Review
             /\ exec'[r].pc \in GoesOnPc => reviewStatus'[asking'[r]] = "accepted"
  BY <1>1 DEF AsksInv, DecisionStays
<1>3. ASSUME NEW p \in Review
      PROVE  /\ mailbox'[p] = "accepted" => reviewStatus'[p] = "accepted"
             /\ mailbox'[p] = "rejected" => reviewStatus'[p] = "rejected"
  BY DEF AsksInv, DecisionStays
<1> QED BY <1>2, <1>3 DEF AsksInv

\* A step that leaves the protocol's own state alone keeps its invariant.
LEMMA ProtocolFrame ==
    ASSUME ToolInv, DecisionStays, Undecided, UNCHANGED reviewProtocolVars, WorkTypeOK',
           \A r \in Run : exec'[r].pc = exec[r].pc \/ exec'[r].pc \notin AsksPc
    PROVE  ToolReviewTypeOK' /\ ProtocolInv'
<1>0. UNCHANGED <<proposal, permission, asker, asking, waiter, mailbox, command>>
  BY DEF reviewProtocolVars
<1>1. ToolReviewTypeOK'
  BY <1>0 DEF ToolInv, ToolReviewTypeOK
<1>2. \A p \in Review : Forward(p)
  BY <1>0 DEF Forward, Advances, Undecided
<1>3. AsksInv'
  BY <1>0, AsksKeep DEF ToolInv, ProtocolInv
<1>4. \A c \in Caller : CommandHolds(c)'
  BY <1>0, <1>2, CommandKeeps
<1>5. OneDispatch'
  BY <1>0 DEF ToolInv, ProtocolInv, OneDispatch
<1> QED BY <1>1, <1>2, <1>3, <1>4, <1>5, ForwardAgrees DEF ProtocolInv

\* An executor's step of the Review protocol that changes no command keeps the
\* protocol's invariant when it moves the Reviews forward.
LEMMA AskerKeeps ==
    ASSUME ToolInv, DecisionStays, \A p \in Review : Forward(p), UNCHANGED command, AsksInv',
           \A p \in Review : proposal[p] = "claimed" => proposal'[p] = "claimed"
    PROVE  ProtocolInv'
<1>0. \A c \in Caller : CommandHolds(c)
  BY DEF ToolInv, ProtocolInv
<1>1. ASSUME NEW c \in Caller
      PROVE  CommandHolds(c)'
  <2>1. command[c].pc \in {"apply", "record"} => proposal'[command[c].p] = proposal[command[c].p]
    BY <1>0 DEF CommandHolds
  <2> QED BY <2>1, CommandKeeps
<1>2. OneDispatch'
  BY DEF ToolInv, ProtocolInv, OneDispatch
<1> QED BY <1>1, <1>2, ForwardAgrees DEF ProtocolInv

\* Every step of the executor's side keeps the protocol's invariant: one step per action.
LEMMA ReviewStepProtocol ==
    ASSUME ToolInv, DecisionStays, WorkTypeOK', NEW r \in Run, ReviewStep(r),
           \A q \in Run \ {r} : exec'[q] = exec[q]
    PROVE  ToolReviewTypeOK' /\ ProtocolInv'
<1>0. /\ exec \in [Run -> Exec] /\ exec[r] \in Exec
      /\ proposal \in [Review -> ProposalState]
      /\ permission \in [Review -> {"none", "granted", "consumed"}]
      /\ asker \in [Review -> Run \union {NoRun}]
      /\ asking \in [Run -> Review \union {NoReview}]
      /\ waiter \in SUBSET Review
      /\ reviewStatus \in [Review -> ReviewStatus \union {"none"}]
  BY DEF ToolInv, ToolReviewTypeOK, WorkTypeOK, StoreTypeOK
<1>1. AsksInv /\ DecisionsAgree /\ ProposalInv
  BY DEF ToolInv, ProtocolInv
<1>u. ASSUME UNCHANGED reviewStatus
      PROVE  Undecided
  BY <1>u DEF Undecided
<1>w. ASSUME \/ exec' = [exec EXCEPT ![r].pc = "work", ![r].item = NoItem]
             \/ exec' = [exec EXCEPT ![r].pc = "work", ![r].item = NoItem, ![r].att = NoAttempt]
      PROVE  exec'[r].pc \notin AsksPc
  BY <1>0, <1>w, GiveUp DEF Moves, AsksPc
<1>f. ASSUME UNCHANGED reviewProtocolVars, UNCHANGED reviewStatus, exec'[r].pc \notin AsksPc
      PROVE  ToolReviewTypeOK' /\ ProtocolInv'
  BY <1>f, <1>u, ProtocolFrame
<1>2. ASSUME NeedsConfirmation(r)
      PROVE  ToolReviewTypeOK' /\ ProtocolInv'
  <2>1. UNCHANGED reviewProtocolVars /\ UNCHANGED reviewStatus
    BY <1>2 DEF NeedsConfirmation, ToolFinish, TerminalizeItemAttempt, reviewVars, storeVars
  <2>2. exec'[r].pc \in {"confirm", "work"}
    BY <1>0, <1>2 DEF NeedsConfirmation, ToolFinish, Exec
  <2> QED BY <1>f, <2>1, <2>2 DEF AsksPc
<1>3. ASSUME NEW p \in Review, SubmitReview(r, p)
      PROVE  ToolReviewTypeOK' /\ ProtocolInv'
  <2>0. /\ exec[r].pc = "confirm"
        /\ UNCHANGED <<reviewStatus, permission, waiter, mailbox, command>>
    BY <1>3 DEF SubmitReview, At, storeVars
  <2>1. CASE UNCHANGED <<proposal, asker, asking>> /\ exec'[r].pc \notin AsksPc
    BY <1>f, <2>0, <2>1 DEF reviewProtocolVars
  <2>2. CASE /\ proposal[p] = "none"
             /\ proposal' = [proposal EXCEPT ![p] = "pending"]
             /\ asker' = [asker EXCEPT ![p] = r]
             /\ asking' = [asking EXCEPT ![r] = p]
             /\ Goto(r, "submitted")
    <3>1. exec'[r].pc = "submitted"
      BY <1>0, <2>2 DEF Goto, Exec
    <3>2. ToolReviewTypeOK'
      BY <1>0, <2>0, <2>2 DEF ToolInv, ToolReviewTypeOK, ProposalState
    <3>3. \A q \in Review : Forward(q)
      BY <1>0, <2>0, <2>2 DEF Forward, Advances
    <3>4. AsksInv'
      <4>1. \A q \in Run : exec'[q].pc \in AsksPc => asking'[q] \in Review
        BY <1>0, <1>1, <2>2 DEF AsksInv
      <4>2. \A q \in Run : exec'[q].pc \in GoesOnPc => reviewStatus'[asking'[q]] = "accepted"
        BY <1>0, <1>1, <2>0, <2>2, <3>1 DEF AsksInv, GoesOnPc
      <4> QED BY <1>1, <2>0, <4>1, <4>2 DEF AsksInv
    <3>5. \A q \in Review : proposal[q] = "claimed" => proposal'[q] = "claimed"
      BY <1>0, <2>2
    <3> QED BY <2>0, <3>2, <3>3, <3>4, <3>5, AskerKeeps
  <2> QED BY <1>3, <1>w, <2>1, <2>2 DEF SubmitReview
<1>4. ASSUME RegisterWaiter(r)
      PROVE  ToolReviewTypeOK' /\ ProtocolInv'
  <2>0. /\ exec[r].pc = "submitted" /\ exec'[r].pc = "bind"
        /\ UNCHANGED <<reviewStatus, proposal, permission, asker, asking, mailbox, command>>
        /\ waiter' = waiter \union {asking[r]}
    BY <1>0, <1>4 DEF RegisterWaiter, At, Goto, Exec, storeVars
  <2>1. asking[r] \in Review
    BY <1>1, <2>0 DEF AsksInv, AsksPc
  <2>2. ToolReviewTypeOK'
    BY <1>0, <2>0, <2>1 DEF ToolInv, ToolReviewTypeOK
  <2>3. \A q \in Review : Forward(q)
    BY <2>0 DEF Forward, Advances
  <2>4. AsksInv'
    BY <1>1, <2>0, <2>1 DEF AsksInv, GoesOnPc, AsksPc
  <2> QED BY <2>0, <2>2, <2>3, <2>4, AskerKeeps
<1>5. ASSUME BindReview(r)
      PROVE  ToolReviewTypeOK' /\ ProtocolInv'
  <2> DEFINE p == asking[r]
  <2>0. /\ exec[r].pc = "bind" /\ p \in Review
        /\ UNCHANGED <<permission, asker, asking, mailbox, command>>
    BY <1>1, <1>5 DEF BindReview, At, AsksInv, AsksPc
  <2>1. CASE BindToolReview(r, exec[r].item, p) /\ Goto(r, "wait") /\ UNCHANGED <<proposal, waiter>>
    <3>1. exec'[r].pc = "wait"
      BY <1>0, <2>1 DEF Goto, Exec
    <3>2. reviewStatus' = [reviewStatus EXCEPT ![p] = "waiting"]
      BY <2>1 DEF BindToolReview
    <3>3. ToolReviewTypeOK'
      BY <2>0, <2>1 DEF ToolInv, ToolReviewTypeOK
    <3>4. \A q \in Review : Forward(q)
      BY <1>0, <2>0, <2>1, <3>2 DEF Forward, Advances
    <3>5. AsksInv'
      <4>1. \A q \in Run : exec'[q].pc \in AsksPc => asking'[q] \in Review
        BY <1>1, <2>0 DEF AsksInv
      <4>2. \A q \in Run : exec'[q].pc \in GoesOnPc => reviewStatus'[asking'[q]] = "accepted"
        <5>1. ASSUME NEW q \in Run, exec'[q].pc \in GoesOnPc
              PROVE  reviewStatus'[asking'[q]] = "accepted"
          <6>1. q # r /\ exec[q].pc \in GoesOnPc
            BY <3>1, <5>1 DEF GoesOnPc
          <6>2. reviewStatus[asking[q]] = "accepted" /\ asking[q] \in Review
            BY <1>1, <6>1 DEF AsksInv, GoesOnPc, AsksPc
          <6> QED BY <2>0, <6>2 DEF DecisionStays
        <5> QED BY <5>1
      <4>3. \A q \in Review : /\ mailbox'[q] = "accepted" => reviewStatus'[q] = "accepted"
                              /\ mailbox'[q] = "rejected" => reviewStatus'[q] = "rejected"
        BY <1>1, <2>0 DEF AsksInv, DecisionStays
      <4> QED BY <4>1, <4>2, <4>3 DEF AsksInv
    <3> QED BY <2>0, <2>1, <3>3, <3>4, <3>5, AskerKeeps
  <2>2. CASE /\ waiter' = waiter \ {p} /\ UNCHANGED storeVars
             /\ proposal' = [proposal EXCEPT ![p] = IF @ = "pending" THEN "rejected" ELSE @]
             /\ exec' = [exec EXCEPT ![r].pc = "work", ![r].item = NoItem]
    <3>1. exec'[r].pc \notin AsksPc /\ UNCHANGED reviewStatus
      BY <1>w, <2>2 DEF storeVars
    <3>2. ToolReviewTypeOK'
      BY <1>0, <2>0, <2>2 DEF ToolInv, ToolReviewTypeOK, ProposalState
    <3>3. \A q \in Review : Forward(q)
      BY <1>0, <2>0, <2>2, <3>1 DEF Forward, Advances
    <3>4. AsksInv'
      BY <1>1, <2>0, <3>1, AsksKeep
    <3>5. \A q \in Review : proposal[q] = "claimed" => proposal'[q] = "claimed"
      BY <1>0, <2>2
    <3> QED BY <2>0, <3>2, <3>3, <3>4, <3>5, AskerKeeps
  <2> QED BY <1>5, <2>1, <2>2 DEF BindReview
<1>6. ASSUME NEW pc \in GoesOnPc, exec'[r].pc = pc, asking[r] \in Review,
             reviewStatus[asking[r]] = "accepted",
             UNCHANGED <<reviewStatus, proposal, asker, asking, waiter, mailbox, command>>,
             permission' \in [Review -> {"none", "granted", "consumed"}],
             \A q \in Review : \/ permission'[q] = permission[q]
                               \/ /\ permission[q] = "granted" /\ permission'[q] = "consumed"
                                  /\ q = asking[r]
      PROVE  ToolReviewTypeOK' /\ ProtocolInv'
  <2>1. ToolReviewTypeOK'
    BY <1>6 DEF ToolInv, ToolReviewTypeOK
  <2>2. \A q \in Review : Forward(q)
    BY <1>6 DEF Forward, Advances
  <2>3. AsksInv'
    BY <1>1, <1>6 DEF AsksInv
  <2> QED BY <1>6, <2>1, <2>2, <2>3, AskerKeeps
<1>7. ASSUME WakeReview(r)
      PROVE  ToolReviewTypeOK' /\ ProtocolInv'
  <2>0. exec[r].pc = "wait" /\ UNCHANGED reviewProtocolVars /\ UNCHANGED reviewStatus
    BY <1>7 DEF WakeReview, At, storeVars
  <2>1. CASE mailbox[asking[r]] = "accepted" /\ Goto(r, "decided")
    <3>1. exec'[r].pc = "decided" /\ "decided" \in GoesOnPc
      BY <1>0, <2>1 DEF Goto, Exec, GoesOnPc
    <3>2. asking[r] \in Review /\ reviewStatus[asking[r]] = "accepted"
      BY <1>1, <2>0, <2>1 DEF AsksInv, AsksPc
    <3> QED BY <1>0, <1>6, <2>0, <3>1, <3>2 DEF reviewProtocolVars
  <2> QED BY <1>7, <1>f, <1>w, <2>0, <2>1 DEF WakeReview
<1>8. ASSUME NEW a \in Attempt, RetryApproved(r, a)
      PROVE  ToolReviewTypeOK' /\ ProtocolInv'
  <2>0. exec[r].pc = "decided" /\ UNCHANGED reviewProtocolVars /\ UNCHANGED reviewStatus
    BY <1>8 DEF RetryApproved, At, BeginItemAttempt, reviewVars, storeVars
  <2>1. CASE exec' = [exec EXCEPT ![r].pc = "approved", ![r].att = a]
    <3>1. exec'[r].pc = "approved" /\ "approved" \in GoesOnPc
      BY <1>0, <2>1 DEF Exec, GoesOnPc
    <3>2. asking[r] \in Review /\ reviewStatus[asking[r]] = "accepted"
      BY <1>1, <2>0 DEF AsksInv, AsksPc, GoesOnPc
    <3> QED BY <1>0, <1>6, <2>0, <3>1, <3>2 DEF reviewProtocolVars
  <2> QED BY <1>8, <1>f, <1>w, <2>0, <2>1 DEF RetryApproved
<1>9. ASSUME ConsumePermission(r)
      PROVE  ToolReviewTypeOK' /\ ProtocolInv'
  <2>0. /\ exec[r].pc = "approved"
        /\ UNCHANGED <<reviewStatus, proposal, asker, asking, waiter, mailbox, command>>
    BY <1>9 DEF ConsumePermission, At, TerminalizeItemAttempt, reviewVars, storeVars
  <2>1. CASE /\ permission[asking[r]] = "granted" /\ Goto(r, "granted")
             /\ permission' = [permission EXCEPT ![asking[r]] = "consumed"]
    <3>1. exec'[r].pc = "granted" /\ "granted" \in GoesOnPc
      BY <1>0, <2>1 DEF Goto, Exec, GoesOnPc
    <3>2. asking[r] \in Review /\ reviewStatus[asking[r]] = "accepted"
      BY <1>1, <2>0 DEF AsksInv, AsksPc, GoesOnPc
    <3> QED BY <1>0, <1>6, <2>0, <2>1, <3>1, <3>2
  <2>2. CASE /\ exec' = [exec EXCEPT ![r].pc = "work", ![r].item = NoItem, ![r].att = NoAttempt]
             /\ UNCHANGED permission
    BY <1>f, <1>w, <2>0, <2>2 DEF reviewProtocolVars
  <2> QED BY <1>9, <2>1, <2>2 DEF ConsumePermission
<1> QED BY <1>2, <1>3, <1>4, <1>5, <1>7, <1>8, <1>9 DEF ReviewStep

-----------------------------------------------------------------------------
(* The commands' side. *)

\* Only command c moves, to pc, and it keeps its Proposal.
CommandMoves(c, pc) ==
    /\ command' \in [Caller -> [pc : CommandPc, p : Review \union {NoReview}, live : BOOLEAN]]
    /\ \A d \in Caller \ {c} : command'[d] = command[d]
    /\ command'[c].pc = pc /\ (pc # "idle" => command'[c].p = command[c].p)

\* Step and Finish move one command.
LEMMA StepFacts ==
    ASSUME ToolReviewTypeOK, NEW c \in Caller
    PROVE  /\ \A pc \in CommandPc : Step(c, pc) => CommandMoves(c, pc)
           /\ Finish(c) => CommandMoves(c, "idle")
<1>0. /\ command \in [Caller -> [pc : CommandPc, p : Review \union {NoReview}, live : BOOLEAN]]
      /\ command[c] \in [pc : CommandPc, p : Review \union {NoReview}, live : BOOLEAN]
  BY DEF ToolReviewTypeOK
<1>1. NoCommand \in [pc : CommandPc, p : Review \union {NoReview}, live : BOOLEAN]
  BY DEF NoCommand, CommandPc
<1>2. ASSUME NEW pc \in CommandPc, Step(c, pc)
      PROVE  CommandMoves(c, pc)
  BY <1>0, <1>2 DEF Step, CommandMoves
<1>3. ASSUME Finish(c)
      PROVE  CommandMoves(c, "idle")
  BY <1>0, <1>1, <1>3 DEF Finish, CommandMoves, NoCommand
<1> QED BY <1>2, <1>3

\* A step of one command keeps the protocol's invariant when it moves the Reviews
\* forward, writes its own Proposal only, takes a claimed one only if it claimed it
\* itself, and relies on what holds.
LEMMA CommandMovesKeep ==
    ASSUME ToolInv, DecisionStays, \A p \in Review : Forward(p), AsksInv',
           NEW c \in Caller, \A d \in Caller \ {c} : command'[d] = command[d],
           CommandHolds(c)',
           \A p \in Review : proposal[p] = "claimed" /\ proposal'[p] # "claimed" =>
              command[c].pc \in {"apply", "record"} /\ command[c].p = p,
           command'[c].pc \in {"apply", "record"} =>
              /\ command'[c].p = command[c].p /\ command[c].p \in Review
              /\ command[c].pc \in {"apply", "record"} \/ proposal[command[c].p] = "pending"
    PROVE  ProtocolInv'
<1>0. (\A d \in Caller : CommandHolds(d)) /\ OneDispatch
  BY DEF ToolInv, ProtocolInv
<1>1. ASSUME NEW d \in Caller
      PROVE  CommandHolds(d)'
  <2>1. CASE d # c
    <3>1. ASSUME command[d].pc \in {"apply", "record"}
          PROVE  proposal'[command[d].p] = proposal[command[d].p]
      <4>1. command[d].p \in Review /\ proposal[command[d].p] = "claimed"
        BY <1>0, <3>1 DEF CommandHolds
      <4>2. ~(command[c].pc \in {"apply", "record"} /\ command[c].p = command[d].p)
        BY <1>0, <2>1, <3>1 DEF OneDispatch
      <4> QED BY <4>1, <4>2
    <3>2. command'[d] = command[d]
      BY <2>1
    <3> QED BY <3>1, <3>2, CommandKeeps
  <2> QED BY <2>1
<1>2. OneDispatch'
  <2> SUFFICES ASSUME NEW d \in Caller, NEW e \in Caller, d # e,
                      command'[d].pc \in {"apply", "record"}, command'[e].pc \in {"apply", "record"},
                      command'[d].p = command'[e].p
               PROVE  FALSE
    BY DEF OneDispatch
  <2>1. ASSUME NEW x \in Caller, x # c, command'[x].pc \in {"apply", "record"},
               command'[c].pc \in {"apply", "record"}, command'[x].p = command'[c].p
        PROVE  FALSE
    <3>1. command'[x] = command[x] /\ command'[c].p = command[c].p
      BY <2>1
    <3>2. proposal[command[x].p] = "claimed"
      BY <1>0, <2>1, <3>1 DEF CommandHolds
    <3>3. command[c].pc \in {"apply", "record"}
      BY <2>1, <3>1, <3>2
    <3> QED BY <1>0, <2>1, <3>1, <3>3 DEF OneDispatch
  <2>2. CASE d = c
    BY <2>1, <2>2
  <2>3. CASE e = c
    BY <2>1, <2>3
  <2>4. CASE d # c /\ e # c
    BY <1>0, <2>4 DEF OneDispatch
  <2> QED BY <2>2, <2>3, <2>4
<1> QED BY <1>1, <1>2, ForwardAgrees DEF ProtocolInv

\* Every step of a command keeps the protocol's invariant: one step per action.
LEMMA CommandProtocol ==
    ASSUME ToolInv, DecisionStays, WorkTypeOK', NEW c \in Caller, OpenCommand(c) \/ CommandStep(c)
    PROVE  ToolReviewTypeOK' /\ ProtocolInv'
<1> DEFINE p == command[c].p
<1>0. /\ proposal \in [Review -> ProposalState]
      /\ permission \in [Review -> {"none", "granted", "consumed"}]
      /\ asker \in [Review -> Run \union {NoRun}] /\ waiter \in SUBSET Review
      /\ mailbox \in [Review -> {"none", "accepted", "rejected"}]
      /\ reviewStatus \in [Review -> ReviewStatus \union {"none"}]
      /\ command \in [Caller -> [pc : CommandPc, p : Review \union {NoReview}, live : BOOLEAN]]
      /\ command[c] \in [pc : CommandPc, p : Review \union {NoReview}, live : BOOLEAN]
      /\ ToolReviewTypeOK
  BY DEF ToolInv, ToolReviewTypeOK, WorkTypeOK, StoreTypeOK
<1>1. CommandHolds(c) /\ AsksInv /\ ProposalInv /\ DecisionsAgree
  BY DEF ToolInv, ProtocolInv
<1>e. UNCHANGED <<exec, asking, asker>>
  BY CommandStore
  DEF workVars, OpenCommand, CommandStep, OpenAccept, OpenReject, RequireActive, ClaimDispatch,
      ApplyProposal, RecordEffect, ProjectStatus, ReadWaiter, MarkAccepted, ResolveAccepted,
      InterruptUnwoken, RejectProposal, MarkRejected, ResolveRejected, OnlyCommand
<1>p. CommandPc = {"idle", "require", "claim", "apply", "record", "status", "project", "mark",
                   "resolve", "race", "reject", "rejectMark", "rejectResolve"}
  BY DEF CommandPc
<1>s. ASSUME NEW pc \in CommandPc, Step(c, pc)
      PROVE  CommandMoves(c, pc)
  BY <1>0, <1>s, StepFacts
<1>d. ASSUME Finish(c)
      PROVE  CommandMoves(c, "idle")
  BY <1>0, <1>d, StepFacts
\* A command that only reads.
<1>r. ASSUME UNCHANGED <<reviewStatus, proposal, permission, waiter, mailbox>>,
             command' \in [Caller -> [pc : CommandPc, p : Review \union {NoReview}, live : BOOLEAN]],
             \A d \in Caller \ {c} : command'[d] = command[d],
             CommandHolds(c)', command'[c].pc \notin {"apply", "record"}
      PROVE  ToolReviewTypeOK' /\ ProtocolInv'
  <2>1. ToolReviewTypeOK'
    BY <1>0, <1>e, <1>r DEF ToolReviewTypeOK
  <2>2. \A q \in Review : Forward(q)
    BY <1>e, <1>r DEF Forward, Advances
  <2>3. AsksInv'
    BY <1>1, <1>e, <1>r, AsksKeep
  <2> QED BY <1>r, <2>1, <2>2, <2>3, CommandMovesKeep
<1>2. ASSUME NEW q \in Review, OpenAccept(c, q) \/ OpenReject(c, q)
      PROVE  ToolReviewTypeOK' /\ ProtocolInv'
  <2>1. UNCHANGED <<reviewStatus, proposal, permission, waiter, mailbox>>
    BY <1>2 DEF OpenAccept, OpenReject, OnlyCommand, allVars, storeVars
  <2>2. PICK pc \in {"require", "status", "project", "reject", "rejectMark"} :
           /\ command' = [command EXCEPT ![c] = [pc |-> pc, p |-> q, live |-> FALSE]]
           /\ pc \in {"require", "reject"} => proposal[q] = "pending"
           /\ pc = "status" => proposal[q] = "confirmed"
           /\ pc = "project" => proposal[q] = "accepted"
           /\ pc = "rejectMark" => proposal[q] = "rejected"
    BY <1>2 DEF OpenAccept, OpenReject
  <2>3. command' \in [Caller -> [pc : CommandPc, p : Review \union {NoReview}, live : BOOLEAN]]
    BY <1>0, <1>p, <2>2
  <2>4. command'[c].pc = pc /\ command'[c].p = q /\ \A d \in Caller \ {c} : command'[d] = command[d]
    BY <1>0, <2>2
  <2>5. CommandHolds(c)'
    BY <2>1, <2>2, <2>4 DEF CommandHolds
  <2> QED BY <1>r, <2>1, <2>3, <2>4, <2>5
<1>3. ASSUME RequireActive(c) \/ ReadWaiter(c)
      PROVE  ToolReviewTypeOK' /\ ProtocolInv'
  <2>1. UNCHANGED <<reviewStatus, proposal, permission, waiter, mailbox>>
    BY <1>3 DEF RequireActive, ReadWaiter, OnlyCommand, allVars, storeVars
  <2>2. CASE ReadWaiter(c)
    <3>a. (command[c].p \in waiter) \in BOOLEAN
      OBVIOUS
    <3>b. command' = [command EXCEPT ![c].pc = "mark", ![c].live = command[c].p \in waiter]
      BY <2>2 DEF ReadWaiter
    <3>0. PICK b \in BOOLEAN : command' = [command EXCEPT ![c].pc = "mark", ![c].live = b]
      BY <3>a, <3>b, Zenon
    <3>1. CommandMoves(c, "mark")
      BY <1>0, <1>p, <3>0 DEF CommandMoves
    <3>2. CommandHolds(c)'
      BY <1>1, <2>1, <2>2, <3>1 DEF CommandHolds, CommandMoves, ReadWaiter
    <3> QED BY <1>r, <2>1, <3>1, <3>2 DEF CommandMoves
  <2>3. CASE RequireActive(c)
    <3>1. \E pc \in {"claim", "idle"} : CommandMoves(c, pc)
      BY <1>p, <1>s, <1>d, <2>3 DEF RequireActive
    <3>2. CommandHolds(c)'
      BY <1>1, <2>1, <2>3, <3>1 DEF CommandHolds, CommandMoves, RequireActive
    <3> QED BY <1>r, <2>1, <3>1, <3>2 DEF CommandMoves
  <2> QED BY <1>3, <2>2, <2>3
\* A command that writes the Proposal store, or the permission store.
<1>4. ASSUME NEW pc \in CommandPc, CommandMoves(c, pc),
             UNCHANGED <<reviewStatus, waiter, mailbox>>,
             proposal' \in [Review -> ProposalState],
             permission' \in [Review -> {"none", "granted", "consumed"}],
             \A q \in Review : Forward(q),
             \A q \in Review : q # p => proposal'[q] = proposal[q],
             proposal[p] = "claimed" => command[c].pc \in {"apply", "record"},
             pc \in {"apply", "record"} =>
                command[c].pc \in {"apply", "record"} \/ proposal[p] = "pending",
             p \in Review, CommandHolds(c)'
      PROVE  ToolReviewTypeOK' /\ ProtocolInv'
  <2>1. ToolReviewTypeOK'
    BY <1>0, <1>e, <1>4 DEF ToolReviewTypeOK, CommandMoves
  <2>2. AsksInv'
    BY <1>1, <1>e, <1>4, AsksKeep
  <2>3. ProtocolInv'
    BY <1>4, <2>2, CommandMovesKeep DEF CommandMoves
  <2> QED BY <2>1, <2>3
<1>5. ASSUME ClaimDispatch(c)
      PROVE  ToolReviewTypeOK' /\ ProtocolInv'
  <2>1. p \in Review /\ proposal[p] # "none" /\ command[c].pc = "claim"
        /\ UNCHANGED <<reviewStatus, permission, waiter, mailbox>>
    BY <1>1, <1>5 DEF CommandHolds, ClaimDispatch, allVars, storeVars
  <2>2. CASE proposal[p] = "pending" /\ proposal' = [proposal EXCEPT ![p] = "claimed"] /\ Step(c, "apply")
    <3>1. CommandMoves(c, "apply")
      BY <1>p, <1>s, <2>2
    <3>2. CommandHolds(c)'
      BY <1>0, <2>1, <2>2, <3>1 DEF CommandHolds, CommandMoves
    <3>3. \A q \in Review : Forward(q)
      BY <1>0, <1>e, <2>1, <2>2 DEF Forward, Advances
    <3>4. proposal' \in [Review -> ProposalState] /\ \A q \in Review : q # p => proposal'[q] = proposal[q]
      BY <1>0, <2>2 DEF ProposalState
    <3> QED BY <1>0, <1>p, <1>4, <2>1, <2>2, <3>1, <3>2, <3>3, <3>4
  <2>3. CASE Finish(c) /\ UNCHANGED proposal
    <3>1. CommandMoves(c, "idle")
      BY <1>d, <2>3
    <3>2. CommandHolds(c)'
      BY <3>1 DEF CommandHolds, CommandMoves
    <3> QED BY <1>r, <2>1, <2>3, <3>1, <3>2 DEF CommandMoves
  <2> QED BY <1>5, <2>2, <2>3 DEF ClaimDispatch
<1>6. ASSUME ApplyProposal(c)
      PROVE  ToolReviewTypeOK' /\ ProtocolInv'
  <2>1. /\ p \in Review /\ proposal[p] = "claimed" /\ command[c].pc = "apply"
        /\ UNCHANGED <<reviewStatus, waiter, mailbox>>
    BY <1>1, <1>6 DEF CommandHolds, ApplyProposal, allVars, storeVars
  <2>2. /\ permission' \in [Review -> {"none", "granted", "consumed"}]
        /\ \A q \in Review : \/ permission'[q] = permission[q]
                             \/ permission[q] = "none" /\ permission'[q] = "granted"
    BY <1>0, <1>6, <2>1 DEF ApplyProposal, Grant
  <2>3. CASE permission' = Grant(p) /\ Step(c, "record") /\ UNCHANGED proposal
    <3>1. CommandMoves(c, "record")
      BY <1>p, <1>s, <2>3
    <3>2. permission'[p] # "none"
      BY <1>0, <2>1, <2>3 DEF Grant
    <3>3. CommandHolds(c)'
      BY <2>1, <2>3, <3>1, <3>2 DEF CommandHolds, CommandMoves
    <3>4. \A q \in Review : Forward(q)
      BY <1>e, <2>1, <2>2, <2>3 DEF Forward, Advances
    <3> QED BY <1>0, <1>p, <1>4, <2>1, <2>2, <2>3, <3>1, <3>3, <3>4
  <2>4. ASSUME NEW st \in {"pending", "unknown"}, proposal' = [proposal EXCEPT ![p] = st], Finish(c)
        PROVE  ToolReviewTypeOK' /\ ProtocolInv'
    <3>1. CommandMoves(c, "idle")
      BY <1>d, <2>4
    <3>2. CommandHolds(c)'
      BY <3>1 DEF CommandHolds, CommandMoves
    <3>3. \A q \in Review : Forward(q)
      BY <1>0, <1>e, <2>1, <2>2, <2>4 DEF Forward, Advances
    <3>4. proposal' \in [Review -> ProposalState] /\ \A q \in Review : q # p => proposal'[q] = proposal[q]
      BY <1>0, <2>4 DEF ProposalState
    <3> QED BY <1>0, <1>p, <1>4, <2>1, <2>2, <3>1, <3>2, <3>3, <3>4
  <2> QED BY <1>6, <2>3, <2>4 DEF ApplyProposal
<1>7. ASSUME RecordEffect(c)
      PROVE  ToolReviewTypeOK' /\ ProtocolInv'
  <2>1. /\ p \in Review /\ proposal[p] = "claimed" /\ permission[p] # "none" /\ command[c].pc = "record"
        /\ UNCHANGED <<reviewStatus, permission, waiter, mailbox>>
    BY <1>1, <1>7 DEF CommandHolds, RecordEffect, allVars, storeVars
  <2>2. CASE proposal' = [proposal EXCEPT ![p] = "confirmed"] /\ Step(c, "status")
    <3>1. CommandMoves(c, "status")
      BY <1>p, <1>s, <2>2
    <3>2. CommandHolds(c)'
      BY <1>0, <2>1, <2>2, <3>1 DEF CommandHolds, CommandMoves
    <3>3. \A q \in Review : Forward(q)
      BY <1>0, <1>e, <2>1, <2>2 DEF Forward, Advances
    <3>4. proposal' \in [Review -> ProposalState] /\ \A q \in Review : q # p => proposal'[q] = proposal[q]
      BY <1>0, <2>2 DEF ProposalState
    <3> QED BY <1>0, <1>p, <1>4, <2>1, <3>1, <3>2, <3>3, <3>4
  <2>3. CASE Finish(c) /\ UNCHANGED proposal
    <3>1. CommandMoves(c, "idle")
      BY <1>d, <2>3
    <3>2. CommandHolds(c)'
      BY <3>1 DEF CommandHolds, CommandMoves
    <3> QED BY <1>r, <2>1, <2>3, <3>1, <3>2 DEF CommandMoves
  <2> QED BY <1>7, <2>2, <2>3 DEF RecordEffect
<1>8. ASSUME ProjectStatus(c)
      PROVE  ToolReviewTypeOK' /\ ProtocolInv'
  <2>1. /\ p \in Review /\ proposal[p] \in {"confirmed", "accepted"} /\ command[c].pc = "status"
        /\ UNCHANGED <<reviewStatus, permission, waiter, mailbox>>
    BY <1>1, <1>8 DEF CommandHolds, ProjectStatus, allVars, storeVars
  <2>2. CASE proposal' = [proposal EXCEPT ![p] = "accepted"] /\ Step(c, "project")
    <3>1. CommandMoves(c, "project")
      BY <1>p, <1>s, <2>2
    <3>2. CommandHolds(c)'
      BY <1>0, <2>1, <2>2, <3>1 DEF CommandHolds, CommandMoves
    <3>3. \A q \in Review : Forward(q)
      BY <1>0, <1>e, <2>1, <2>2 DEF Forward, Advances
    <3>4. proposal' \in [Review -> ProposalState] /\ \A q \in Review : q # p => proposal'[q] = proposal[q]
      BY <1>0, <2>2 DEF ProposalState
    <3> QED BY <1>0, <1>p, <1>4, <2>1, <3>1, <3>2, <3>3, <3>4
  <2>3. CASE Finish(c) /\ UNCHANGED proposal
    <3>1. CommandMoves(c, "idle")
      BY <1>d, <2>3
    <3>2. CommandHolds(c)'
      BY <3>1 DEF CommandHolds, CommandMoves
    <3> QED BY <1>r, <2>1, <2>3, <3>1, <3>2 DEF CommandMoves
  <2> QED BY <1>8, <2>2, <2>3 DEF ProjectStatus
<1>9. ASSUME RejectProposal(c)
      PROVE  ToolReviewTypeOK' /\ ProtocolInv'
  <2>1. p \in Review /\ command[c].pc = "reject" /\ UNCHANGED <<reviewStatus, permission, waiter, mailbox>>
    BY <1>1, <1>9 DEF CommandHolds, RejectProposal, allVars, storeVars
  <2>2. CASE /\ proposal[p] = "pending" /\ proposal' = [proposal EXCEPT ![p] = "rejected"]
             /\ Step(c, "rejectMark")
    <3>1. CommandMoves(c, "rejectMark")
      BY <1>p, <1>s, <2>2
    <3>2. CommandHolds(c)'
      BY <1>0, <2>1, <2>2, <3>1 DEF CommandHolds, CommandMoves
    <3>3. \A q \in Review : Forward(q)
      BY <1>0, <1>e, <2>1, <2>2 DEF Forward, Advances
    <3>4. proposal' \in [Review -> ProposalState] /\ \A q \in Review : q # p => proposal'[q] = proposal[q]
      BY <1>0, <2>2 DEF ProposalState
    <3> QED BY <1>0, <1>p, <1>4, <2>1, <2>2, <3>1, <3>2, <3>3, <3>4
  <2>3. CASE Finish(c) /\ UNCHANGED proposal
    <3>1. CommandMoves(c, "idle")
      BY <1>d, <2>3
    <3>2. CommandHolds(c)'
      BY <3>1 DEF CommandHolds, CommandMoves
    <3> QED BY <1>r, <2>1, <2>3, <3>1, <3>2 DEF CommandMoves
  <2> QED BY <1>9, <2>2, <2>3 DEF RejectProposal
\* A command that decides the checkpoint, or ends the Run.
<1>10. ASSUME NEW pc \in {"idle", "resolve", "rejectResolve"}, CommandMoves(c, pc),
              UNCHANGED <<proposal, permission, waiter, mailbox>>, CommandHolds(c)',
              \A q \in Review : Forward(q)
       PROVE  ToolReviewTypeOK' /\ ProtocolInv'
  <2>1. ToolReviewTypeOK'
    BY <1>0, <1>e, <1>10 DEF ToolReviewTypeOK, CommandMoves
  <2>2. AsksInv'
    BY <1>1, <1>e, <1>10, AsksKeep
  <2> QED BY <1>10, <2>1, <2>2, CommandMovesKeep DEF CommandMoves
<1>11. ASSUME MarkAccepted(c)
       PROVE  ToolReviewTypeOK' /\ ProtocolInv'
  <2>1. /\ p \in Review /\ proposal[p] = "accepted" /\ command[c].pc = "mark"
        /\ UNCHANGED <<proposal, permission, waiter, mailbox>>
    BY <1>1, <1>11 DEF CommandHolds, MarkAccepted
  <2>2. PICK pc \in {"idle", "resolve"} :
           /\ CommandMoves(c, pc)
           /\ \/ UNCHANGED reviewStatus
              \/ reviewStatus' = [reviewStatus EXCEPT ![p] = "accepted"]
           /\ pc = "resolve" => reviewStatus'[p] = "accepted"
    <3>1. Step(c, "resolve") => CommandMoves(c, "resolve")
      BY <1>p, <1>s
    <3>2. MarkToolReviewAccepted(p, command[c].live, FALSE) =>
             reviewStatus' = [reviewStatus EXCEPT ![p] = "accepted"]
      BY DEF MarkToolReviewAccepted, DecideToolReview
    <3> QED BY <1>0, <1>11, <1>d, <2>1, <3>1, <3>2 DEF MarkAccepted, storeVars
  <2>3. CommandHolds(c)'
    BY <2>1, <2>2 DEF CommandHolds, CommandMoves
  <2>4. \A q \in Review : Forward(q)
    BY <1>0, <1>e, <2>1, <2>2 DEF Forward, Advances
  <2> QED BY <1>10, <2>1, <2>2, <2>3, <2>4
<1>12. ASSUME MarkRejected(c)
       PROVE  ToolReviewTypeOK' /\ ProtocolInv'
  <2>1. /\ p \in Review /\ proposal[p] = "rejected" /\ command[c].pc = "rejectMark"
        /\ UNCHANGED <<proposal, permission, waiter, mailbox>>
    BY <1>1, <1>12 DEF CommandHolds, MarkRejected
  <2>2. PICK pc \in {"idle", "rejectResolve"} :
           /\ CommandMoves(c, pc)
           /\ \/ UNCHANGED reviewStatus
              \/ reviewStatus' = [reviewStatus EXCEPT ![p] = "rejected"]
           /\ pc = "rejectResolve" => reviewStatus'[p] = "rejected"
    <3>1. Step(c, "rejectResolve") => CommandMoves(c, "rejectResolve")
      BY <1>p, <1>s
    <3>2. MarkToolReviewRejected(p) => reviewStatus' = [reviewStatus EXCEPT ![p] = "rejected"]
      BY DEF MarkToolReviewRejected, DecideToolReview
    <3> QED BY <1>0, <1>12, <1>d, <2>1, <3>1, <3>2 DEF MarkRejected, storeVars
  <2>3. CommandHolds(c)'
    BY <2>1, <2>2 DEF CommandHolds, CommandMoves
  <2>4. \A q \in Review : Forward(q)
    BY <1>0, <1>e, <2>1, <2>2 DEF Forward, Advances
  <2> QED BY <1>10, <2>1, <2>2, <2>3, <2>4
<1>13. ASSUME InterruptUnwoken(c)
       PROVE  ToolReviewTypeOK' /\ ProtocolInv'
  <2>1. CommandMoves(c, "idle") /\ UNCHANGED <<proposal, permission, waiter, mailbox>>
    BY <1>13, <1>d DEF InterruptUnwoken
  <2>2. CommandHolds(c)'
    BY <2>1 DEF CommandHolds, CommandMoves
  <2>3. \A q \in Review : reviewStatus'[q] \in {reviewStatus[q], "cancelled"}
    BY <1>13 DEF InterruptUnwoken, TerminalizeGeneralRun, storeVars
  <2>4. \A q \in Review : Forward(q)
    BY <1>e, <2>1, <2>3 DEF Forward, Advances
  <2> QED BY <1>10, <2>1, <2>2, <2>4
\* A command that wakes the executor.
<1>14. ASSUME NEW d \in {"accepted", "rejected"}, NEW pc \in {"idle", "race"}, CommandMoves(c, pc),
              UNCHANGED <<reviewStatus, proposal, permission>>,
              Resolve(p, d), p \in Review, reviewStatus[p] = d, CommandHolds(c)'
       PROVE  ToolReviewTypeOK' /\ ProtocolInv'
  <2>1. /\ waiter' \in SUBSET Review
        /\ mailbox' \in [Review -> {"none", "accepted", "rejected"}]
        /\ \A q \in Review : mailbox'[q] = mailbox[q] \/ (q = p /\ mailbox'[q] = d)
    BY <1>0, <1>14 DEF Resolve
  <2>2. ToolReviewTypeOK'
    BY <1>0, <1>e, <1>14, <2>1 DEF ToolReviewTypeOK, CommandMoves
  <2>3. AsksInv'
    BY <1>1, <1>e, <1>14, <2>1 DEF AsksInv
  <2>4. \A q \in Review : Forward(q)
    BY <1>e, <1>14 DEF Forward, Advances
  <2> QED BY <1>14, <2>2, <2>3, <2>4, CommandMovesKeep DEF CommandMoves
<1>15. ASSUME ResolveAccepted(c)
       PROVE  ToolReviewTypeOK' /\ ProtocolInv'
  <2>1. /\ p \in Review /\ proposal[p] = "accepted" /\ reviewStatus[p] = "accepted"
        /\ Resolve(p, "accepted") /\ UNCHANGED <<reviewStatus, proposal, permission>>
    BY <1>1, <1>15 DEF CommandHolds, ResolveAccepted, allVars, storeVars
  <2>2. PICK pc \in {"idle", "race"} : CommandMoves(c, pc)
    <3>1. Finish(c) \/ Step(c, "race")
      BY <1>15 DEF ResolveAccepted
    <3> QED BY <1>p, <1>s, <1>d, <3>1
  <2>3. CommandHolds(c)'
    BY <2>1, <2>2 DEF CommandHolds, CommandMoves
  <2> QED BY <1>14, <2>1, <2>2, <2>3
<1>16. ASSUME ResolveRejected(c)
       PROVE  ToolReviewTypeOK' /\ ProtocolInv'
  <2>1. /\ p \in Review /\ reviewStatus[p] = "rejected"
        /\ Resolve(p, "rejected") /\ UNCHANGED <<reviewStatus, proposal, permission>>
    BY <1>1, <1>16 DEF CommandHolds, ResolveRejected, allVars, storeVars
  <2>2. CommandMoves(c, "idle")
    BY <1>16, <1>d DEF ResolveRejected
  <2>3. CommandHolds(c)'
    BY <2>2 DEF CommandHolds, CommandMoves
  <2> QED BY <1>14, <2>1, <2>2, <2>3
<1> QED
  BY <1>2, <1>3, <1>5, <1>6, <1>7, <1>8, <1>9, <1>11, <1>12, <1>13, <1>15, <1>16
  DEF OpenCommand, CommandStep

-----------------------------------------------------------------------------
(* The invariant of the composition. *)

\* Requests and Stops leave every Review alone or cancel it with its Run, and put no
\* executor into the protocol.
LEMMA RequestsLeaveReviews ==
    ASSUME ExecInv, UserStep \/ Replay \/ \E r \in Run : StopStep(r)
    PROVE  Undecided /\ \A r \in Run : exec'[r].pc = exec[r].pc \/ exec'[r].pc \notin AsksPc
<1>0. exec \in [Run -> Exec]
  BY DEF ExecInv, WorkTypeOK
<1>1. ASSUME NEW r \in Run, StopStep(r)
      PROVE  Undecided /\ UNCHANGED exec
  <2>1. CASE UNCHANGED storeVars
    BY <1>1, <2>1 DEF Undecided, storeVars, StopStep, RequestCancel, StopTurn, StopRun
  <2>2. CASE TerminalizeGeneralRun(r, "cancelled")
    BY <1>1, <2>2, WaitingReviewsDef
    DEF TerminalizeGeneralRun, Undecided, StopStep, RequestCancel, StopTurn, StopRun
  <2> QED BY <1>1, <2>1, <2>2 DEF StopStep, RequestCancel, StopTurn, StopRun
<1>2. ASSUME NEW r \in Run, NEW t, Call(r, t), UNCHANGED storeVars
      PROVE  Undecided /\ \A q \in Run : exec'[q].pc = exec[q].pc \/ exec'[q].pc \notin AsksPc
  <2>1. exec' = [exec EXCEPT ![r] = [NotStarted EXCEPT !.pc = "called", !.task = t]]
    BY <1>2 DEF Call
  <2>2. \A q \in Run : exec'[q].pc = exec[q].pc \/ exec'[q].pc = "called"
    BY <1>0, <2>1 DEF NotStarted
  <2> QED BY <1>2, <2>2 DEF Undecided, storeVars, AsksPc
<1>3. ASSUME NEW r \in Run, RequestStop(r)
      PROVE  Undecided /\ UNCHANGED exec
  BY <1>3 DEF RequestStop, Undecided, storeVars
<1> QED
  BY <1>1, <1>2, <1>3 DEF UserStep, Replay, ReinvokeRun, StartWork, RestartWork

\* A crash forgets the registry, the mailboxes and the commands, and what is left
\* satisfies the protocol's invariant.
LEMMA ReviewCrashProtocol ==
    ASSUME ToolInv, WorkTypeOK', DecisionStays, ReviewCrash
    PROVE  ToolReviewTypeOK' /\ ProtocolInv'
<1>0. /\ Crash /\ UNCHANGED <<storeVars, proposal, permission, asker>>
      /\ asking' = [r \in Run |-> NoReview] /\ waiter' = {}
      /\ mailbox' = [p \in Review |-> "none"]
      /\ command' = [c \in Caller |-> NoCommand]
  BY DEF ReviewCrash, Crash
<1>1. UNCHANGED reviewStatus
  BY <1>0 DEF storeVars
<1>2. NoCommand \in [pc : CommandPc, p : Review \union {NoReview}, live : BOOLEAN]
  BY DEF NoCommand, CommandPc
<1>3. ToolReviewTypeOK'
  BY <1>0, <1>2 DEF ToolInv, ToolReviewTypeOK
<1>4. \A p \in Review : Forward(p)
  BY <1>0, <1>1 DEF Forward, Advances
<1>5. AsksInv'
  <2>1. \A r \in Run : exec'[r].pc \notin AsksPc
    BY <1>0, CrashFacts DEF ToolInv, ExecInv, AsksPc
  <2>2. \A p \in Review : mailbox'[p] \in {mailbox[p], "none"}
    BY <1>0
  <2> QED BY <2>1, <2>2, AsksKeep DEF ToolInv, ProtocolInv
<1>6. \A c \in Caller : command'[c].pc = "idle"
  BY <1>0 DEF NoCommand
<1>7. (\A c \in Caller : CommandHolds(c)') /\ OneDispatch'
  BY <1>6 DEF CommandHolds, OneDispatch
<1> QED BY <1>3, <1>4, <1>5, <1>7, ForwardAgrees DEF ProtocolInv

\* The startup repair finishes the confirmed Proposals and keeps the invariant.
LEMMA ReconcileProtocol ==
    ASSUME ToolInv, WorkTypeOK', DecisionStays, ReconcileProposals
    PROVE  ToolReviewTypeOK' /\ ProtocolInv'
<1>0. /\ UNCHANGED <<reviewStatus, exec, permission, asker, asking, waiter, mailbox, command>>
      /\ proposal' = [p \in Review |-> IF proposal[p] = "confirmed" THEN "accepted" ELSE proposal[p]]
  BY DEF ReconcileProposals, BootRuns, RecoverInterruptedGeneralRuns, reviewVars, storeVars
<1>1. ToolReviewTypeOK'
  BY <1>0 DEF ToolInv, ToolReviewTypeOK, ProposalState
<1>2. \A p \in Review : Forward(p)
  BY <1>0 DEF Forward, Advances
<1>3. AsksInv'
  BY <1>0, AsksKeep DEF ToolInv, ProtocolInv
<1>4. \A p \in Review : proposal[p] = "claimed" => proposal'[p] = "claimed"
  BY <1>0
<1> QED BY <1>0, <1>1, <1>2, <1>3, <1>4, AskerKeeps

\* The invariant holds before anything happened.
LEMMA ToolInvInit == ToolReviewInit => ToolInv
<1> SUFFICES ASSUME ToolReviewInit
             PROVE  ToolInv
  OBVIOUS
<1>1. WorkInit /\ ExecInv
  BY ExecInvInit DEF ToolReviewInit
<1>2. NoCommand \in [pc : CommandPc, p : Review \union {NoReview}, live : BOOLEAN]
  BY DEF NoCommand, CommandPc
<1>3. ToolReviewTypeOK
  BY <1>1, <1>2 DEF ToolReviewInit, ToolReviewTypeOK, ExecInv, ProposalState
<1>4. ReviewRows
  BY <1>1 DEF WorkInit, StoreInit, ReviewRows, ReviewRow
<1>5. AsksInv
  BY <1>1 DEF WorkInit, NotStarted, ToolReviewInit, AsksInv, AsksPc, GoesOnPc
<1>6. (\A c \in Caller : CommandHolds(c)) /\ OneDispatch
  BY DEF ToolReviewInit, NoCommand, CommandHolds, OneDispatch
<1>7. ProposalInv /\ DecisionsAgree
  BY <1>1 DEF WorkInit, StoreInit, ToolReviewInit, ProposalInv, DecisionsAgree
<1> QED BY <1>1, <1>3, <1>4, <1>5, <1>6, <1>7 DEF ToolInv, ProtocolInv

\* Every step of the composition keeps the invariant.
LEMMA ToolInvStep == ToolInv /\ [ToolReviewNext]_toolVars => ToolInv'
<1> SUFFICES ASSUME ToolInv, [ToolReviewNext]_toolVars
             PROVE  ToolInv'
  OBVIOUS
<1>0. ExecInv /\ AsksInv
  BY DEF ToolInv, ProtocolInv
<1>1. ExecInv' /\ ReviewRows' /\ DecisionStays
  BY ToolStoreStep, ToolReviewRows
<1>2. WorkTypeOK'
  BY <1>1 DEF ExecInv
<1>3. CASE (UserStep \/ Replay \/ \E r \in Run : StopStep(r)) /\ UNCHANGED reviewProtocolVars
  <2>1. Undecided /\ \A r \in Run : exec'[r].pc = exec[r].pc \/ exec'[r].pc \notin AsksPc
    BY <1>0, <1>3, RequestsLeaveReviews
  <2> QED BY <1>1, <1>2, <1>3, <2>1, ProtocolFrame DEF ToolInv
<1>4. ASSUME NEW r \in Run, ToolExecStep(r)
      PROVE  ToolInv'
  <2>1. CASE (ExecStep(r) \/ ReplayCompleted(r)) /\ UNCHANGED reviewProtocolVars
    <3>1. Undecided /\ exec'[r].pc \notin AsksPc /\ \A q \in Run \ {r} : exec'[q] = exec[q]
      BY <1>0, <2>1, ExecLeavesReviews
    <3> QED BY <1>1, <1>2, <2>1, <3>1, ProtocolFrame DEF ToolInv
  <2>2. CASE ReviewStep(r)
    <3>1. \A q \in Run \ {r} : exec'[q] = exec[q]
      BY <1>0, <2>2, ReviewStepInv
    <3> QED BY <1>1, <1>2, <2>2, <3>1, ReviewStepProtocol DEF ToolInv
  <2> QED BY <1>4, <2>1, <2>2 DEF ToolExecStep
<1>5. ASSUME NEW c \in Caller, OpenCommand(c) \/ CommandStep(c)
      PROVE  ToolInv'
  BY <1>1, <1>2, <1>5, CommandProtocol DEF ToolInv
<1>6. CASE ReviewCrash
  BY <1>1, <1>2, <1>6, ReviewCrashProtocol DEF ToolInv
<1>7. CASE BootTurns /\ UNCHANGED reviewProtocolVars
  <2>1. Undecided /\ UNCHANGED exec
    BY <1>7 DEF BootTurns, Undecided, storeVars
  <2> QED BY <1>1, <1>2, <1>7, <2>1, ProtocolFrame DEF ToolInv
<1>8. CASE ReconcileProposals
  BY <1>1, <1>2, <1>8, ReconcileProtocol DEF ToolInv
<1>9. CASE UNCHANGED toolVars
  <2>1. Undecided /\ UNCHANGED exec /\ UNCHANGED reviewProtocolVars
    BY <1>9 DEF toolVars, allVars, workVars, storeVars, Undecided
  <2> QED BY <1>1, <1>2, <2>1, ProtocolFrame DEF ToolInv
<1> QED BY <1>3, <1>4, <1>5, <1>6, <1>7, <1>8, <1>9 DEF ToolReviewNext, ToolBootStep

\* Every reachable state of the tool Review satisfies the invariant.
THEOREM ToolInvariant == ToolReviewSpec => []ToolInv
BY ToolInvInit, ToolInvStep, PTL DEF ToolReviewSpec

\* Every variable of the composition stays typed.
THEOREM ToolTypeCorrect == ToolReviewSpec => []ToolReviewTypeOK
BY ToolInvariant, PTL DEF ToolInv

\* Proposal store, permission store and task store never hold opposite decisions.
THEOREM DecisionsCorrect == ToolReviewSpec => []DecisionsAgree
BY ToolInvariant, PTL DEF ToolInv, ProtocolInv

\* With Reviews and with requests sent again too, a FinalResult has its answer.
THEOREM ToolResultCorrect == ToolReviewSpec => []ResultHasAnswer
BY ToolInvariant, PTL DEF ToolInv, ExecInv

\* The desktop's callers of the task store keep a pause and its undecided Reviews
\* together, and complete a Run with its FinalResult only.
THEOREM ToolPauseCorrect == ToolReviewSpec => [](PauseMatchesReviews /\ FinalResultIffCompleted)
BY ToolInvariant, PTL DEF ToolInv, ExecInv, StoreInv

-----------------------------------------------------------------------------
(* A call is tried again only with an accepted Review. *)

\* Every new Attempt at the tool Item of a Review finds the Review accepted: the two
\* steps that begin one look at the Run, which does not run while its Review is
\* undecided or after it was rejected or cancelled.
LEMMA RetryStep ==
    ASSUME ToolInv, [ToolReviewNext]_toolVars, NEW a \in Attempt, NEW p \in Review,
           attItem[a] = NoItem, attItem'[a] # NoItem, reviewTool[p] = attItem'[a]
    PROVE  reviewStatus[p] = "accepted"
<1>0. ExecInv /\ StoreInv /\ AsksInv /\ ReviewRow(p) /\ attItem \in [Attempt -> Item \union {NoItem}]
      /\ reviewStatus \in [Review -> ReviewStatus \union {"none"}]
  BY DEF ToolInv, ProtocolInv, ExecInv, ReviewRows, StoreInv, StoreTypeOK
<1>1. /\ reviewStatus[p] # "none"
      /\ Owns(itemRun[p], attItem'[a], "tool_call")
      /\ itemRun[p] \in Run
  BY <1>0, ReviewHasRun DEF ReviewRow
<1>2. ASSUME runStatus[itemRun[p]] = "running"
      PROVE  reviewStatus[p] = "accepted"
  <2>1. reviewStatus[p] # "waiting"
    BY <1>0, <1>1, <1>2, WaitingReviewsDef DEF StoreInv, PauseMatchesReviews
  <2>2. reviewStatus[p] \notin {"rejected", "cancelled"}
    BY <1>0, <1>2 DEF ReviewRow, Terminal, GeneralTerminal
  <2> QED BY <1>0, <1>1, <2>1, <2>2 DEF ReviewStatus
<1>3. ASSUME NEW i, NEW b, attItem' = [attItem EXCEPT ![b] = i]
      PROVE  i = attItem'[a] /\ b = a
  BY <1>0, <1>3
<1>4. ASSUME NEW r \in Run, NEW i, NEW b \in Attempt, BeginToolAttempt(r, i, b)
      PROVE  reviewStatus[p] = "accepted"
  <2>1. runStatus[r] = "running" /\ itemRun[i] \in {NoRun, r} /\ attItem' = [attItem EXCEPT ![b] = i]
    BY <1>4 DEF BeginToolAttempt
  <2>2. itemRun[p] = r
    BY <1>1, <1>3, <2>1 DEF Owns
  <2> QED BY <1>2, <2>1, <2>2
<1>5. ASSUME NEW r \in Run, NEW b \in Attempt, RetryApproved(r, b)
      PROVE  reviewStatus[p] = "accepted"
  <2>1. /\ exec[r].pc = "decided" /\ runStatus[r] = "running"
        /\ attItem' = [attItem EXCEPT ![b] = exec[r].item]
    BY <1>5 DEF RetryApproved, At, BeginItemAttempt, storeVars
  <2>2. itemRun[exec[r].item] = r
    BY <1>0, <2>1 DEF ExecInv, HoldsRows, HoldsItem, Owns
  <2>3. itemRun[p] = r
    BY <1>1, <1>3, <2>1, <2>2 DEF Owns
  <2> QED BY <1>2, <2>1, <2>3
<1>6. ASSUME NEW r \in Run, StepOf(r)
      PROVE  reviewStatus[p] = "accepted"
  <2>1. ASSUME NEW i \in Item \ Review, NEW b \in Attempt, itemKind[i] = "provider_generation",
               BeginItemAttempt(i, b)
        PROVE  FALSE
    <3>1. attItem' = [attItem EXCEPT ![b] = i]
      BY <2>1 DEF BeginItemAttempt
    <3> QED BY <1>1, <1>3, <2>1, <3>1 DEF Owns
  <2>2. attItem' # attItem
    OBVIOUS
  <2> QED BY <1>4, <1>6, <2>1, <2>2
    DEF StepOf, BeginGeneralTaskRun, TerminalizeGeneralRun, CloseWorkOf, CompleteGeneralTask,
        AppendGeneralItem, TerminalizeItemAttempt, itemVars, attVars, storeVars
<1>7. ASSUME UNCHANGED attItem
      PROVE  FALSE
  BY <1>7
<1>8. ASSUME NEW r \in Run, ReviewStep(r)
      PROVE  reviewStatus[p] = "accepted"
  BY <1>5, <1>7, <1>8
  DEF ReviewStep, NeedsConfirmation, ToolFinish, SubmitReview, RegisterWaiter, BindReview,
      BindToolReview, WakeReview, ConsumePermission, TerminalizeItemAttempt, attVars, storeVars
<1>9. ASSUME NEW c \in Caller, OpenCommand(c) \/ CommandStep(c)
      PROVE  FALSE
  <2>1. UNCHANGED attItem
    BY <1>9
    DEF OpenCommand, CommandStep, OpenAccept, OpenReject, RequireActive, ClaimDispatch,
        ApplyProposal, RecordEffect, ProjectStatus, ReadWaiter, MarkAccepted, ResolveAccepted,
        InterruptUnwoken, RejectProposal, MarkRejected, ResolveRejected, OnlyCommand,
        MarkToolReviewAccepted, MarkToolReviewRejected, DecideToolReview, TerminalizeGeneralRun,
        CloseWorkOf, attVars, allVars, storeVars
  <2> QED BY <1>7, <2>1
<1>10. ~(UserStep \/ Replay \/ ReviewCrash \/ ToolBootStep \/ UNCHANGED toolVars)
  BY <1>7
  DEF UserStep, StartWork, RestartWork, RequestStop, Replay, ReinvokeRun, ReviewCrash, Crash,
      ToolBootStep, BootTurns, ReconcileProposals, BootRuns, RecoverInterruptedGeneralRuns,
      CloseWorkOf, toolVars, allVars, storeVars
<1>11. ASSUME NEW r \in Run, ReplayCompleted(r)
       PROVE  FALSE
  BY <1>7, <1>11 DEF ReplayCompleted, CompleteGeneralTask, attVars, storeVars
<1> QED
  BY <1>0, <1>6, <1>8, <1>9, <1>10, <1>11, StepOfFacts DEF ToolReviewNext, ToolExecStep

\* No Attempt begins on the Item of a Review that waits, was rejected or was cancelled.
THEOREM RetryCorrect == ToolReviewSpec => RetryNeedsAcceptance
<1>1. ToolInv /\ [ToolReviewNext]_toolVars =>
         \A a \in Attempt, p \in Review :
            attItem[a] = NoItem /\ attItem'[a] # NoItem /\ reviewTool[p] = attItem'[a]
               => reviewStatus[p] = "accepted"
  BY RetryStep
<1> QED BY <1>1, ToolInvariant, PTL DEF ToolReviewSpec, RetryNeedsAcceptance

-----------------------------------------------------------------------------
(* A pause, its Review and the Task's status. *)

\* The parts of the invariant that only the task store's rows are in.
WaitsPause ==
    \A p \in Review : reviewStatus[p] = "waiting" => runStatus[itemRun[p]] = "waiting_review"
OneWaits ==
    \A p, q \in Review :
       reviewStatus[p] = "waiting" /\ reviewStatus[q] = "waiting" /\ itemRun[p] = itemRun[q] => p = q
RowsPause == WaitsPause /\ OneWaits /\ LiveTaskHasLiveRun

\* No Run begins to wait.
NoNewPause ==
    \A r \in Run : runStatus'[r] = "waiting_review" => runStatus[r] = "waiting_review"

\* No Review begins to wait.
NoNewWait ==
    \A p \in Review : reviewStatus'[p] = "waiting" => reviewStatus[p] = "waiting" /\ itemRun'[p] = itemRun[p]

\* An operation that leaves the statuses alone keeps these parts.
LEMMA RowsPauseFrame ==
    ASSUME StoreInv, Grows, RowsPause, UNCHANGED <<taskStatus, runTask, runStatus, reviewStatus>>
    PROVE  RowsPause' /\ NoNewPause /\ NoNewWait
<1>1. \A p \in Review : reviewStatus[p] # "none" => itemRun'[p] = itemRun[p]
  BY ReviewHasRun DEF Grows
<1>2. WaitsPause' /\ OneWaits' /\ NoNewPause /\ NoNewWait
  BY <1>1 DEF RowsPause, WaitsPause, OneWaits, NoNewPause, NoNewWait
<1>3. LiveTaskHasLiveRun'
  BY DEF RowsPause, LiveTaskHasLiveRun, RunsOf
<1> QED BY <1>2, <1>3 DEF RowsPause

\* Beginning, completing and recovering Runs keeps them.
LEMMA RowsPauseRuns ==
    ASSUME StoreInv, Grows, RowsPause,
           \/ \E t \in Task, r \in Run : BeginGeneralTaskRun(t, r)
           \/ RecoverInterruptedGeneralRuns
           \/ \E r \in Run : CompleteGeneralTask(r)
    PROVE  RowsPause' /\ NoNewPause /\ NoNewWait
<1>0. /\ taskStatus \in [Task -> CanonicalTaskStatus \union {"none"}]
      /\ runTask \in [Run -> Task \union {NoTask}]
      /\ runStatus \in [Run -> CanonicalTaskStatus \union {"none"}]
      /\ \A r \in Run : runTask[r] = NoTask <=> runStatus[r] = "none"
  BY DEF StoreInv, StoreTypeOK, RowsConsistent
<1>1. \A p \in Review : reviewStatus[p] # "none" =>
         itemRun'[p] = itemRun[p] /\ itemRun[p] \in Run
  BY ReviewHasRun DEF Grows
<1>2. ASSUME UNCHANGED reviewStatus,
             \A r \in Run : \/ runStatus'[r] = runStatus[r]
                            \/ /\ runStatus[r] # "waiting_review" /\ runStatus'[r] # "waiting_review"
      PROVE  WaitsPause' /\ OneWaits' /\ NoNewPause /\ NoNewWait
  BY <1>1, <1>2 DEF RowsPause, WaitsPause, OneWaits, NoNewPause, NoNewWait
<1> USE DEF LiveTaskHasLiveRun, RunsOf
<1>3. ASSUME NEW t \in Task, NEW r \in Run, BeginGeneralTaskRun(t, r)
      PROVE  RowsPause' /\ NoNewPause /\ NoNewWait
  <2>1. /\ runTask[r] = NoTask /\ UNCHANGED reviewStatus
        /\ runTask' = [runTask EXCEPT ![r] = t]
        /\ runStatus' = [runStatus EXCEPT ![r] = "running"]
        /\ taskStatus' = [taskStatus EXCEPT ![t] = "running"]
    BY <1>3 DEF BeginGeneralTaskRun, reviewVars
  <2>2. LiveTaskHasLiveRun'
    BY <1>0, <2>1 DEF RowsPause
  <2> QED BY <1>0, <1>2, <2>1, <2>2 DEF RowsPause
<1>4. ASSUME RecoverInterruptedGeneralRuns
      PROVE  RowsPause' /\ NoNewPause /\ NoNewWait
  <2>1. /\ UNCHANGED <<runTask, reviewStatus>>
        /\ \A r \in Run : runStatus'[r] = IF runStatus[r] = "running" THEN "interrupted" ELSE runStatus[r]
        /\ \A t \in Task : taskStatus'[t] =
              IF taskStatus[t] = "running" /\ \E r \in RunsOf(t) : runStatus[r] = "running"
              THEN "interrupted" ELSE taskStatus[t]
    BY <1>4 DEF RecoverInterruptedGeneralRuns, reviewVars
  <2>2. LiveTaskHasLiveRun'
    BY <1>0, <2>1 DEF RowsPause
  <2> QED BY <1>0, <1>2, <2>1, <2>2 DEF RowsPause
<1>5. ASSUME NEW r \in Run, CompleteGeneralTask(r)
      PROVE  RowsPause' /\ NoNewPause /\ NoNewWait
  <2>1. /\ runStatus[r] = "running" /\ UNCHANGED <<runTask, reviewStatus>>
        /\ runStatus' = [runStatus EXCEPT ![r] = "completed"]
        /\ taskStatus' = [taskStatus EXCEPT ![runTask[r]] = "completed"]
    BY <1>5 DEF CompleteGeneralTask, reviewVars
  <2>2. runTask[r] \in Task
    BY <1>0, <2>1
  <2>3. LiveTaskHasLiveRun'
    BY <1>0, <2>1, <2>2 DEF RowsPause
  <2> QED BY <1>0, <1>2, <2>1, <2>3 DEF RowsPause
<1> QED BY <1>3, <1>4, <1>5

\* Ending a Run keeps them when the Run is not paused or its Reviews are cancelled
\* with it.
LEMMA RowsPauseEnd ==
    ASSUME StoreInv, RowsPause, NEW r \in Run, NEW st \in GeneralTerminal,
           TerminalizeGeneralRun(r, st),
           runStatus[r] # "waiting_review" \/ st \in {"cancelled", "interrupted"}
    PROVE  RowsPause' /\ NoNewPause /\ NoNewWait /\ runStatus'[r] # "waiting_review"
<1>0. /\ taskStatus \in [Task -> CanonicalTaskStatus \union {"none"}]
      /\ runTask \in [Run -> Task \union {NoTask}]
      /\ runStatus \in [Run -> CanonicalTaskStatus \union {"none"}]
  BY DEF StoreInv, StoreTypeOK
<1>1. /\ UNCHANGED <<runTask, itemRun>> /\ runTask[r] # NoTask
      /\ runStatus' = [runStatus EXCEPT ![r] = st]
      /\ taskStatus' = [taskStatus EXCEPT ![runTask[r]] = st]
      /\ \A p \in Review : reviewStatus'[p] =
            IF st \in {"cancelled", "interrupted"} /\ itemRun[p] = r /\ reviewStatus[p] = "waiting"
            THEN "cancelled" ELSE reviewStatus[p]
  <2>1. \A p \in Review : p \in WaitingReviews(r) <=> itemRun[p] = r /\ reviewStatus[p] = "waiting"
    BY WaitingReviewsDef
  <2> QED BY <2>1 DEF TerminalizeGeneralRun, CloseWorkOf
<1>2. st \notin {"running", "waiting_review"}
  BY DEF GeneralTerminal
<1>3. \A p \in Review : reviewStatus[p] = "waiting" => itemRun[p] \in Run
  BY ReviewHasRun
<1>4. WaitsPause'
  <2> SUFFICES ASSUME NEW p \in Review, reviewStatus'[p] = "waiting"
               PROVE  runStatus'[itemRun'[p]] = "waiting_review"
    BY DEF WaitsPause
  <2>1. reviewStatus[p] = "waiting" /\ ~(st \in {"cancelled", "interrupted"} /\ itemRun[p] = r)
    BY <1>1
  <2>2. runStatus[itemRun[p]] = "waiting_review" /\ itemRun[p] \in Run
    BY <1>3, <2>1 DEF RowsPause, WaitsPause
  <2> QED BY <1>0, <1>1, <2>1, <2>2
<1>5. OneWaits' /\ NoNewPause /\ NoNewWait
  BY <1>0, <1>1, <1>2 DEF RowsPause, OneWaits, NoNewPause, NoNewWait
<1>6. LiveTaskHasLiveRun'
  BY <1>0, <1>1, <1>2 DEF RowsPause, LiveTaskHasLiveRun, RunsOf
<1> QED BY <1>0, <1>1, <1>2, <1>4, <1>5, <1>6 DEF RowsPause

\* Binding the Review of a Run that is not paused pauses it.
LEMMA RowsPauseBind ==
    ASSUME StoreInv, RowsPause, NEW r \in Run, NEW i \in Item, NEW p \in Review, Owns(r, i, "tool_call"),
           BindToolReview(r, i, p), runStatus[r] # "waiting_review"
    PROVE  /\ RowsPause'
           /\ \A q \in Run \ {r} : runStatus'[q] = "waiting_review" => runStatus[q] = "waiting_review"
           /\ \A q \in Review : reviewStatus'[q] = "waiting" =>
                 \/ q = p
                 \/ reviewStatus[q] = "waiting" /\ itemRun'[q] = itemRun[q] /\ itemRun[q] # r
<1>0. /\ taskStatus \in [Task -> CanonicalTaskStatus \union {"none"}]
      /\ runTask \in [Run -> Task \union {NoTask}]
      /\ runStatus \in [Run -> CanonicalTaskStatus \union {"none"}]
      /\ itemRun \in [Item -> Run \union {NoRun}]
      /\ reviewStatus \in [Review -> ReviewStatus \union {"none"}]
      /\ runTask[r] = NoTask <=> runStatus[r] = "none"
  BY DEF StoreInv, StoreTypeOK, RowsConsistent
<1>1. /\ runStatus[r] = "running" /\ UNCHANGED runTask
      /\ reviewStatus' = [reviewStatus EXCEPT ![p] = "waiting"]
      /\ itemRun' = [itemRun EXCEPT ![p] = r]
      /\ taskStatus' = [taskStatus EXCEPT ![runTask[r]] = IF @ \in Live THEN "waiting_review" ELSE @]
      /\ runStatus' = [runStatus EXCEPT ![r] = "waiting_review"]
  BY DEF BindToolReview, Live
<1>2. runTask[r] \in Task /\ p \in Item
  BY <1>0, <1>1
<1>3. \A q \in Review : reviewStatus[q] = "waiting" => itemRun[q] \in Run /\ itemRun[q] # r
  BY <1>1, ReviewHasRun DEF RowsPause, WaitsPause
<1>4. WaitsPause' /\ OneWaits'
  <2>1. \A q \in Review : reviewStatus'[q] = "waiting" =>
           \/ q = p /\ itemRun'[q] = r
           \/ q # p /\ reviewStatus[q] = "waiting" /\ itemRun'[q] = itemRun[q] /\ itemRun[q] # r
    BY <1>0, <1>1, <1>2, <1>3
  <2>2. WaitsPause'
    <3> SUFFICES ASSUME NEW q \in Review, reviewStatus'[q] = "waiting"
                 PROVE  runStatus'[itemRun'[q]] = "waiting_review"
      BY DEF WaitsPause
    <3>1. CASE q = p /\ itemRun'[q] = r
      BY <1>0, <1>1, <3>1
    <3>2. CASE q # p /\ reviewStatus[q] = "waiting" /\ itemRun'[q] = itemRun[q]
      BY <1>0, <1>1, <1>3, <3>2 DEF RowsPause, WaitsPause
    <3> QED BY <2>1, <3>1, <3>2
  <2>3. OneWaits'
    BY <2>1 DEF RowsPause, OneWaits
  <2> QED BY <2>2, <2>3
<1>5. LiveTaskHasLiveRun'
  BY <1>0, <1>1, <1>2 DEF RowsPause, LiveTaskHasLiveRun, RunsOf, Live
<1>6. \A q \in Run \ {r} : runStatus'[q] = "waiting_review" => runStatus[q] = "waiting_review"
  BY <1>0, <1>1
<1>7. ASSUME NEW q \in Review, reviewStatus'[q] = "waiting"
      PROVE  \/ q = p
             \/ reviewStatus[q] = "waiting" /\ itemRun'[q] = itemRun[q] /\ itemRun[q] # r
  BY <1>0, <1>1, <1>3, <1>7
<1> QED BY <1>4, <1>5, <1>6, <1>7 DEF RowsPause

\* Deciding the one undecided Review of a Run ends its pause.
LEMMA RowsPauseDecide ==
    ASSUME StoreInv, RowsPause, NEW p \in Review, NEW d \in {"accepted", "rejected"},
           NEW next \in {"running", "interrupted", "blocked"}, DecideToolReview(p, d, next)
    PROVE  RowsPause' /\ NoNewPause /\ NoNewWait
<1> DEFINE r == itemRun[p]
<1>0. /\ taskStatus \in [Task -> CanonicalTaskStatus \union {"none"}]
      /\ runTask \in [Run -> Task \union {NoTask}]
      /\ runStatus \in [Run -> CanonicalTaskStatus \union {"none"}]
      /\ reviewStatus \in [Review -> ReviewStatus \union {"none"}]
      /\ \A q \in Run : runTask[q] = NoTask <=> runStatus[q] = "none"
  BY DEF StoreInv, StoreTypeOK, RowsConsistent
<1>1. /\ reviewStatus[p] = "waiting" /\ UNCHANGED <<runTask, itemRun>>
      /\ reviewStatus' = [reviewStatus EXCEPT ![p] = d]
      /\ taskStatus' = [taskStatus EXCEPT ![runTask[r]] = IF @ = "waiting_review" THEN next ELSE @]
      /\ runStatus' = [runStatus EXCEPT ![r] = IF @ = "waiting_review" THEN next ELSE @]
  BY DEF DecideToolReview
<1>2. r \in Run /\ runStatus[r] = "waiting_review"
  BY <1>1, ReviewHasRun DEF RowsPause, WaitsPause
<1>3. runTask[r] \in Task
  BY <1>0, <1>2
<1>4. runStatus' = [runStatus EXCEPT ![r] = next]
  BY <1>0, <1>1, <1>2
<1>5. \A q \in Review : reviewStatus'[q] = "waiting" => reviewStatus[q] = "waiting" /\ itemRun[q] # r
  BY <1>0, <1>1 DEF RowsPause, OneWaits
<1>6. WaitsPause'
  <2> SUFFICES ASSUME NEW q \in Review, reviewStatus'[q] = "waiting"
               PROVE  runStatus'[itemRun'[q]] = "waiting_review"
    BY DEF WaitsPause
  <2>1. itemRun[q] # r /\ itemRun[q] \in Run /\ runStatus[itemRun[q]] = "waiting_review"
    BY <1>5, ReviewHasRun DEF RowsPause, WaitsPause
  <2> QED BY <1>0, <1>1, <1>4, <2>1
<1>7. OneWaits' /\ NoNewPause /\ NoNewWait
  BY <1>0, <1>1, <1>4, <1>5 DEF RowsPause, OneWaits, NoNewPause, NoNewWait
<1>8. LiveTaskHasLiveRun'
  BY <1>0, <1>1, <1>2, <1>3, <1>4 DEF RowsPause, LiveTaskHasLiveRun, RunsOf
<1> QED BY <1>6, <1>7, <1>8 DEF RowsPause

\* Where the executor of a paused Run can be: at its wait, on its way out after a
\* Stop, or gone with a crash, whose Turn is not running any more.
Outside(r) ==
    \/ exec[r].pc = "wait"
    \/ exec[r].pc = "fail" /\ exec[r].endAs = "cancelled"
    \/ exec[r].pc \in {"exit", "called", "replay"} /\ (boot = "turns" \/ turn[r] # "running")
PausedAt(r) == runStatus[r] = "waiting_review" => Outside(r)

\* An executor waits for the undecided Review of its Run.
WaitsForAsked(r) ==
    \A p \in Review :
       exec[r].pc = "wait" /\ reviewStatus[p] = "waiting" /\ itemRun[p] = r => p = asking[r]

PauseInv ==
    /\ \A r \in Run : PausedAt(r) /\ WaitsForAsked(r)
    /\ RowsPause

\* What one executor does, or anybody beside it, keeps the invariant when no other
\* Run or Review begins to wait.
LEMMA PauseKeep ==
    ASSUME PauseInv, RowsPause', NoNewPause, NoNewWait, NEW r \in Run,
           \A q \in Run \ {r} : /\ exec'[q] = exec[q] /\ asking'[q] = asking[q]
                                /\ turn'[q] = turn[q] \/ turn'[q] # "running",
           UNCHANGED boot,
           runStatus'[r] = "waiting_review" => Outside(r)',
           exec'[r].pc = "wait" => exec[r].pc = "wait" /\ asking'[r] = asking[r]
    PROVE  PauseInv'
<1>1. ASSUME NEW q \in Run
      PROVE  PausedAt(q)'
  <2>1. CASE q = r
    BY <2>1 DEF PausedAt
  <2>2. CASE q # r
    <3>1. exec'[q] = exec[q] /\ (turn'[q] = turn[q] \/ turn'[q] # "running")
      BY <2>2
    <3>2. PausedAt(q) /\ (runStatus'[q] = "waiting_review" => runStatus[q] = "waiting_review")
      BY DEF PauseInv, NoNewPause
    <3> QED BY <3>1, <3>2 DEF PausedAt, Outside
  <2> QED BY <2>1, <2>2
<1>2. ASSUME NEW q \in Run
      PROVE  WaitsForAsked(q)'
  <2>1. exec'[q].pc = "wait" => exec[q].pc = "wait" /\ asking'[q] = asking[q]
    BY DEF NoNewPause
  <2>2. WaitsForAsked(q)
    BY DEF PauseInv
  <2> QED BY <2>1, <2>2 DEF WaitsForAsked, NoNewWait
<1> QED BY <1>1, <1>2 DEF PauseInv

\* What the executor's steps do to the rows, to the Turns and to the commands.
LEMMA ExecPauseRows ==
    ASSUME ToolInv, PauseInv, NEW r \in Run, ExecStep(r) \/ ReplayCompleted(r)
    PROVE  RowsPause' /\ NoNewPause /\ NoNewWait
<1>0. ExecInv /\ StoreInv /\ AttemptsHaveItems /\ RowsPause /\ HoldsRows(r) /\ PausedAt(r)
  BY DEF ToolInv, ExecInv, PauseInv
<1>1. Grows
  BY <1>0, ExecStepStore
<1>2. ASSUME UNCHANGED <<taskStatus, runTask, runStatus, reviewStatus>>
      PROVE  RowsPause' /\ NoNewPause /\ NoNewWait
  BY <1>0, <1>1, <1>2, RowsPauseFrame
<1>3. CASE FailRun(r)
  <2>1. CASE UNCHANGED storeVars
    BY <1>2, <2>1 DEF storeVars
  <2>2. CASE TerminalizeGeneralRun(r, exec[r].endAs)
    <3>1. exec[r].endAs \in GeneralTerminal /\ exec[r].pc = "fail"
      BY <1>0, <1>3 DEF FailRun, At, HoldsRows
    <3>2. runStatus[r] # "waiting_review" \/ exec[r].endAs = "cancelled"
      BY <1>0, <3>1 DEF PausedAt, Outside
    <3> QED BY <1>0, <2>2, <3>1, <3>2, RowsPauseEnd
  <2> QED BY <1>3, <2>1, <2>2 DEF FailRun
<1>4. CASE CompleteGeneralTask(r)
  BY <1>0, <1>1, <1>4, RowsPauseRuns
<1>5. CASE BeginRun(r)
  <2>1. exec[r].task \in Task
    BY <1>0, <1>5 DEF BeginRun, At, ExecInv, HoldsTurn
  <2>2. CASE BeginGeneralTaskRun(exec[r].task, r)
    BY <1>0, <1>1, <2>1, <2>2, RowsPauseRuns
  <2>3. CASE UNCHANGED storeVars
    BY <1>2, <2>3 DEF storeVars
  <2> QED BY <1>5, <2>2, <2>3 DEF BeginRun
<1>6. CASE CompleteTask(r) \/ ReplayCompleted(r)
  <2>1. CompleteGeneralTask(r) \/ UNCHANGED storeVars
    BY <1>6 DEF CompleteTask, ReplayCompleted
  <2> QED BY <1>2, <1>4, <2>1 DEF storeVars
<1>7. ASSUME NEW i, ProviderAppend(r, i)
      PROVE  UNCHANGED <<taskStatus, runTask, runStatus, reviewStatus>>
  BY <1>7 DEF ProviderAppend, AppendGeneralItem, taskVars, runVars, reviewVars
<1>8. ASSUME NEW a, ProviderBegin(r, a)
      PROVE  UNCHANGED <<taskStatus, runTask, runStatus, reviewStatus>>
  BY <1>8 DEF ProviderBegin, BeginItemAttempt, taskVars, runVars, reviewVars, storeVars
<1>9. ASSUME NEW o, ProviderFinish(r, o)
      PROVE  UNCHANGED <<taskStatus, runTask, runStatus, reviewStatus>>
  BY <1>9 DEF ProviderFinish, TerminalizeItemAttempt, taskVars, runVars, reviewVars, storeVars
<1>10. ASSUME NEW i, NEW a, BeginToolAttempt(r, i, a)
       PROVE  UNCHANGED <<taskStatus, runTask, runStatus, reviewStatus>>
  BY <1>10 DEF BeginToolAttempt, taskVars, runVars, reviewVars
<1>11. ASSUME NEW st, ToolFinish(r, st, "work")
       PROVE  UNCHANGED <<taskStatus, runTask, runStatus, reviewStatus>>
  BY <1>11 DEF ToolFinish, TerminalizeItemAttempt, taskVars, runVars, reviewVars, storeVars
<1>12. ASSUME UNCHANGED storeVars
       PROVE  UNCHANGED <<taskStatus, runTask, runStatus, reviewStatus>>
  BY <1>12 DEF storeVars
<1> QED
  BY <1>2, <1>3, <1>5, <1>6, <1>7, <1>8, <1>9, <1>10, <1>11, <1>12
  DEF ExecStep, BeginTurn, BeginRunRefused, ScopeUnreadable, Register, AdmitProviderStart,
      StepRefused, StepError, RetryDecision, EndPhase, ObserveCancel, ProviderFailed,
      ProjectionRefused, CompleteWorkTurn, FailTurn

\* The executor of a paused Run only leaves: a Stop takes it from its wait to the end
\* of the Run, and one that was called again returns.
LEMMA PausedExec ==
    ASSUME ToolInv, PauseInv, NEW r \in Run, ExecStep(r) \/ ReplayCompleted(r),
           runStatus[r] = "waiting_review", runStatus'[r] = "waiting_review"
    PROVE  Outside(r)'
<1>0. /\ ExecInv /\ WorkTypeOK /\ exec \in [Run -> Exec] /\ HoldsTurn(r) /\ Outside(r)
      /\ StoreInv /\ boot = "up"
  <2>1. boot = "up"
    BY DEF ExecStep, BeginTurn, BeginRun, BeginRunRefused, ScopeUnreadable, Register, ProviderAppend,
      ProviderBegin, AdmitProviderStart, ProviderFinish, BeginToolAttempt, ToolFinish, StepRefused,
      StepError, RetryDecision, EndPhase, ObserveCancel, ProviderFailed, ProjectionRefused,
      CompleteWorkTurn, CompleteTask, FailRun, FailTurn, ReplayCompleted, At
  <2> QED BY <2>1 DEF ToolInv, ExecInv, WorkTypeOK, PauseInv, PausedAt
<1>1. turn[r] # "none"
  BY <1>0 DEF HoldsTurn, StoreInv, RowsConsistent
<1>2. CASE exec[r].pc = "wait"
  <2>1. ObserveCancel(r)
    BY <1>2
    DEF ExecStep, BeginTurn, BeginRun, BeginRunRefused, ScopeUnreadable, Register, ProviderAppend,
      ProviderBegin, AdmitProviderStart, ProviderFinish, BeginToolAttempt, ToolFinish, StepRefused,
      StepError, RetryDecision, EndPhase, ProviderFailed, ProjectionRefused,
      CompleteWorkTurn, CompleteTask, FailRun, FailTurn, ReplayCompleted, At
  <2>2. "fail" \in ExecPc /\ "cancelled" \in GeneralTerminal
    BY DEF ExecPc, GeneralTerminal
  <2>3. exec'[r].pc = "fail" /\ exec'[r].endAs = "cancelled"
    BY <1>0, <2>1, <2>2, DropFacts DEF ObserveCancel, GoFail, Moves
  <2> QED BY <2>3 DEF Outside
<1>3. CASE exec[r].pc = "fail"
  <2>1. FailRun(r)
    BY <1>3
    DEF ExecStep, BeginTurn, BeginRun, BeginRunRefused, ScopeUnreadable, Register, ProviderAppend,
      ProviderBegin, AdmitProviderStart, ProviderFinish, BeginToolAttempt, ToolFinish, StepRefused,
      StepError, RetryDecision, EndPhase, ObserveCancel, ProviderFailed, ProjectionRefused,
      CompleteWorkTurn, CompleteTask, FailTurn, ReplayCompleted, At
  <2>2. CanTerminalize(r, exec[r].endAs)
    <3>1. runTask[r] # NoTask
      BY <1>0 DEF StoreInv, RowsConsistent
    <3> QED BY <3>1, StatusFacts DEF CanTerminalize
  <2>3. exec[r].endAs \in GeneralTerminal /\ runStatus' = [runStatus EXCEPT ![r] = exec[r].endAs]
    BY <2>1, <2>2 DEF FailRun, TerminalizeGeneralRun
  <2>4. runStatus'[r] = exec[r].endAs
    BY <1>0, <2>3 DEF WorkTypeOK, StoreTypeOK
  <2> QED BY <2>3, <2>4 DEF GeneralTerminal
<1>4. CASE exec[r].pc \in {"exit", "called", "replay"}
  <2>0. turn[r] # "running"
    BY <1>0, <1>4 DEF Outside
  <2>1. BeginTurn(r) \/ ReplayCompleted(r)
    BY <1>4
    DEF ExecStep, BeginRun, BeginRunRefused, ScopeUnreadable, Register, ProviderAppend,
      ProviderBegin, AdmitProviderStart, ProviderFinish, BeginToolAttempt, ToolFinish, StepRefused,
      StepError, RetryDecision, EndPhase, ObserveCancel, ProviderFailed, ProjectionRefused,
      CompleteWorkTurn, CompleteTask, FailRun, FailTurn, At
  <2>2. UNCHANGED turn /\ (Goto(r, "replay") \/ Return(r))
    BY <1>1, <2>0, <2>1 DEF BeginTurn, ReplayCompleted
  <2>3. exec'[r].pc \in {"exit", "replay"}
    <3>1. "replay" \in ExecPc
      BY DEF ExecPc
    <3> QED BY <1>0, <2>2, <3>1, GotoFacts, ReturnFacts DEF Moves
  <2> QED BY <2>0, <2>2, <2>3 DEF Outside
<1> QED BY <1>0, <1>2, <1>3, <1>4 DEF Outside

\* An executor writes its own Turn only.
LEMMA ExecTurn ==
    ASSUME WorkTypeOK, NEW r \in Run, ExecStep(r) \/ ReplayCompleted(r)
    PROVE  UNCHANGED boot /\ \A q \in Run \ {r} : turn'[q] = turn[q]
<1>0. turn \in [Run -> TurnStatus \union {"none"}]
  BY DEF WorkTypeOK
<1>1. CASE UNCHANGED <<turn, boot>>
  BY <1>1
<1>2. CASE BeginTurn(r)
  BY <1>0, <1>2 DEF BeginTurn
<1>3. CASE CompleteWorkTurn(r)
  BY <1>0, <1>3 DEF CompleteWorkTurn
<1>4. CASE FailTurn(r)
  BY <1>0, <1>4 DEF FailTurn
<1> QED
  BY <1>1, <1>2, <1>3, <1>4
  DEF ExecStep, BeginRun, BeginRunRefused, ScopeUnreadable, Register, ProviderAppend, ProviderBegin,
      AdmitProviderStart, ProviderFinish, BeginToolAttempt, ToolFinish, StepRefused, StepError,
      RetryDecision, EndPhase, ObserveCancel, ProviderFailed, ProjectionRefused, CompleteTask,
      FailRun, ReplayCompleted

\* The steps of an executor beside the protocol keep the pauses.
LEMMA PauseExecStep ==
    ASSUME ToolInv, PauseInv, NEW r \in Run, ExecStep(r) \/ ReplayCompleted(r), UNCHANGED asking
    PROVE  PauseInv'
<1>0. ExecInv /\ WorkTypeOK
  BY DEF ToolInv, ExecInv
<1>1. RowsPause' /\ NoNewPause /\ NoNewWait
  BY ExecPauseRows
<1>2. exec'[r].pc \notin AsksPc /\ \A q \in Run \ {r} : exec'[q] = exec[q]
  BY <1>0, ExecLeavesReviews
<1>3. UNCHANGED boot /\ \A q \in Run \ {r} : turn'[q] = turn[q]
  BY <1>0, ExecTurn
<1>4. runStatus'[r] = "waiting_review" => Outside(r)'
  BY <1>1, PausedExec DEF NoNewPause
<1> QED BY <1>1, <1>2, <1>3, <1>4, PauseKeep DEF AsksPc

\* The executor's side of the protocol keeps the pauses: it binds a Review while its
\* Run runs, and is woken when the Review it waits for is decided.
LEMMA PauseReviewStep ==
    ASSUME ToolInv, PauseInv, NEW r \in Run, ReviewStep(r)
    PROVE  PauseInv'
<1>0. /\ ExecInv /\ WorkTypeOK /\ StoreInv /\ AsksInv /\ RowsPause /\ PausedAt(r) /\ WaitsForAsked(r)
      /\ exec \in [Run -> Exec] /\ exec[r] \in Exec /\ HoldsRows(r)
      /\ asking \in [Run -> Review \union {NoReview}]
  BY DEF ToolInv, ProtocolInv, ExecInv, WorkTypeOK, PauseInv, ToolReviewTypeOK
<1>1. /\ [StoreNext]_storeVars /\ UNCHANGED <<turn, boot>>
      /\ \A q \in Run \ {r} : exec'[q] = exec[q]
  BY <1>0, ReviewStepStore, ReviewStepInv
<1>2. Grows
  BY <1>0, <1>1, StoreGrows
<1>3. \A q \in Run \ {r} : asking'[q] = asking[q]
  BY <1>0 DEF ReviewStep, NeedsConfirmation, SubmitReview, RegisterWaiter, BindReview, WakeReview,
              RetryApproved, ConsumePermission, reviewProtocolVars
<1>4. CASE BindReview(r)
  <2>0. exec[r].pc = "bind" /\ UNCHANGED asking /\ asking[r] \in Review
    BY <1>0, <1>4 DEF BindReview, At, AsksInv, AsksPc
  <2>1. runStatus[r] # "waiting_review"
    BY <1>0, <2>0 DEF PausedAt, Outside
  <2>2. CASE /\ UNCHANGED storeVars
             /\ exec' = [exec EXCEPT ![r].pc = "work", ![r].item = NoItem]
    <3>1. RowsPause' /\ NoNewPause /\ NoNewWait
      BY <1>0, <1>2, <2>2, RowsPauseFrame DEF storeVars
    <3>2. exec'[r].pc = "work"
      BY <1>0, <2>2, GiveUp DEF Moves
    <3> QED BY <1>1, <1>3, <2>1, <3>1, <3>2, PauseKeep DEF NoNewPause
  <2>3. CASE BindToolReview(r, exec[r].item, asking[r]) /\ Goto(r, "wait")
    <3>1. exec[r].item \in Item /\ Owns(r, exec[r].item, "tool_call")
      BY <1>0, <2>0 DEF HoldsRows, HoldsItem, Owns
    <3>2. /\ RowsPause'
          /\ \A q \in Run \ {r} : runStatus'[q] = "waiting_review" => runStatus[q] = "waiting_review"
          /\ \A q \in Review : reviewStatus'[q] = "waiting" =>
                \/ q = asking[r]
                \/ reviewStatus[q] = "waiting" /\ itemRun'[q] = itemRun[q] /\ itemRun[q] # r
      BY <1>0, <2>0, <2>1, <2>3, <3>1, RowsPauseBind
    <3>3. exec'[r].pc = "wait"
      BY <1>0, <2>3 DEF Goto, Exec
    <3>4. ASSUME NEW q \in Run
          PROVE  PausedAt(q)'
      <4>1. CASE q = r
        BY <3>3, <4>1 DEF PausedAt, Outside
      <4>2. CASE q # r
        <5>1. PausedAt(q)
          BY DEF PauseInv
        <5> QED BY <1>1, <3>2, <4>2, <5>1 DEF PausedAt, Outside
      <4> QED BY <4>1, <4>2
    <3>5. ASSUME NEW q \in Run
          PROVE  WaitsForAsked(q)'
      <4>0. itemRun'[asking[r]] = r
        BY <1>0, <2>0, <2>3 DEF BindToolReview, StoreInv, StoreTypeOK
      <4>1. CASE q = r
        BY <2>0, <3>2, <4>1 DEF WaitsForAsked
      <4>2. CASE q # r
        <5>1. WaitsForAsked(q) /\ exec'[q] = exec[q]
          BY <1>1, <4>2 DEF PauseInv
        <5> QED BY <2>0, <3>2, <4>0, <4>2, <5>1 DEF WaitsForAsked
      <4> QED BY <4>1, <4>2
    <3> QED BY <3>2, <3>4, <3>5 DEF PauseInv
  <2> QED BY <1>4, <2>2, <2>3 DEF BindReview
<1>5. CASE ~BindReview(r)
  <2>1. UNCHANGED <<taskStatus, runTask, runStatus, reviewStatus>>
    BY <1>5 DEF ReviewStep, NeedsConfirmation, ToolFinish, SubmitReview, RegisterWaiter, WakeReview,
                RetryApproved, ConsumePermission, TerminalizeItemAttempt, BeginItemAttempt,
                taskVars, runVars, reviewVars, storeVars
  <2>2. RowsPause' /\ NoNewPause /\ NoNewWait
    BY <1>0, <1>2, <2>1, RowsPauseFrame
  <2>3. runStatus[r] # "waiting_review"
    <3>1. CASE ~WakeReview(r)
      <4>1. exec[r].pc \in {"tool", "confirm", "submitted", "decided", "approved"}
        BY <1>5, <3>1 DEF ReviewStep, NeedsConfirmation, SubmitReview, RegisterWaiter,
                          RetryApproved, ConsumePermission, At
      <4> QED BY <1>0, <4>1 DEF PausedAt, Outside
    <3>2. CASE WakeReview(r)
      <4>1. exec[r].pc = "wait" /\ asking[r] \in Review /\ mailbox[asking[r]] \in {"accepted", "rejected"}
        BY <1>0, <3>2 DEF WakeReview, At, AsksInv, AsksPc
      <4>2. reviewStatus[asking[r]] # "waiting"
        BY <1>0, <4>1 DEF AsksInv
      <4>3. WaitingReviews(r) = {}
        BY <1>0, <4>1, <4>2, WaitingReviewsDef DEF WaitsForAsked
      <4> QED BY <1>0, <4>3 DEF StoreInv, PauseMatchesReviews
    <3> QED BY <3>1, <3>2
  <2>4. exec'[r].pc # "wait"
    <3>1. ASSUME NEW pc, pc # "wait", Goto(r, pc)
          PROVE  exec'[r].pc # "wait"
      BY <1>0, <3>1 DEF Goto, Exec
    <3>2. ASSUME \/ exec' = [exec EXCEPT ![r].pc = "work", ![r].item = NoItem]
                 \/ exec' = [exec EXCEPT ![r].pc = "work", ![r].item = NoItem, ![r].att = NoAttempt]
          PROVE  exec'[r].pc # "wait"
      BY <1>0, <3>2, GiveUp DEF Moves
    <3>3. ASSUME NEW a, exec' = [exec EXCEPT ![r].pc = "approved", ![r].att = a]
          PROVE  exec'[r].pc # "wait"
      BY <1>0, <3>3 DEF Exec
    <3>4. ASSUME NeedsConfirmation(r)
          PROVE  exec'[r].pc # "wait"
      BY <1>0, <3>4 DEF NeedsConfirmation, ToolFinish, Exec
    <3> QED BY <1>5, <3>1, <3>2, <3>3, <3>4
      DEF ReviewStep, SubmitReview, RegisterWaiter, WakeReview, RetryApproved, ConsumePermission
  <2> QED BY <1>1, <1>3, <2>1, <2>2, <2>3, <2>4, PauseKeep
<1> QED BY <1>4, <1>5

\* A command decides the one undecided Review of its Run, or interrupts the Run with
\* it; either way the pause ends with the Review.
LEMMA PauseCommand ==
    ASSUME ToolInv, PauseInv, NEW c \in Caller, OpenCommand(c) \/ CommandStep(c)
    PROVE  PauseInv'
<1>0. StoreInv /\ RowsPause /\ CommandHolds(c) /\ ProposalInv
  BY DEF ToolInv, ExecInv, ProtocolInv, PauseInv
<1>1. [StoreNext]_storeVars /\ UNCHANGED <<exec, turn, boot>>
  BY CommandStore DEF workVars
<1>2. UNCHANGED asking
  BY DEF OpenCommand, CommandStep, OpenAccept, OpenReject, RequireActive, ClaimDispatch,
      ApplyProposal, RecordEffect, ProjectStatus, ReadWaiter, MarkAccepted, ResolveAccepted,
      InterruptUnwoken, RejectProposal, MarkRejected, ResolveRejected, OnlyCommand
<1>3. ASSUME RowsPause', NoNewPause, NoNewWait
      PROVE  PauseInv'
  <2>1. ASSUME NEW r \in Run
        PROVE  PausedAt(r)' /\ WaitsForAsked(r)'
    <3>1. PausedAt(r) /\ WaitsForAsked(r)
      BY DEF PauseInv
    <3> QED BY <1>1, <1>2, <1>3, <3>1 DEF PausedAt, Outside, WaitsForAsked, NoNewPause, NoNewWait
  <2> QED BY <1>3, <2>1 DEF PauseInv
<1>4. ASSUME UNCHANGED storeVars
      PROVE  PauseInv'
  <2>1. Grows
    BY <1>0, <1>1, StoreGrows
  <2> QED BY <1>0, <1>3, <1>4, <2>1, RowsPauseFrame DEF storeVars
<1>5. ASSUME MarkAccepted(c)
      PROVE  PauseInv'
  <2> DEFINE p == command[c].p
  <2>1. p \in Review
    BY <1>0, <1>5 DEF MarkAccepted, CommandHolds
  <2>2. CASE MarkToolReviewAccepted(p, command[c].live, FALSE)
    <3>1. reviewStatus[p] = "waiting"
      BY <2>2 DEF MarkToolReviewAccepted, DecideToolReview
    <3>2. itemRun[p] \in Run
      BY <1>0, <2>1, <3>1, ReviewHasRun
    <3>3. WaitingReviews(itemRun[p]) = {p}
      BY <1>0, <2>1, <3>1, <3>2, WaitingReviewsDef DEF RowsPause, OneWaits
    <3>4. \E next \in {"running", "interrupted"} : DecideToolReview(p, "accepted", next)
      BY <2>2, <3>3 DEF MarkToolReviewAccepted
    <3> QED BY <1>0, <1>3, <2>1, <3>4, RowsPauseDecide
  <2> QED BY <1>4, <1>5, <2>2 DEF MarkAccepted
<1>6. ASSUME MarkRejected(c)
      PROVE  PauseInv'
  <2>1. command[c].p \in Review
    BY <1>0, <1>6 DEF MarkRejected, CommandHolds
  <2>2. CASE MarkToolReviewRejected(command[c].p)
    BY <1>0, <1>3, <2>1, <2>2, RowsPauseDecide DEF MarkToolReviewRejected
  <2> QED BY <1>4, <1>6, <2>2 DEF MarkRejected
<1>7. ASSUME InterruptUnwoken(c)
      PROVE  PauseInv'
  <2>1. asker[command[c].p] \in Run /\ "interrupted" \in GeneralTerminal
    BY <1>0, <1>7, StatusFacts DEF InterruptUnwoken, CommandHolds, ProposalInv
  <2>2. CASE TerminalizeGeneralRun(asker[command[c].p], "interrupted")
    BY <1>0, <1>3, <2>1, <2>2, RowsPauseEnd
  <2> QED BY <1>4, <1>7, <2>2 DEF InterruptUnwoken
<1> QED
  BY <1>4, <1>5, <1>6, <1>7
  DEF OpenCommand, CommandStep, OpenAccept, OpenReject, RequireActive, ClaimDispatch, ApplyProposal,
      RecordEffect, ProjectStatus, ReadWaiter, ResolveAccepted, RejectProposal, ResolveRejected,
      OnlyCommand, allVars

\* Requests and Stops keep the pauses: a fresh invocation has no Run yet, one that is
\* called again comes from outside, and a Stop cancels the Review with the Run.
LEMMA PauseRequest ==
    ASSUME ToolInv, PauseInv, UserStep \/ Replay \/ \E r \in Run : StopStep(r),
           UNCHANGED reviewProtocolVars
    PROVE  PauseInv'
<1>0. /\ ExecInv /\ StoreInv /\ RowsPause /\ exec \in [Run -> Exec] /\ UNCHANGED asking
      /\ turn \in [Run -> TurnStatus \union {"none"}]
  BY DEF ToolInv, ExecInv, PauseInv, WorkTypeOK, reviewProtocolVars
<1>1. ASSUME UNCHANGED storeVars
      PROVE  RowsPause' /\ NoNewPause /\ NoNewWait
  <2>1. Grows
    BY <1>0, <1>1, StoreGrows
  <2> QED BY <1>0, <1>1, <2>1, RowsPauseFrame DEF storeVars
<1>2. ASSUME NEW r \in Run, RequestStop(r) \/ StopStep(r)
      PROVE  PauseInv'
  <2>1. UNCHANGED <<exec, boot>> /\ \A q \in Run : turn'[q] = turn[q] \/ turn'[q] # "running"
    BY <1>0, <1>2 DEF RequestStop, StopStep, RequestCancel, StopTurn, StopRun
  <2>2. "cancelled" \in GeneralTerminal
    BY DEF GeneralTerminal
  <2>3. RowsPause' /\ NoNewPause /\ NoNewWait
    BY <1>0, <1>1, <1>2, <2>2, RowsPauseEnd DEF RequestStop, StopStep, RequestCancel, StopTurn, StopRun
  <2>4. PausedAt(r)
    BY DEF PauseInv
  <2>5. runStatus'[r] = "waiting_review" => Outside(r)'
    BY <2>1, <2>3, <2>4 DEF NoNewPause, PausedAt, Outside
  <2> QED BY <1>0, <2>1, <2>3, <2>5, PauseKeep
<1>3. ASSUME NEW r \in Run, NEW t, Call(r, t), UNCHANGED <<storeVars, turn, boot>>,
             exec[r].pc \in {"idle", "exit"}
      PROVE  PauseInv'
  <2>1. RowsPause' /\ NoNewPause /\ NoNewWait
    BY <1>1, <1>3
  <2>2. exec' = [exec EXCEPT ![r] = [NotStarted EXCEPT !.pc = "called", !.task = t]]
    BY <1>3 DEF Call
  <2>3. exec'[r].pc = "called" /\ \A q \in Run \ {r} : exec'[q] = exec[q]
    BY <1>0, <2>2 DEF NotStarted
  <2>4. ASSUME runStatus'[r] = "waiting_review"
        PROVE  Outside(r)'
    <3>1. runStatus[r] = "waiting_review" /\ PausedAt(r)
      BY <2>1, <2>4 DEF NoNewPause, PauseInv
    <3> QED BY <1>3, <2>3, <3>1 DEF PausedAt, Outside
  <2> QED BY <1>0, <1>3, <2>1, <2>3, <2>4, PauseKeep
<1> QED
  BY <1>2, <1>3 DEF UserStep, Replay, ReinvokeRun, StartWork, RestartWork, At

\* A crash leaves a paused Run to nobody, and startup interrupts its Turn and leaves
\* the Run paused with its Review.
LEMMA PauseCrash ==
    ASSUME ToolInv, PauseInv, ReviewCrash \/ ((BootTurns \/ BootRuns) /\ UNCHANGED asking)
    PROVE  PauseInv'
<1>0. ExecInv /\ WorkTypeOK /\ StoreInv /\ RowsPause
  BY DEF ToolInv, ExecInv, PauseInv
<1>1. [StoreNext]_storeVars
  BY DEF ReviewCrash, Crash, BootTurns, BootRuns, StoreNext
<1>2. Grows
  BY <1>0, <1>1, StoreGrows
<1>3. RowsPause' /\ NoNewPause /\ NoNewWait
  <2>1. CASE UNCHANGED storeVars
    BY <1>0, <1>2, <2>1, RowsPauseFrame DEF storeVars
  <2>2. CASE RecoverInterruptedGeneralRuns
    BY <1>0, <1>2, <2>2, RowsPauseRuns
  <2> QED BY <2>1, <2>2 DEF ReviewCrash, Crash, BootTurns, BootRuns
<1>4. ASSUME NEW r \in Run
      PROVE  PausedAt(r) /\ WaitsForAsked(r) /\ HoldsTurn(r)
  BY DEF PauseInv, ToolInv, ExecInv
<1>5. CASE ReviewCrash
  <2>1. Crash /\ boot' = "turns"
    BY <1>5 DEF ReviewCrash, Crash
  <2>2. \A r \in Run : exec'[r].pc = IF exec[r].pc = "idle" THEN "idle" ELSE "exit"
    BY <1>0, <2>1, CrashFacts
  <2>3. ASSUME NEW r \in Run
        PROVE  PausedAt(r)' /\ WaitsForAsked(r)'
    <3>1. exec[r].pc = "idle" => runStatus[r] # "waiting_review"
      BY <1>4 DEF PausedAt, Outside
    <3> QED BY <1>3, <2>1, <2>2, <3>1 DEF PausedAt, Outside, WaitsForAsked, NoNewPause
  <2> QED BY <1>3, <2>3 DEF PauseInv
<1>6. CASE (BootTurns \/ BootRuns) /\ UNCHANGED asking
  <2>1. UNCHANGED exec /\ boot # "up" /\ (boot = "turns" => BootTurns)
    BY <1>6 DEF BootTurns, BootRuns
  <2>2. ASSUME NEW r \in Run
        PROVE  turn'[r] # "running" \/ (turn'[r] = turn[r] /\ boot # "turns")
    BY <1>6 DEF BootTurns, BootRuns
  <2>3. UNCHANGED asking
    BY <1>6
  <2>4. ASSUME NEW r \in Run
        PROVE  PausedAt(r)' /\ WaitsForAsked(r)'
    BY <1>3, <1>4, <2>1, <2>2, <2>3 DEF PausedAt, Outside, WaitsForAsked, NoNewPause, NoNewWait
  <2> QED BY <1>3, <2>4 DEF PauseInv
<1> QED BY <1>5, <1>6

\* Before the first Run nothing is paused.
LEMMA PauseInvInit == ToolReviewInit => PauseInv
<1> SUFFICES ASSUME ToolReviewInit
             PROVE  PauseInv
  OBVIOUS
<1>1. /\ \A r \in Run : runStatus[r] = "none" /\ exec[r].pc = "idle"
      /\ \A p \in Review : reviewStatus[p] = "none"
      /\ \A t \in Task : taskStatus[t] = "none"
  BY DEF ToolReviewInit, WorkInit, StoreInit, NotStarted
<1>2. \A r \in Run : PausedAt(r) /\ WaitsForAsked(r)
  BY <1>1 DEF PausedAt, WaitsForAsked
<1>3. WaitsPause /\ OneWaits /\ LiveTaskHasLiveRun
  BY <1>1 DEF WaitsPause, OneWaits, LiveTaskHasLiveRun
<1> QED BY <1>2, <1>3 DEF PauseInv, RowsPause

\* Every step of the composition keeps the pauses.
LEMMA PauseInvStep == ToolInv /\ PauseInv /\ [ToolReviewNext]_toolVars => PauseInv'
<1> SUFFICES ASSUME ToolInv, PauseInv, [ToolReviewNext]_toolVars
             PROVE  PauseInv'
  OBVIOUS
<1>1. CASE (UserStep \/ Replay \/ \E r \in Run : StopStep(r)) /\ UNCHANGED reviewProtocolVars
  BY <1>1, PauseRequest
<1>2. ASSUME NEW r \in Run, ToolExecStep(r)
      PROVE  PauseInv'
  BY <1>2, PauseExecStep, PauseReviewStep DEF ToolExecStep, reviewProtocolVars
<1>3. ASSUME NEW c \in Caller, OpenCommand(c) \/ CommandStep(c)
      PROVE  PauseInv'
  BY <1>3, PauseCommand
<1>4. CASE ReviewCrash \/ ToolBootStep
  <2>1. ReviewCrash \/ ((BootTurns \/ BootRuns) /\ UNCHANGED asking)
    BY <1>4 DEF ToolBootStep, ReconcileProposals, reviewProtocolVars
  <2> QED BY <2>1, PauseCrash
<1>5. CASE UNCHANGED toolVars
  <2>1. UNCHANGED <<exec, asking, turn, boot, taskStatus, runStatus, runTask, reviewStatus, itemRun>>
    BY <1>5 DEF toolVars, allVars, workVars, storeVars, reviewProtocolVars
  <2>2. RowsPause'
    BY <2>1 DEF PauseInv, RowsPause, WaitsPause, OneWaits, LiveTaskHasLiveRun, RunsOf
  <2>3. \A r \in Run : PausedAt(r)' /\ WaitsForAsked(r)'
    BY <2>1 DEF PauseInv, PausedAt, Outside, WaitsForAsked
  <2> QED BY <2>2, <2>3 DEF PauseInv
<1> QED BY <1>1, <1>2, <1>3, <1>4, <1>5 DEF ToolReviewNext

\* A paused Run is one whose executor waits for the decision, leaves after a Stop, or
\* went with a crash; and it has one undecided Review.
THEOREM PauseInvariant == ToolReviewSpec => []PauseInv
BY ToolInvariant, PauseInvInit, PauseInvStep, PTL DEF ToolReviewSpec

\* With Reviews, decisions that come late or twice, Stops and crashes, the Task of a
\* paused Run waits with it, and a running Task has a Run that can still end it.
THEOREM ToolLiveTaskCorrect == ToolReviewSpec => []LiveTaskHasLiveRun
BY PauseInvariant, PTL DEF PauseInv, RowsPause

-----------------------------------------------------------------------------
(* What ended stays ended. *)

\* No step of the composition, a decision that comes late included, moves a Run or an
\* Attempt that ended.
LEMMA ToolKeepsEnded ==
    ASSUME ToolInv, [ToolReviewNext]_toolVars
    PROVE  KeepEndedRuns /\ KeepEndedAttempts
<1>0. ExecInv
  BY DEF ToolInv
<1>1. CASE [StoreNext]_storeVars
  BY <1>0, <1>1, RunTerminalStep, AttemptTerminalStep DEF ExecInv
<1>2. CASE \E r \in Run, i \in Item \ Review, a \in Attempt : BeginToolAttempt(r, i, a)
  BY <1>0, <1>2, BeginToolKeepsEnded DEF ExecInv
<1> QED BY <1>1, <1>2, ToolStoreStep

\* With Reviews too, a Run that ended stays as it ended, whoever decides its Review
\* afterwards.
THEOREM ToolRunTerminal == ToolReviewSpec => RunTerminalStable
BY ToolInvariant, ToolKeepsEnded, PTL DEF ToolReviewSpec, RunTerminalStable

\* With Reviews too, an Attempt that ended stays the fact it was.
THEOREM ToolAttemptTerminal == ToolReviewSpec => AttemptTerminalStable
BY ToolInvariant, ToolKeepsEnded, PTL DEF ToolReviewSpec, AttemptTerminalStable
=============================================================================
