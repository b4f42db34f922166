------------------------- MODULE TaskRuntimeProofs -------------------------
(***************************************************************************)
(* Machine-checked proofs about the general and tool Review operations of  *)
(* the task store, for every set of Tasks, Runs, Items, Attempts and       *)
(* Reviews.                                                                *)
(***************************************************************************)
EXTENDS TaskRuntime, TLAPS

USE ReviewAssumption, NullAssumption

\* How the sets of statuses lie in one another: what an operation writes is a
\* status of its column, no live status is terminal, and no row has status none.
LEMMA StatusFacts ==
    /\ Live \subseteq CanonicalTaskStatus
    /\ Terminal \subseteq CanonicalTaskStatus /\ Terminal \subseteq CanonicalTaskItemStatus
    /\ GeneralTerminal \subseteq Terminal
    /\ Live \intersect Terminal = {}
    /\ "none" \notin CanonicalTaskStatus /\ "running" \in Live /\ "waiting_review" \in Live
    /\ "waiting" \in CanonicalTaskItemStatus /\ "running" \in CanonicalTaskItemStatus
    /\ "completed" \in Terminal /\ "interrupted" \in GeneralTerminal /\ "blocked" \in GeneralTerminal
BY DEF Live, GeneralTerminal, Terminal, CanonicalTaskStatus, CanonicalTaskItemStatus

\* The empty store is well typed.
LEMMA TypeInit == StoreInit => StoreTypeOK
BY StatusFacts DEF StoreInit, StoreTypeOK

\* Every operation keeps every column within its type.
LEMMA TypeStep == StoreTypeOK /\ [StoreNext]_storeVars => StoreTypeOK'
<1> SUFFICES ASSUME StoreTypeOK, [StoreNext]_storeVars
             PROVE  StoreTypeOK'
  OBVIOUS
<1> USE StatusFacts
<1>1. ASSUME NEW t \in Task, NEW r \in Run, BeginGeneralTaskRun(t, r)
      PROVE  StoreTypeOK'
  <2>1. PICK n \in {0} \union {runOrdinal[q] : q \in RunsOf(t)} :
              runOrdinal' = [runOrdinal EXCEPT ![r] = n + 1]
    BY <1>1 DEF BeginGeneralTaskRun
  <2>2. n \in Nat
    BY <2>1 DEF StoreTypeOK, RunsOf
  <2>3. runOrdinal' \in [Run -> Nat]
    BY <2>1, <2>2 DEF StoreTypeOK
  <2>4. deferred' \in [Task -> Run \union {NoRun}]
    BY <1>1 DEF BeginGeneralTaskRun, StoreTypeOK
  <2> QED
    BY <1>1, <2>3, <2>4
    DEF BeginGeneralTaskRun, StoreTypeOK, itemVars, attVars, reviewVars
<1>2. ASSUME NEW r \in Run, NEW st \in GeneralTerminal, TerminalizeGeneralRun(r, st)
      PROVE  StoreTypeOK'
  BY <1>2 DEF TerminalizeGeneralRun, CloseWorkOf, StoreTypeOK, resultVars, ReviewStatus
<1>3. ASSUME RecoverInterruptedGeneralRuns
      PROVE  StoreTypeOK'
  BY <1>3 DEF RecoverInterruptedGeneralRuns, CloseWorkOf, StoreTypeOK, resultVars, reviewVars
<1>4. ASSUME NEW r \in Run, CompleteGeneralTask(r)
      PROVE  StoreTypeOK'
  BY <1>4 DEF CompleteGeneralTask, StoreTypeOK, itemVars, attVars, reviewVars
<1>5. ASSUME NEW r \in Run, DeferGeneralTaskResult(r)
      PROVE  StoreTypeOK'
  BY <1>5 DEF DeferGeneralTaskResult, StoreTypeOK,
              taskVars, runVars, itemVars, attVars, reviewVars
<1>6. ASSUME NEW r \in Run, NEW i \in Item \ Review, NEW kind \in CanonicalTaskItemKind,
             AppendGeneralItem(r, i, kind)
      PROVE  StoreTypeOK'
  BY <1>6 DEF AppendGeneralItem, StoreTypeOK, CanonicalTaskItemKind,
              taskVars, runVars, attVars, resultVars, reviewVars
<1>7. ASSUME NEW i \in Item, CompleteAppendedItem(i)
      PROVE  StoreTypeOK'
  BY <1>7 DEF CompleteAppendedItem, StoreTypeOK,
              taskVars, runVars, attVars, resultVars, reviewVars
<1>8. ASSUME NEW i \in Item \ Review, NEW a \in Attempt, BeginItemAttempt(i, a)
      PROVE  StoreTypeOK'
  BY <1>8 DEF BeginItemAttempt, StoreTypeOK, taskVars, runVars, resultVars, reviewVars
<1>9. ASSUME NEW a \in Attempt, NEW st \in Terminal, TerminalizeItemAttempt(a, st)
      PROVE  StoreTypeOK'
  BY <1>9 DEF TerminalizeItemAttempt, StoreTypeOK, taskVars, runVars, resultVars, reviewVars
<1>10. ASSUME NEW r \in Run, NEW i \in Item \ Review, NEW p \in Review, BindToolReview(r, i, p)
       PROVE  StoreTypeOK'
  BY <1>10 DEF BindToolReview, StoreTypeOK, CanonicalTaskItemKind, ReviewStatus,
               attVars, resultVars
<1>11. ASSUME NEW p \in Review, NEW decision \in {"accepted", "rejected"},
              NEW next \in CanonicalTaskStatus, DecideToolReview(p, decision, next)
       PROVE  StoreTypeOK'
  BY <1>11 DEF DecideToolReview, StoreTypeOK, ReviewStatus, attVars, resultVars
<1>12. ASSUME NEW p \in Review, NEW live \in BOOLEAN, MarkToolReviewAccepted(p, live, FALSE)
       PROVE  StoreTypeOK'
  <2>1. PICK next \in CanonicalTaskStatus : DecideToolReview(p, "accepted", next)
    BY <1>12 DEF MarkToolReviewAccepted
  <2> QED BY <2>1, <1>11
<1>13. ASSUME NEW p \in Review, MarkToolReviewRejected(p)
       PROVE  StoreTypeOK'
  BY <1>13, <1>11 DEF MarkToolReviewRejected
<1>14. CASE UNCHANGED storeVars
  BY <1>14 DEF storeVars, StoreTypeOK
<1> QED
  BY <1>1, <1>2, <1>3, <1>4, <1>5, <1>6, <1>7, <1>8, <1>9, <1>10, <1>12, <1>13, <1>14
  DEF StoreNext

\* Every reachable state of the store is well typed, whatever its callers do.
THEOREM StoreTypeCorrect == StoreSpec => []StoreTypeOK
BY TypeInit, TypeStep, PTL DEF StoreSpec

-----------------------------------------------------------------------------
(* The inductive invariant. *)

\* The empty store satisfies the inductive invariant.
LEMMA InvInit == StoreInit => StoreInv
BY TypeInit DEF StoreInit, StoreInv, RowsConsistent, AttemptRowsConsistent,
   PauseMatchesReviews, FinalResultIffCompleted, WaitingReviews, ReviewsOf

\* The undecided Reviews of a Run, without the definitions on the way.
LEMMA WaitingReviewsDef ==
    ASSUME NEW r \in Run
    PROVE  WaitingReviews(r) = {p \in Review : itemRun[p] = r /\ reviewStatus[p] = "waiting"}
BY DEF WaitingReviews, ReviewsOf

\* Only binding or deciding a Review, and cancelling a Run, changes the set of
\* undecided Reviews; every other operation leaves it as it was.
LEMMA WaitingReviewsFrame ==
    ASSUME NEW r \in Run, StoreTypeOK, reviewStatus' = reviewStatus,
           \A p \in Review : itemRun'[p] = itemRun[p]
    PROVE  WaitingReviews(r)' = WaitingReviews(r)
BY DEF WaitingReviews, ReviewsOf

\* An Attempt gets its Item and its first status together.
LEMMA AttemptRowsStep ==
    StoreTypeOK /\ AttemptRowsConsistent /\ [StoreNext]_storeVars => AttemptRowsConsistent'
<1> SUFFICES ASSUME StoreTypeOK, AttemptRowsConsistent, [StoreNext]_storeVars
             PROVE  AttemptRowsConsistent'
  OBVIOUS
<1>0. /\ attStatus \in [Attempt -> CanonicalTaskItemStatus \union {"none"}]
      /\ attItem \in [Attempt -> Item \union {NoItem}]
  BY DEF StoreTypeOK
<1>1. ASSUME NEW R, NEW st \in GeneralTerminal, CloseWorkOf(R, st)
      PROVE  AttemptRowsConsistent'
  BY <1>0, <1>1 DEF CloseWorkOf, AttemptRowsConsistent, GeneralTerminal
<1>2. ASSUME NEW i \in Item \ Review, NEW a \in Attempt, BeginItemAttempt(i, a)
      PROVE  AttemptRowsConsistent'
  BY <1>0, <1>2 DEF BeginItemAttempt, AttemptRowsConsistent
<1>3. ASSUME NEW a \in Attempt, NEW st \in Terminal, TerminalizeItemAttempt(a, st)
      PROVE  AttemptRowsConsistent'
  BY <1>0, <1>3 DEF TerminalizeItemAttempt, AttemptRowsConsistent, Terminal, GeneralTerminal
<1>4. ASSUME UNCHANGED attVars
      PROVE  AttemptRowsConsistent'
  BY <1>4 DEF attVars, AttemptRowsConsistent
<1>5. ASSUME NEW p \in Review, NEW live \in BOOLEAN, MarkToolReviewAccepted(p, live, FALSE)
      PROVE  UNCHANGED attVars
  BY <1>5 DEF MarkToolReviewAccepted, DecideToolReview
<1>6. CASE UNCHANGED storeVars
  BY <1>4, <1>6 DEF storeVars, attVars
<1>7. "interrupted" \in GeneralTerminal
  BY DEF GeneralTerminal
<1> QED
  BY <1>1, <1>2, <1>3, <1>4, <1>5, <1>6, <1>7
  DEF StoreNext, BeginGeneralTaskRun, TerminalizeGeneralRun, RecoverInterruptedGeneralRuns,
      CompleteGeneralTask, DeferGeneralTaskResult, AppendGeneralItem, CompleteAppendedItem,
      BindToolReview, MarkToolReviewRejected, DecideToolReview

\* Every operation preserves the inductive invariant.
LEMMA InvStep == StoreInv /\ [StoreNext]_storeVars => StoreInv'
<1> SUFFICES ASSUME StoreInv, [StoreNext]_storeVars
             PROVE  StoreInv'
  OBVIOUS
<1> USE DEF StoreInv
<1>0. StoreTypeOK' /\ AttemptRowsConsistent'
  BY TypeStep, AttemptRowsStep
<1> SUFFICES RowsConsistent' /\ PauseMatchesReviews' /\ FinalResultIffCompleted'
  BY <1>0
<1>1. ASSUME NEW t \in Task, NEW r \in Run, BeginGeneralTaskRun(t, r)
      PROVE  RowsConsistent' /\ PauseMatchesReviews' /\ FinalResultIffCompleted'
  <2>1. runTask[r] = NoTask /\ runStatus[r] = "none" /\ t # NoTask
    BY <1>1 DEF BeginGeneralTaskRun, RowsConsistent
  <2>2. /\ runTask' = [runTask EXCEPT ![r] = t]
        /\ runStatus' = [runStatus EXCEPT ![r] = "running"]
        /\ UNCHANGED <<itemRun, reviewStatus, finalResult>>
    BY <1>1 DEF BeginGeneralTaskRun, itemVars, reviewVars
  <2>3. RowsConsistent'
    BY <2>1, <2>2, <1>0 DEF RowsConsistent, StoreTypeOK
  <2>4. WaitingReviews(r) = {}
    BY <2>1, WaitingReviewsDef DEF RowsConsistent
  <2>5. \A q \in Run : WaitingReviews(q)' = WaitingReviews(q)
    BY <2>2, WaitingReviewsFrame
  <2>6. PauseMatchesReviews'
    BY <2>2, <2>4, <2>5 DEF PauseMatchesReviews, StoreTypeOK
  <2>7. FinalResultIffCompleted'
    BY <2>1, <2>2 DEF FinalResultIffCompleted, StoreTypeOK
  <2> QED BY <2>3, <2>6, <2>7
<1>2. ASSUME NEW r \in Run, NEW st \in GeneralTerminal, TerminalizeGeneralRun(r, st)
      PROVE  RowsConsistent' /\ PauseMatchesReviews' /\ FinalResultIffCompleted'
  <2>1. /\ runTask[r] # NoTask
        /\ runStatus[r] \in Live \union {st}
        /\ runStatus' = [runStatus EXCEPT ![r] = st]
        /\ UNCHANGED <<runTask, itemRun, finalResult>>
        /\ \A p \in Review : reviewStatus'[p] # reviewStatus[p] =>
              reviewStatus[p] = "waiting" /\ reviewStatus'[p] = "cancelled" /\ itemRun[p] = r
    BY <1>2 DEF TerminalizeGeneralRun, CloseWorkOf, resultVars, WaitingReviews, ReviewsOf
  <2>2. st \notin {"none", "running", "waiting_review", "completed"}
    BY DEF GeneralTerminal
  <2>3. RowsConsistent'
    BY <2>1, <2>2 DEF RowsConsistent, StoreTypeOK
  <2>4. \A q \in Run \ {r} : WaitingReviews(q)' = WaitingReviews(q)
    BY <2>1 DEF WaitingReviews, ReviewsOf
  <2>5. PauseMatchesReviews'
    BY <2>1, <2>2, <2>4 DEF PauseMatchesReviews, StoreTypeOK
  <2>6. FinalResultIffCompleted'
    BY <2>1, <2>2 DEF FinalResultIffCompleted, StoreTypeOK, Live
  <2> QED BY <2>3, <2>5, <2>6
<1>3. ASSUME RecoverInterruptedGeneralRuns
      PROVE  RowsConsistent' /\ PauseMatchesReviews' /\ FinalResultIffCompleted'
  <2>1. /\ runStatus' = [r \in Run |-> IF runStatus[r] = "running"
                                       THEN "interrupted" ELSE runStatus[r]]
        /\ UNCHANGED <<runTask, itemRun, finalResult, reviewStatus>>
    BY <1>3 DEF RecoverInterruptedGeneralRuns, CloseWorkOf, resultVars, reviewVars
  <2>2. \A q \in Run : WaitingReviews(q)' = WaitingReviews(q)
    BY <2>1, WaitingReviewsFrame
  <2>3. RowsConsistent'
    BY <2>1 DEF RowsConsistent, StoreTypeOK
  <2>4. PauseMatchesReviews'
    BY <2>1, <2>2 DEF PauseMatchesReviews, StoreTypeOK
  <2>5. FinalResultIffCompleted'
    BY <2>1 DEF FinalResultIffCompleted, StoreTypeOK
  <2> QED BY <2>3, <2>4, <2>5
<1>4. ASSUME NEW r \in Run, CompleteGeneralTask(r)
      PROVE  RowsConsistent' /\ PauseMatchesReviews' /\ FinalResultIffCompleted'
  <2>1. /\ runStatus[r] = "running"
        /\ runStatus' = [runStatus EXCEPT ![r] = "completed"]
        /\ finalResult' = finalResult \union {r}
        /\ UNCHANGED <<runTask, itemRun, reviewStatus>>
    BY <1>4 DEF CompleteGeneralTask, itemVars, reviewVars
  <2>2. \A q \in Run : WaitingReviews(q)' = WaitingReviews(q)
    BY <2>1, WaitingReviewsFrame
  <2>3. RowsConsistent'
    BY <2>1 DEF RowsConsistent, StoreTypeOK
  <2>4. PauseMatchesReviews'
    BY <2>1, <2>2 DEF PauseMatchesReviews, StoreTypeOK
  <2>5. FinalResultIffCompleted'
    BY <2>1 DEF FinalResultIffCompleted, StoreTypeOK
  <2> QED BY <2>3, <2>4, <2>5
<1>5. ASSUME UNCHANGED <<runTask, runStatus, itemRun, finalResult, reviewStatus>>
      PROVE  RowsConsistent' /\ PauseMatchesReviews' /\ FinalResultIffCompleted'
  <2>1. \A q \in Run : WaitingReviews(q)' = WaitingReviews(q)
    BY <1>5, WaitingReviewsFrame
  <2> QED
    BY <1>5, <2>1 DEF RowsConsistent, PauseMatchesReviews, FinalResultIffCompleted
<1>6. ASSUME NEW r \in Run, NEW i \in Item \ Review, NEW kind \in CanonicalTaskItemKind,
             AppendGeneralItem(r, i, kind)
      PROVE  RowsConsistent' /\ PauseMatchesReviews' /\ FinalResultIffCompleted'
  <2>1. /\ runStatus[r] = "running"
        /\ itemRun' = [itemRun EXCEPT ![i] = r]
        /\ UNCHANGED <<runTask, runStatus, finalResult, reviewStatus>>
    BY <1>6 DEF AppendGeneralItem, runVars, resultVars, reviewVars
  <2>2. \A q \in Run : WaitingReviews(q)' = WaitingReviews(q)
    BY <2>1, WaitingReviewsFrame DEF StoreTypeOK
  <2>3. RowsConsistent'
    BY <2>1 DEF RowsConsistent, StoreTypeOK
  <2> QED
    BY <2>1, <2>2, <2>3 DEF PauseMatchesReviews, FinalResultIffCompleted
<1>7. ASSUME NEW r \in Run, NEW i \in Item \ Review, NEW p \in Review, BindToolReview(r, i, p)
      PROVE  RowsConsistent' /\ PauseMatchesReviews' /\ FinalResultIffCompleted'
  <2>1. /\ runStatus[r] \in Live
        /\ runStatus' = [runStatus EXCEPT ![r] = "waiting_review"]
        /\ itemRun' = [itemRun EXCEPT ![p] = r]
        /\ reviewStatus' = [reviewStatus EXCEPT ![p] = "waiting"]
        /\ UNCHANGED <<runTask, finalResult>>
        /\ itemRun[p] = NoRun \/ reviewStatus[p] = "waiting"
    BY <1>7 DEF BindToolReview, resultVars
  <2>2. p \in WaitingReviews(r)'
    BY <2>1 DEF WaitingReviews, ReviewsOf, StoreTypeOK
  <2>3. \A q \in Run \ {r} : WaitingReviews(q)' \subseteq WaitingReviews(q)
    BY <2>1 DEF WaitingReviews, ReviewsOf, StoreTypeOK
  <2>4. RowsConsistent'
    BY <2>1 DEF RowsConsistent, StoreTypeOK, Live
  <2>5. \A q \in Run \ {r} : runStatus[q] = "waiting_review" => WaitingReviews(q)' # {}
    <3> SUFFICES ASSUME NEW q \in Run \ {r}, runStatus[q] = "waiting_review"
                 PROVE  WaitingReviews(q)' # {}
      OBVIOUS
    <3>1. PICK w \in WaitingReviews(q) : TRUE
      BY DEF PauseMatchesReviews
    <3>2. w # p
      BY <3>1, <1>7 DEF BindToolReview, WaitingReviews, ReviewsOf, RowsConsistent
    <3> QED
      BY <3>1, <3>2, <2>1 DEF WaitingReviews, ReviewsOf, StoreTypeOK
  <2>6. PauseMatchesReviews'
    BY <2>1, <2>2, <2>3, <2>5 DEF PauseMatchesReviews, StoreTypeOK
  <2>7. FinalResultIffCompleted'
    BY <2>1 DEF FinalResultIffCompleted, StoreTypeOK, Live
  <2> QED BY <2>4, <2>6, <2>7
<1>8. ASSUME NEW p \in Review, NEW d \in {"accepted", "rejected"},
             NEW next \in {"interrupted", "blocked", "running", "waiting_review"},
             DecideToolReview(p, d, next),
             next = "running" => WaitingReviews(itemRun[p]) = {p},
             next = "waiting_review" => WaitingReviews(itemRun[p]) # {p}
      PROVE  RowsConsistent' /\ PauseMatchesReviews' /\ FinalResultIffCompleted'
  <2>0. PICK r \in Run : r = itemRun[p]
    BY <1>8 DEF DecideToolReview, RowsConsistent, StoreTypeOK
  <2>1. /\ reviewStatus[p] = "waiting"
        /\ reviewStatus' = [reviewStatus EXCEPT ![p] = d]
        /\ runStatus' = [runStatus EXCEPT ![r] = IF @ = "waiting_review" THEN next ELSE @]
        /\ UNCHANGED <<runTask, itemRun, finalResult>>
    BY <1>8, <2>0 DEF DecideToolReview, resultVars
  <2>2. next = "running" => WaitingReviews(r) = {p}
    BY <1>8, <2>0
  <2>21. next = "waiting_review" => WaitingReviews(r) # {p}
    BY <1>8, <2>0
  <2>3. p \in WaitingReviews(r)
    BY <2>0, <2>1 DEF WaitingReviews, ReviewsOf
  <2>4. WaitingReviews(r)' = WaitingReviews(r) \ {p}
    BY <2>0, <2>1 DEF WaitingReviews, ReviewsOf, StoreTypeOK
  <2>5. \A q \in Run \ {r} : WaitingReviews(q)' = WaitingReviews(q)
    BY <2>0, <2>1 DEF WaitingReviews, ReviewsOf, StoreTypeOK
  <2>6. RowsConsistent'
    BY <2>0, <2>1 DEF RowsConsistent, StoreTypeOK
  <2>7. PauseMatchesReviews'
    <3>1. ASSUME NEW q \in Run \ {r}
          PROVE  runStatus'[q] = runStatus[q] /\ WaitingReviews(q)' = WaitingReviews(q)
      BY <2>1, <2>5 DEF StoreTypeOK
    <3>2. runStatus'[r] = IF runStatus[r] = "waiting_review" THEN next ELSE runStatus[r]
      BY <2>1 DEF StoreTypeOK
    <3>3. runStatus[r] \notin {"running", "completed"}
      BY <2>3 DEF PauseMatchesReviews
    <3>4. /\ runStatus'[r] = "waiting_review" => WaitingReviews(r)' # {}
          /\ runStatus'[r] \in {"running", "completed"} => WaitingReviews(r)' = {}
      BY <2>2, <2>21, <2>3, <2>4, <3>2, <3>3
    <3> QED BY <3>1, <3>4 DEF PauseMatchesReviews
  <2>8. FinalResultIffCompleted'
    BY <2>1 DEF FinalResultIffCompleted, StoreTypeOK
  <2> QED BY <2>6, <2>7, <2>8
<1>9. ASSUME NEW p \in Review, NEW live \in BOOLEAN, MarkToolReviewAccepted(p, live, FALSE)
      PROVE  RowsConsistent' /\ PauseMatchesReviews' /\ FinalResultIffCompleted'
  <2>1. CASE DecideToolReview(p, "accepted", "interrupted")
    BY <2>1, <1>8
  <2>2. CASE /\ WaitingReviews(itemRun[p]) = {p}
             /\ DecideToolReview(p, "accepted", "running")
    BY <2>2, <1>8
  <2>3. CASE /\ WaitingReviews(itemRun[p]) # {p}
             /\ DecideToolReview(p, "accepted", "waiting_review")
    BY <2>3, <1>8
  <2> QED BY <2>1, <2>2, <2>3, <1>9 DEF MarkToolReviewAccepted
<1>10. ASSUME NEW p \in Review, MarkToolReviewRejected(p)
       PROVE  RowsConsistent' /\ PauseMatchesReviews' /\ FinalResultIffCompleted'
  BY <1>10, <1>8 DEF MarkToolReviewRejected
<1>11. ASSUME NEW r \in Run, DeferGeneralTaskResult(r)
       PROVE  UNCHANGED <<runTask, runStatus, itemRun, finalResult, reviewStatus>>
  BY <1>11 DEF DeferGeneralTaskResult, runVars, itemVars, reviewVars
<1>12. ASSUME NEW i \in Item, CompleteAppendedItem(i)
       PROVE  UNCHANGED <<runTask, runStatus, itemRun, finalResult, reviewStatus>>
  BY <1>12 DEF CompleteAppendedItem, runVars, resultVars, reviewVars
<1>13. ASSUME NEW i \in Item \ Review, NEW a \in Attempt, BeginItemAttempt(i, a)
       PROVE  UNCHANGED <<runTask, runStatus, itemRun, finalResult, reviewStatus>>
  BY <1>13 DEF BeginItemAttempt, runVars, resultVars, reviewVars
<1>14. ASSUME NEW a \in Attempt, NEW st \in Terminal, TerminalizeItemAttempt(a, st)
       PROVE  UNCHANGED <<runTask, runStatus, itemRun, finalResult, reviewStatus>>
  BY <1>14 DEF TerminalizeItemAttempt, runVars, resultVars, reviewVars
<1>15. CASE UNCHANGED storeVars
  BY <1>15, <1>5 DEF storeVars
<1> QED
  BY <1>1, <1>2, <1>3, <1>4, <1>5, <1>6, <1>7, <1>9, <1>10, <1>11, <1>12, <1>13, <1>14, <1>15
  DEF StoreNext

\* The inductive invariant holds in every reachable state of the store.
THEOREM StoreInvariant == StoreSpec => []StoreInv
BY InvInit, InvStep, PTL DEF StoreSpec

\* Whatever the callers do: a Run that waits has an undecided tool Review, and one
\* that runs or is completed has none (bind_tool_review, mark_tool_review_accepted and _rejected).
THEOREM PauseCorrect == StoreSpec => []PauseMatchesReviews
BY StoreInvariant, PTL DEF StoreInv

\* Whatever the callers do: the completed Runs are those with a FinalResult
\* (complete_general_task against terminalize_general_run and recovery).
THEOREM FinalResultCorrect == StoreSpec => []FinalResultIffCompleted
BY StoreInvariant, PTL DEF StoreInv
-----------------------------------------------------------------------------
(* What a step may never do. *)

\* The status of a Run that ended is changed by no operation.
LEMMA RunTerminalStep ==
    StoreInv /\ [StoreNext]_storeVars => KeepEndedRuns
<1> SUFFICES ASSUME StoreInv, [StoreNext]_storeVars,
                    NEW r \in Run, runStatus[r] \in Terminal
             PROVE  runStatus'[r] = runStatus[r]
  BY DEF KeepEndedRuns
<1>0. runStatus \in [Run -> CanonicalTaskStatus \union {"none"}]
  BY DEF StoreInv, StoreTypeOK
<1>00. runStatus[r] \notin {"none", "running", "waiting_review"}
  BY DEF Terminal, GeneralTerminal
<1>1. ASSUME NEW t \in Task, NEW q \in Run, BeginGeneralTaskRun(t, q)
      PROVE  runStatus'[r] = runStatus[r]
  BY <1>0, <1>00, <1>1 DEF BeginGeneralTaskRun, StoreInv, RowsConsistent
<1>2. ASSUME NEW q \in Run, NEW st \in GeneralTerminal, TerminalizeGeneralRun(q, st)
      PROVE  runStatus'[r] = runStatus[r]
  BY <1>0, <1>00, <1>2 DEF TerminalizeGeneralRun, Live
<1>3. ASSUME RecoverInterruptedGeneralRuns
      PROVE  runStatus'[r] = runStatus[r]
  BY <1>00, <1>3 DEF RecoverInterruptedGeneralRuns
<1>4. ASSUME NEW q \in Run, CompleteGeneralTask(q)
      PROVE  runStatus'[r] = runStatus[r]
  BY <1>0, <1>00, <1>4 DEF CompleteGeneralTask
<1>5. ASSUME NEW q \in Run, NEW i \in Item \ Review, NEW p \in Review, BindToolReview(q, i, p)
      PROVE  runStatus'[r] = runStatus[r]
  BY <1>0, <1>00, <1>5 DEF BindToolReview, Live
<1>6. ASSUME NEW p \in Review, NEW d, NEW next, DecideToolReview(p, d, next)
      PROVE  runStatus'[r] = runStatus[r]
  BY <1>0, <1>00, <1>6 DEF DecideToolReview
<1>7. ASSUME UNCHANGED runStatus
      PROVE  runStatus'[r] = runStatus[r]
  BY <1>7
<1>8. ASSUME NEW p \in Review, NEW live \in BOOLEAN, MarkToolReviewAccepted(p, live, FALSE)
      PROVE  runStatus'[r] = runStatus[r]
  BY <1>6, <1>8 DEF MarkToolReviewAccepted
<1>9. ASSUME NEW p \in Review, MarkToolReviewRejected(p)
      PROVE  runStatus'[r] = runStatus[r]
  BY <1>6, <1>9 DEF MarkToolReviewRejected
<1> QED
  BY <1>1, <1>2, <1>3, <1>4, <1>5, <1>7, <1>8, <1>9
  DEF StoreNext, DeferGeneralTaskResult, AppendGeneralItem, CompleteAppendedItem,
      BeginItemAttempt, TerminalizeItemAttempt, storeVars, runVars

\* Whatever the callers do: a Run that ended keeps its status
\* (terminalize_general_run's conflict error and the others' status filters).
THEOREM RunTerminalCorrect == StoreSpec => RunTerminalStable
BY StoreInvariant, RunTerminalStep, PTL DEF StoreSpec, RunTerminalStable

\* An Attempt that ended is changed by no operation.
LEMMA AttemptTerminalStep ==
    StoreInv /\ [StoreNext]_storeVars => KeepEndedAttempts
<1> SUFFICES ASSUME StoreInv, [StoreNext]_storeVars,
                    NEW a \in Attempt, attStatus[a] \in Terminal
             PROVE  attStatus'[a] = attStatus[a] /\ attItem'[a] = attItem[a]
  BY DEF KeepEndedAttempts
<1>0. /\ attStatus \in [Attempt -> CanonicalTaskItemStatus \union {"none"}]
      /\ attItem \in [Attempt -> Item \union {NoItem}]
  BY DEF StoreInv, StoreTypeOK
<1>00. attStatus[a] \notin {"none", "running"}
  BY DEF Terminal, GeneralTerminal
<1>1. attItem[a] # NoItem
  BY <1>00 DEF StoreInv, AttemptRowsConsistent
<1>2. ASSUME NEW R, NEW st, CloseWorkOf(R, st)
      PROVE  attStatus'[a] = attStatus[a] /\ attItem'[a] = attItem[a]
  BY <1>00, <1>2 DEF CloseWorkOf
<1>3. ASSUME NEW i \in Item \ Review, NEW b \in Attempt, BeginItemAttempt(i, b)
      PROVE  attStatus'[a] = attStatus[a] /\ attItem'[a] = attItem[a]
  BY <1>0, <1>1, <1>3 DEF BeginItemAttempt
<1>4. ASSUME NEW b \in Attempt, NEW st \in Terminal, TerminalizeItemAttempt(b, st)
      PROVE  attStatus'[a] = attStatus[a] /\ attItem'[a] = attItem[a]
  BY <1>0, <1>00, <1>4 DEF TerminalizeItemAttempt
<1>5. ASSUME UNCHANGED attVars
      PROVE  attStatus'[a] = attStatus[a] /\ attItem'[a] = attItem[a]
  BY <1>5 DEF attVars
<1>6. ASSUME NEW p \in Review, NEW live \in BOOLEAN, MarkToolReviewAccepted(p, live, FALSE)
      PROVE  UNCHANGED attVars
  BY <1>6 DEF MarkToolReviewAccepted, DecideToolReview
<1>7. CASE UNCHANGED storeVars
  BY <1>7 DEF storeVars
<1> QED
  BY <1>2, <1>3, <1>4, <1>5, <1>6, <1>7
  DEF StoreNext, BeginGeneralTaskRun, TerminalizeGeneralRun, RecoverInterruptedGeneralRuns,
      CompleteGeneralTask, DeferGeneralTaskResult, AppendGeneralItem, CompleteAppendedItem,
      BindToolReview, MarkToolReviewRejected, DecideToolReview

\* Whatever the callers do: an Attempt that ended keeps its status and its Item
\* (terminalize_item_attempt, and the closing of a Run's running Attempts).
THEOREM AttemptTerminalCorrect == StoreSpec => AttemptTerminalStable
BY StoreInvariant, AttemptTerminalStep, PTL DEF StoreSpec, AttemptTerminalStable
=============================================================================
