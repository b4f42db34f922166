\* Liveness: one Run that asks once; one command, Stops, a crash.
CONSTANTS
    Task = {t1}
    Run = {r1}
    Item = {i1, p1}
    Review = {p1}
    Attempt = {a1, a2}
    Caller = {c1}
    NoTask = NoTask
    NoRun = NoRun
    NoItem = NoItem
    NoAttempt = NoAttempt
    NoReview = NoReview
    ExecutionSlots = 1
    MaxCrashes = 1
    CancelAnyTurn = TRUE
    ReplayRequests = FALSE
SPECIFICATION FairToolReviewSpec
PROPERTIES
    DecisionWakesExecutor
    StoppedRunEnds
    CancelledExecutorReturns
CHECK_DEADLOCK FALSE
