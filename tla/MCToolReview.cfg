\* One Run asks twice, for one tool Item or for two; two commands, Stops and a
\* crash race, and the request may be sent again.
CONSTANTS
    Task = {t1}
    Run = {r1}
    Item = {i1, i2, p1, p2}
    Review = {p1, p2}
    Attempt = {a1, a2}
    Caller = {c1, c2}
    NoTask = NoTask
    NoRun = NoRun
    NoItem = NoItem
    NoAttempt = NoAttempt
    NoReview = NoReview
    ExecutionSlots = 1
    MaxCrashes = 1
    CancelAnyTurn = FALSE
    ReplayRequests = TRUE
SPECIFICATION ToolReviewSpec
SYMMETRY ToolReviewSym
INVARIANTS
    ToolReviewTypeOK
    DecisionsAgree
    ResultHasAnswer
    LiveTaskHasLiveRun
    FinalResultIffCompleted
    PauseMatchesReviews
PROPERTIES
    RetryNeedsAcceptance
CHECK_DEADLOCK FALSE
