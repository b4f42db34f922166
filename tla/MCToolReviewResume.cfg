\* Two accepts of one Proposal.
CONSTANTS
    Task = {t1}
    Run = {r1}
    Item = {i1, p1}
    Review = {p1}
    Attempt = {a1, a2}
    Caller = {c1, c2}
    NoTask = NoTask
    NoRun = NoRun
    NoItem = NoItem
    NoAttempt = NoAttempt
    NoReview = NoReview
    ExecutionSlots = 1
    MaxCrashes = 0
    CancelAnyTurn = FALSE
    ReplayRequests = FALSE
SPECIFICATION ToolReviewSpec
INVARIANTS
    LiveApprovalResumes
CHECK_DEADLOCK FALSE
