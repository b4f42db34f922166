\* One Run, two instructions for it, a Stop and a crash.
CONSTANTS
    Task = {t1}
    Run = {r1}
    Item = {p1, p2, p3, s1, s2}
    Review = {}
    Steering = {s1, s2}
    Attempt = {a1, a2, a3}
    NoTask = NoTask
    NoRun = NoRun
    NoItem = NoItem
    NoAttempt = NoAttempt
    NoSteering = NoSteering
    ExecutionSlots = 1
    MaxCrashes = 1
    CancelAnyTurn = FALSE
SPECIFICATION SteeringSpec
INVARIANTS
    SteeringTypeOK
    SteeringDecidedBeforeWork
    OneSteeringApplied
    PlanRevisionsAgree
PROPERTIES
    PendingSteeringIsDecided
CHECK_DEADLOCK FALSE
