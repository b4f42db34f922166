\* One Run that calls its provider twice: the first call ends unknown, the second
\* answers, and the Run goes on.
CONSTANTS
    Task = {t1}
    Run = {r1}
    Item = {i1, i2}
    Review = {}
    Attempt = {a1, a2}
    NoTask = NoTask
    NoRun = NoRun
    NoItem = NoItem
    NoAttempt = NoAttempt
    ExecutionSlots = 1
    MaxCrashes = 0
    CancelAnyTurn = FALSE
SPECIFICATION FairWorkSpec
PROPERTIES
    AnsweredRunEnds
CHECK_DEADLOCK FALSE
