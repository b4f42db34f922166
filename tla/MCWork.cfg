\* Two Runs of one Task: executors, Stops, restarts and a crash interleave.
CONSTANTS
    Task = {t1}
    Run = {r1, r2}
    Item = {i1}
    Review = {}
    Attempt = {a1}
    NoTask = NoTask
    NoRun = NoRun
    NoItem = NoItem
    NoAttempt = NoAttempt
    ExecutionSlots = 2
    MaxCrashes = 1
    CancelAnyTurn = TRUE
SPECIFICATION WorkSpec
SYMMETRY WorkRunSym
INVARIANTS
    ResultHasAnswer
    EndedRunIsSettled
    LiveTaskHasLiveRun
PROPERTIES
    NoCallAfterEnd
    RunTerminalStable
    AttemptTerminalStable
CHECK_DEADLOCK FALSE
