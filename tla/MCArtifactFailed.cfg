\* A failed accept, a crash, and a user who changes the target and changes it back.
SPECIFICATION ArtifactSpec
CONSTANTS
    r1 = r1
    r2 = r2
    a1 = a1
    a2 = a2
    Task = {t1}
    Run = {r1}
    Artifact = {a1}
    Item <- ItemSet
    Attempt <- AttemptSet
    Review = {}
    NoTask = NoTask
    NoRun = NoRun
    NoItem = NoItem
    MaxVersion = 1
    MaxClaims = 2
    MaxUndos = 2
    Bounds <- FailedBounds
CHECK_DEADLOCK FALSE
PROPERTIES
    NoWriteAfterFailure
