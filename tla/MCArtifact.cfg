\* One file with edits and two crashes, two files of one Run, two versions of one file, and Undo.
SPECIFICATION ArtifactSpec
CONSTANTS
    r1 = r1
    r2 = r2
    a1 = a1
    a2 = a2
    Task = {t1}
    Run = {r1, r2}
    Artifact = {a1, a2}
    Item <- ItemSet
    Attempt <- AttemptSet
    Review = {}
    NoTask = NoTask
    NoRun = NoRun
    NoItem = NoItem
    MaxVersion = 2
    MaxClaims = 2
    MaxUndos = 2
    Bounds <- AllBounds
SYMMETRY Names
CHECK_DEADLOCK FALSE
INVARIANTS
    UndoTypeOK
    ConfirmedIsReal
    UndoKeepsBytes
    RejectedNeverActs
    CompletedRunDelivered
PROPERTIES
    WritesAreGoverned
    UndoIsGoverned
    JournalIsFinal
    RecoverySettles
