CONSTANTS
    f1 = f1
    f2 = f2
    a1 = a1
    a2 = a2
    a3 = a3
    Memory = {m1, m2}
    Admission = {a1, a2, a3}
    Fact = {f1, f2}
    NoMemory = NoMemory
    NoAdmission = NoAdmission
    NoFact = NoFact
    AdmissionFact <- MCAdmissionFact
    AdmissionRisk <- MCAdmissionRisk
    MaxRetrievalRevision = 2
    Caller = {c1}
    Background = bg
    NoWorker = NoWorker
    NoEvent = NoEvent
    Batch = 2
    MaxPasses = 2
    MaxStartupPasses = 2
    MaxHeadAdvanceRetries = 2
    MaxCommands = 3
    MaxFaults = 1
    MaxCrashes = 1
SYMMETRY MCSym
SPECIFICATION MemorySpec
INVARIANTS
    ProjectionTypeOK
    DeletedStaysDeleted
    AppliedMeansProjected
    OnlyHeadIsOpen
    RecordMatchesEvents
    OneOwnerPerFact
PROPERTIES
    StartupDrainsDeletions
    IndexPromise
CHECK_DEADLOCK FALSE
