SPECIFICATION Spec
CONSTANTS
    Ids = {i1, i2}
    Refs = {adset}
    Accounts = {a1}
    Contents = {c1, c2}
    Failures = {}
    LastStage = 1
    Sessions = {s1, s2}
    Free = Free
    AssetRefs = {}
    LockWorks = TRUE
    WritesMayFail = TRUE
    CrashesHappen = TRUE
    EarlyEdits = FALSE
SYMMETRY Symmetric
INVARIANTS
    TypeOK
    RecordedIsDurable
    ConflictReported
    FingerprintDescribesObjects
PROPERTIES
    ImplementsLedger
CHECK_DEADLOCK FALSE
