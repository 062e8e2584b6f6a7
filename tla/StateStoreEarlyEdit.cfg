SPECIFICATION Spec
CONSTANTS
    Ids = {i1}
    Refs = {adset}
    Accounts = {a1}
    Contents = {c1, c2}
    Failures = {}
    LastStage = 0
    Sessions = {s1}
    Free = Free
    AssetRefs = {}
    LockWorks = TRUE
    WritesMayFail = FALSE
    CrashesHappen = TRUE
    EarlyEdits = TRUE
INVARIANTS
    FingerprintDescribesObjects
CHECK_DEADLOCK FALSE
