SPECIFICATION Spec
CONSTANTS
    Ids = {i1, i2}
    Refs = {adset}
    Accounts = {a1}
    Contents = {c1}
    Failures = {}
    LastStage = 0
    Sessions = {s1, s2}
    Free = Free
    AssetRefs = {}
    LockWorks = TRUE
    WritesMayFail = TRUE
    CrashesHappen = FALSE
    EarlyEdits = FALSE
SYMMETRY Symmetric
INVARIANTS
    ConflictSaid
CHECK_DEADLOCK FALSE
