SPECIFICATION Spec
CONSTANTS
    Ids = {i1, i2}
    Refs = {adset1, adset2}
    Accounts = {a1}
    Contents = {c1}
    Failures = {}
    LastStage = 0
    Sessions = {s1, s2}
    Free = Free
    AssetRefs = {}
    LockWorks = FALSE
    WritesMayFail = FALSE
    CrashesHappen = FALSE
    EarlyEdits = FALSE
SYMMETRY Symmetric
PROPERTIES
    FileOnlyGrows
CHECK_DEADLOCK FALSE
