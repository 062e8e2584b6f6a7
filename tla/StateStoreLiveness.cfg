SPECIFICATION FairSpec
CONSTANTS
    Ids = {i1}
    Refs = {video1}
    Accounts = {a1}
    Contents = {c1}
    Failures = {f1}
    LastStage = 1
    Sessions = {s1, s2}
    Free = Free
    AssetRefs = {video1}
    LockWorks = TRUE
    WritesMayFail = TRUE
    CrashesHappen = TRUE
    EarlyEdits = FALSE
PROPERTIES
    FlushEnds
CHECK_DEADLOCK FALSE
