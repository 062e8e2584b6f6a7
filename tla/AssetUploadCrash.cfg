SPECIFICATION Spec
CONSTANTS
    Processes = {p1, p2}
    Files = {f1}
    Contents = {clip}
    Videos = {clip}
    Accounts = {a1}
    RemoteIds = {r1, r2}
    NoId = NoId
    Free = Free
    LockWorks = TRUE
    CrashesHappen = TRUE
    WritesMayFail = FALSE
    AnswersGetLost = FALSE
    FilesChange = FALSE
SYMMETRY Symmetric
INVARIANTS
    OneUploadEver
