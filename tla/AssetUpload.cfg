SPECIFICATION FairSpec
CONSTANTS
    Processes = {p1, p2}
    Files = {f1}
    Contents = {photo, clip}
    Videos = {clip}
    Accounts = {a1, a2}
    RemoteIds = {r1, r2}
    NoId = NoId
    Free = Free
    LockWorks = TRUE
    CrashesHappen = TRUE
    WritesMayFail = TRUE
    AnswersGetLost = TRUE
    FilesChange = FALSE
INVARIANTS
    TypeOK
    OneUploadPerContent
    ManifestTellsContent
PROPERTIES
    ImplementsRegister
    UploadEnds
