SPECIFICATION Spec
CONSTANTS
    v1 = v1
    v2 = v2
    Skills <- TheSkills
    Versions = {v1, v2}
    SkillsOf <- TheSkillsOf
    None = None
    MaxBackups = 1
    BackupRetention = 1
    Starts = {"empty", "recorded", "by hand"}
    BackupWanted = {TRUE, FALSE}
    UserEdits = TRUE
    BackupDies = TRUE
    RollbackDies = TRUE
    ClockGoesBack = FALSE
INVARIANTS
    TypeOK
PROPERTIES
    RollbackIsSafe
CHECK_DEADLOCK FALSE
