SPECIFICATION Spec
CONSTANTS
    v1 = v1
    v2 = v2
    Skills <- TheSkills
    Versions = {v1, v2}
    SkillsOf <- TheSkillsOf
    None = None
    MaxBackups = 1
    BackupRetention = 2
    Starts = {"empty", "recorded"}
    BackupWanted = {TRUE, FALSE}
    UserEdits = FALSE
    BackupDies = FALSE
    RollbackDies = TRUE
    ClockGoesBack = FALSE
INVARIANTS
    HonestRecord
CHECK_DEADLOCK FALSE
