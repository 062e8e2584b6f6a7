SPECIFICATION Spec
CONSTANTS
    v1 = v1
    v2 = v2
    Skills <- TheSkills
    Versions = {v1, v2}
    SkillsOf <- TheSkillsOf
    None = None
    MaxBackups = 3
    BackupRetention = 2
    Starts = {"empty", "recorded"}
    BackupWanted = {TRUE}
    UserEdits = FALSE
    BackupDies = FALSE
    RollbackDies = FALSE
    ClockGoesBack = FALSE
INVARIANTS
    HonestRecord
    WayBack
CHECK_DEADLOCK FALSE
