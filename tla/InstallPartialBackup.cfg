SPECIFICATION Spec
CONSTANTS
    v1 = v1
    v2 = v2
    Skills <- TheSkills
    Versions = {v1, v2}
    SkillsOf <- TheSkillsOf
    None = None
    MaxBackups = 2
    BackupRetention = 1
    Starts = {"recorded"}
    BackupWanted = {TRUE, FALSE}
    UserEdits = FALSE
    BackupDies = TRUE
    RollbackDies = FALSE
    ClockGoesBack = FALSE
INVARIANTS
    HonestRecord
CHECK_DEADLOCK FALSE
