SPECIFICATION Spec
CONSTANTS
    r1 = r1
    r2 = r2
    Runners = {r1}
    OneAtATime = TRUE
    Migrations = {1, 2, 3}
    Scripts = {2, 3}
    MaxBackups = 3
    UserData = {2, 3}
INVARIANTS
    HonestLedger
    OriginalIsKept
    LaterNeverSeesHalf
PROPERTIES
    NoSecondRun
    RunEnds
