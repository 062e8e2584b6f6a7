SPECIFICATION Spec
CONSTANTS
    r1 = r1
    r2 = r2
    Runners = {r1, r2}
    OneAtATime = FALSE
    Migrations = {1, 2}
    Scripts = {2}
    MaxBackups = 2
    UserData = {2}
PROPERTIES
    NoSecondRun
