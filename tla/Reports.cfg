\* An agent that exports and reports day by day.
SPECIFICATION Spec
CONSTANTS
    None = None
    ada = ada
    adb = adb
    feed = feed
    story = story
    p1 = p1
    p2 = p2
    c1 = c1
    s1 = s1
    Precision = 4
    NoiseBand = 13
    MinClicks = 5
    MinResults = 1
    DeclinePct = 25
    Ceiling = 40
    Ads <- TheAds
    Outcomes <- TheOutcomes
    ReachedOn <- TheReachedOn
    PlaceOf <- ThePlaceOf
    Campaign = c1
    AdSet = s1
    LastDay = 4
    MaxResults <- TheMaxResults
    AttributionDays = 1
    FirstDays = {1, 2}
    Lengths = {1, 2}
    ReachLengths = {2}
    OldExports = FALSE
    Budget = 20
    Schedules <- TheSchedules
    Attributions = {None, 1}
    Levels = {None, "campaign"}
    Events = {TRUE}
INVARIANTS
    TypeOK
    NothingCountedTwice
    ReportIsFinal
    DeclineIsOngoing
    RatesAreOfTheWhole
CHECK_DEADLOCK FALSE
