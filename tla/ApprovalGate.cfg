CONSTANTS
    UNROUTED <- TheUnrouted
    GapHints <- TheGapHints
    Tools <- TheTools
    Words <- TheWords
    Registries <- TheMaps
    Inventories <- TheInventories
    LiveTools <- TheLiveTools
    Hosts <- TheHosts
    Modes <- TheModes
    Calls <- TheCalls
    Harms <- TheHarms
SPECIFICATION Spec
INVARIANTS
    TypeOK
    HarmIsAsked
    NothingLiveIsCreated
    RoutesAreKnown
