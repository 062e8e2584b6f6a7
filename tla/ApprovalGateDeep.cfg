CONSTANTS
    UNROUTED <- TheUnrouted
    GapHints <- TheGapHints
    Tools <- TheTools
    Words <- TheWords
    Registries <- TheOneMap
    Inventories <- TheOneInventory
    LiveTools <- TheLiveTools
    Hosts <- TheHosts
    Modes <- TheModes
    Calls <- TheDeepCalls
    Harms <- TheHarms
SPECIFICATION Spec
INVARIANT NothingLiveIsCreated
