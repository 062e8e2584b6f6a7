SPECIFICATION Spec
CONSTANTS
    camp = camp
    set = set
    p1 = p1
    p2 = p2
    k1 = k1
    k2 = k2
    Processes = {p1, p2}
    Objects = {camp, set}
    DeletableTypes = {"campaign", "ad_set"}
    Type <- TheType
    Above <- TheAbove
    Creatives = {k1}
    None = None
    Free = Free
    Garbled = Garbled
    MaxLog = 2
    TornWrites = TRUE
SYMMETRY Symmetric
INVARIANTS
    LoggedIsReadable
CHECK_DEADLOCK FALSE
