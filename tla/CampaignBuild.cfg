CONSTANTS
    FileKind <- TheFileKind
    FileContent <- TheFileContent
    VideoMedia <- TheVideoMedia
    Drafts <- TheDrafts
    Brands <- TheBrands
    Readings <- TheReadings
    RealCurrency <- TheRealCurrency
    RealOffset <- TheRealOffset
    NewBudgets <- TheNewBudgets
    OffsetIsSaved = TRUE
SPECIFICATION FairSpec
INVARIANTS
    TypeOK
    BuiltAsPlanned
    ServesAsPlanned
    CopyDeliversTheSame
    StopsAreKnown
PROPERTIES
    ShownChangeIsReal
    BuildsEnd
CHECK_DEADLOCK FALSE
