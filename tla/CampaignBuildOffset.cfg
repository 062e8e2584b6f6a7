CONSTANTS
    FileKind <- TheFileKind
    FileContent <- TheFileContent
    VideoMedia <- TheVideoMedia
    Drafts <- TheHuf
    Brands <- TheBrands
    Readings <- TheReadings
    RealCurrency <- TheRealCurrency
    RealOffset <- TheRealOffset
    NewBudgets <- TheNewBudgets
    OffsetIsSaved = FALSE
SPECIFICATION Spec
INVARIANT CopyDeliversTheSame
CHECK_DEADLOCK FALSE
