CONSTANTS
    FileKind <- TheFileKind
    FileContent <- TheFileContent
    VideoMedia <- TheVideoMedia
    Drafts <- TheMisnamed
    Brands <- TheBrands
    Readings <- TheReadings
    RealCurrency <- TheRealCurrency
    RealOffset <- TheRealOffset
    NewBudgets <- TheNewBudgets
    OffsetIsSaved = TRUE
SPECIFICATION Spec
INVARIANT ValidatedIsNotStopped
CHECK_DEADLOCK FALSE
