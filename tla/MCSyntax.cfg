CONSTANTS
    Files <- MCFiles
    Texts <- MCTexts
SPECIFICATION Spec
INVARIANTS
    WellFormedIsParsed
    AcceptedIsWritten
    LetsAreKept
    ImportsAreFound
    CrashesAreKnown
PROPERTIES
    StatementsAdvance
CHECK_DEADLOCK FALSE
