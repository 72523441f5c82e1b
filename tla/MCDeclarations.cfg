SPECIFICATION Spec
CHECK_DEADLOCK FALSE
CONSTANTS
    Width <- Widths
    PtrBits = 6
    Texts <- MCTexts
    Library <- MCLibrary
INVARIANTS
    TypeOK
    DuplicatesAreFound
    BodiesAreTheirOwn
    CrashesAreKnown
    NothingIsLost
    ValuesHaveTheirType
    CallsMeanTheSame
    NamesAreDistinct
    FoldingIsInvisible
