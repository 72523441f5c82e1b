\* Three methods can form every shape of call chain and cycle that needs two
\* passes; the fourth is a template.
CONSTANTS
    Written = {"a", "b", "c", "t"}
    Templates = {"t"}
    Instances = {"inst_of_t"}
    WrittenAs <- MCWrittenAs
    Outside = "functions"
    Texts <- MCTexts
    InnerAssignments = TRUE

SPECIFICATION Spec

INVARIANTS
    ReportsAreRight
    PlainCallsAreChecked

PROPERTY Settles

CHECK_DEADLOCK FALSE
