SPECIFICATION Spec
CONSTANTS
    Sources <- Functions
    MaxId = 11
INVARIANTS OrderIsKept NothingIsLost CrashesAreKnown
CHECK_DEADLOCK FALSE
