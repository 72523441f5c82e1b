SPECIFICATION Spec
CONSTANTS
    Sources <- Hoisted
    MaxId = 11
INVARIANTS ShortCircuits
CHECK_DEADLOCK FALSE
