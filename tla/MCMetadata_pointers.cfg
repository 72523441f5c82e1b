\* The smallest package with two types that wait for completion.
SPECIFICATION Spec
CONSTANTS
    Packages <- TwoPointers
    MaxBuilds = 2
INVARIANTS AllAreKept
CHECK_DEADLOCK FALSE
