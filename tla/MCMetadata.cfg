SPECIFICATION Spec
CONSTANTS
    Packages <- MCPackages
    MaxBuilds = 3
INVARIANTS UnsharedAreKept FilesAreUsable
CHECK_DEADLOCK FALSE
