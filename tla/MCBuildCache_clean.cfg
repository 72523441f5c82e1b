\* The protocol of build.py: every build follows a complete clean.
CONSTANTS
    Modules <- MCModules
    Deps <- MCDeps
    Queue <- MCQueue
    Texts <- MixedTexts
    MaxTime = 2
    Habits = {FALSE}
    CleanFirst = TRUE

SPECIFICATION Spec

PROPERTY BuildsFromScratch

CHECK_DEADLOCK FALSE
