\* A second build, after only the program was edited.
CONSTANTS
    Modules <- MCModules
    Deps <- MCDeps
    Queue <- MCQueue
    Texts <- UseTexts
    MaxTime = 2
    Habits = {FALSE}
    CleanFirst = FALSE

SPECIFICATION Spec

PROPERTY ImmutableReceiverRejected

CHECK_DEADLOCK FALSE
