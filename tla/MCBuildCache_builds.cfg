\* Sources are saved between builds only, or at any time; veoc may be killed at
\* any point.  Two instants after the sources were first saved are the fewest
\* with a file that is as old as its source, one that is newer and one that is
\* older.
CONSTANTS
    Modules <- MCModules
    Deps <- MCDeps
    Queue <- MCQueue
    Texts <- PlainTexts
    MaxTime = 2
    Habits = {FALSE, TRUE}
    CleanFirst = FALSE

SPECIFICATION Spec

INVARIANTS
    FreshIsCurrent
    SkewIsVisible
    PairsAgree
    ArtefactsFailOnlyIfKilled

PROPERTIES
    LinksCurrentSources
    VeocEnds

CHECK_DEADLOCK FALSE
