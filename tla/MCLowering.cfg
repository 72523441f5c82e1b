CONSTANTS
    Programs <- AllPrograms
    Statements <- AllStatements
    Loose <- LooseStatements
    Blockless <- BlocklessStatements
    Simple <- SimpleStatements
    Completing <- CompletingStatements
    Breaking <- BreakingStatements
    Continuing <- ContinuingStatements
SPECIFICATION Spec
INVARIANTS
    FlowIsPreserved
    MissingReturnsAreFound
    NamesAreLexical
    StacksAreBalanced
    GraphsAreClosed
    CrashesAreKnown
CHECK_DEADLOCK FALSE
