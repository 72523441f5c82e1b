\* Three names are the fewest with a diamond-free path of length two, a cycle
\* that does not go through the entry point and a shared dependency.
CONSTANTS
    Names = {"main", "io", "mem"}
    Entry = "main"
    MaxImports = 2
    ImportLists <- MCImportLists

SPECIFICATION Spec

INVARIANTS
    QueueIsTopological
    QueueIsComplete
    VerdictIsRight

PROPERTY Terminates

CHECK_DEADLOCK FALSE
