---------------------------- MODULE MCImportGraph ----------------------------
(* Every package of at most three import paths whose files have at most    *)
(* MaxImports import statements each, with any subset of the files missing *)
EXTENDS ImportGraph, FiniteSets

CONSTANT MaxImports

MCImportLists == UNION {[1..k -> Names] : k \in 0..MaxImports}

=============================================================================
