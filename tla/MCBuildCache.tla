---------------------------- MODULE MCBuildCache ----------------------------
(* A library and a program that imports it.                                *)
EXTENDS BuildCache

MCModules == {"lib", "main"}
MCDeps == [m \in MCModules |-> IF m = "main" THEN {"lib"} ELSE {}]
MCQueue == <<"lib", "main">>

Lib(sig, mutates) == [sig |-> sig, mutates |-> mutates, use |-> "plain", broken |-> FALSE]
Main(use, broken) == [sig |-> 0, mutates |-> FALSE, use |-> use, broken |-> broken]

(* The verdict on the program depends on the library.                      *)
UseTexts ==
    [m \in MCModules |->
        IF m = "lib" THEN {Lib(0, FALSE), Lib(0, TRUE)}
                     ELSE {Main("plain", FALSE), Main("constCall", FALSE),
                           Main("instantiates", FALSE)}]

(* The library changes its declarations; the program uses them.            *)
PlainTexts ==
    [m \in MCModules |->
        IF m = "lib" THEN {Lib(0, FALSE), Lib(1, FALSE)}
                     ELSE {Main("plain", FALSE)}]

(* All of it at once.                                                      *)
MixedTexts ==
    [m \in MCModules |->
        IF m = "lib" THEN {Lib(0, FALSE), Lib(1, TRUE)}
                     ELSE {Main("plain", FALSE), Main("constCall", FALSE),
                           Main("instantiates", FALSE), Main("plain", TRUE)}]

=============================================================================
