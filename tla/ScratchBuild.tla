----------------------------- MODULE ScratchBuild -----------------------------
(* What a build is for: an executable that is a function of the sources.    *)
(* There are no artefacts and no times here.  A build looks at all sources   *)
(* at once; it yields the code of all of them, compiled against each other,  *)
(* or nothing.                                                               *)
EXTENDS Naturals

CONSTANTS Modules, Deps, Texts

VARIABLES
    text,   \* what the source files contain
    exe     \* the executable: {}, or the code of every module

Init ==
    /\ text \in [Modules -> UNION {Texts[m] : m \in Modules}]
    /\ \A m \in Modules : text[m] \in Texts[m]
    /\ exe = {}

Edit ==
    /\ \E m \in Modules : \E t \in Texts[m] : text' = [text EXCEPT ![m] = t]
    /\ UNCHANGED exe

(* The compiler's verdict on m, given its imports.                         *)
Correct(m) ==
    /\ ~text[m].broken
    /\ text[m].use = "constCall" => \A d \in Deps[m] : ~text[d].mutates

(* The code of m rests on the present declarations of its imports.         *)
Compiled(m) == [text |-> text[m], seen |-> {<<d, text[d].sig>> : d \in Deps[m]}]

Build ==
    /\ \A m \in Modules : Correct(m)
    /\ exe' = {[m \in Modules |-> Compiled(m)]}
    /\ UNCHANGED text

Discard ==
    /\ exe' = {}
    /\ UNCHANGED text

Next == Edit \/ Build \/ Discard

Spec == Init /\ [][Next]_<<text, exe>>

=============================================================================
