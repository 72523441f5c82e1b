--------------------------- MODULE LoweringReturns ---------------------------
(***************************************************************************)
(* Which bodies can be run to their end by the text, and that exactly the  *)
(* functions that have to return a value and can are refused.  The text is *)
(* read here without blocks and jumps, from a statement to those nested in *)
(* it: whether it can be run through, and whether it can leave a loop or   *)
(* a round of one that it stands in.  Like the sets of Lowering these are  *)
(* given by their equations, for statements of any depth.                  *)
(***************************************************************************)
EXTENDS Lowering

CONSTANTS Completing,    \* the statements behind which a run may go on
          Breaking,      \* those that may end in a break of a loop around them
          Continuing     \* those that may end in a continue of one

\* The first k - 1 statements can all be run through, and all of them can.
Passed(stmts, k) == \A j \in 1..(k - 1) : stmts[j] \in Completing
Completes(stmts) == AllOf(stmts, Completing)

\* A statement of S can be reached.
Reaches(stmts, S) == \E k \in 1..Len(stmts) : stmts[k] \in S /\ Passed(stmts, k)

\* A condition that is not constant, or not there, may go either way.
MayHold(e) == e.op # "false"
MayFail(e) == e.op \notin {"none", "true"}

\* The branches of an if: one without a condition is taken for a test.
ThenReaches(s, S) == MayHold(s.e) /\ Reaches(s.then, S)
ElseReaches(s, S) == s.e.op # "true" /\ Reaches(s.else, S)

\* A loop goes into another round if a round can be run through or continued,
\* and it ends by its condition, or by a break in a round or between two.
Repeats(s) == MayHold(s.cond) /\ (Completes(s.body) \/ Reaches(s.body, Continuing))
Ends(s) == \/ MayFail(s.cond)
           \/ MayHold(s.cond) /\ Reaches(s.body, Breaking)
           \/ Repeats(s) /\ s.iter # None /\ s.iter \in Breaking

ASSUME CompletingAssumption ==
    \A s \in Statements : s \in Completing <=>
        \/ s.op \in {"var", "expr", "func"}
        \/ s.op = "if" /\ MayHold(s.e) /\ Completes(s.then)
        \/ s.op = "if" /\ s.e.op # "true" /\ Completes(s.else)
        \/ s.op = "for" /\ Ends(s)

ASSUME BreakingAssumption ==
    \A s \in Statements : s \in Breaking <=>
        \/ s.op = "break"
        \/ s.op = "if" /\ (ThenReaches(s, Breaking) \/ ElseReaches(s, Breaking))

ASSUME ContinuingAssumption ==
    \A s \in Statements : s \in Continuing <=>
        \/ s.op = "continue"
        \/ s.op = "if" /\ (ThenReaches(s, Continuing) \/ ElseReaches(s, Continuing))

\* What may leave a loop has a statement in it that does (see Loose).
ASSUME LeavingAssumption == Statements \cap (Breaking \cup Continuing) \subseteq Loose

----------------------------------------------------------------------------
\* The bodies that were analysed, and a file whose bodies are free of errors.
\* In the body of a template the loop of a caller hides the error of a break
\* outside of a loop: what such a break does is not text any more.
Analysed == {f \in 1..Len(program) : BlocksOf(f) # {}}
Checked == phase \in {"accepted", "refused"}
BodiesAreRight ==
    /\ \A e \in errors : Len(e) = 1 /\ program[e[1]].op = "func"
    /\ BreaksAreInLoops

\* A function that has to return a value is refused for the missing return
\* exactly if its text can run to its end, whatever blocks lie in between
\* (dead code elimination and the return checker; tests 92, 93 and 100).
MissingReturnsAreFound ==
    Checked /\ BodiesAreRight =>
        {e[1] : e \in errors} =
            {f \in Analysed : program[f].ret /\ Completes(program[f].body)}

=============================================================================
