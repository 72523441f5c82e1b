---------------------------- MODULE EvaluationOrder -------------------------
(***************************************************************************)
(* What the function of Evaluation does by its text: operands from left to *)
(* right, each once, && and || only as far as needed, one side of a        *)
(* ternary expression.  And what of this the compiled function keeps.      *)
(***************************************************************************)
EXTENDS Evaluation, FiniteSets

Extended(o, n) == [c \in 1..n |-> IF c \in DOMAIN o THEN o[c] ELSE FALSE]
CONSTANT MaxId            \* the numbers of calls and assignments

RECURSIVE Src(_, _, _)
SrcAll(ts, r, o) == FoldLeft(LAMBDA done, t : Src(t, done, o), r, ts)

SrcAssignment(t, r, o) ==
    LET place == t.kids[1]
        at == IF place.op = "load" THEN r ELSE Src(place, r, o)
        old == IF place.op = "load" THEN r.env[place.var] ELSE at.value
        e == Src(t.kids[2], at, o)
        value == IF t.compound THEN old = e.value ELSE e.value
        kept == IF place.op = "load" THEN [e EXCEPT !.env[place.var] = value] ELSE e
    IN  Happens(kept, "store", t.id, value)

Src(t, r, o) ==
    CASE t.op = "const" -> [r EXCEPT !.value = t.value]
      [] t.op = "load" -> [r EXCEPT !.value = r.env[t.var]]
      [] t.op \in {"call", "proc", "method"} ->
             Happens(SrcAll(t.kids, r, o), "call", t.id, o[t.id])
      [] t.op \in {"and", "or"} ->
             LET lhs == Src(t.kids[1], r, o)
             IN  IF lhs.value = (t.op = "and") THEN Src(t.kids[2], lhs, o) ELSE lhs
      [] t.op = "bin" ->
             LET lhs == Src(t.kids[1], r, o)
                 rhs == Src(t.kids[2], lhs, o)
             IN  [rhs EXCEPT !.value = lhs.value = rhs.value]
      [] t.op = "un" -> LET k == Src(t.kids[1], r, o) IN [k EXCEPT !.value = ~@]
      [] t.op = "asgn" -> SrcAssignment(t, r, o)
      [] t.op = "tern" -> LET c == Src(t.kids[1], r, o)
                          IN  Src(t.kids[IF c.value THEN 2 ELSE 3], c, o)
      [] OTHER -> Src(t.kids[1], r, o)

SourceTrace(f, o) ==
    LET start == [value |-> FALSE, env |-> [v \in {0} |-> FALSE], trace |-> <<>>]
        init == Src(f.init, start, o)
        test == Src(f.test, [init EXCEPT !.env[0] = init.value], o)
    IN  (IF test.value THEN Src(f.use, test, o) ELSE test).trace

Events(tr) == {tr[i] : i \in 1..Len(tr)}
ThisSource == SourceTrace(source, Extended(outcome, MaxId))

----------------------------------------------------------------------------
(* Parts of a text.                                                        *)

RECURSIVE Parts(_)
Parts(t) == {t} \cup UNION {Parts(t.kids[i]) : i \in 1..Len(t.kids)}

Exprs(f) == {f.init, f.test, f.use}
AllParts(f) == UNION {Parts(t) : t \in Exprs(f)}

Uses(t) == \E p \in Parts(t) : p.op = "load"
Assigns(t) == \E p \in Parts(t) : p.op = "asgn" /\ p.kids[1].op = "load"
Has(t, ops) == \E p \in Parts(t) : p.op \in ops
IsTernary(t) == t.op = "tern" /\ t.kids[1].op # "const"
HasTernary(t) == \E p \in Parts(t) : IsTernary(p)

\* A variable is read when the node it is part of is evaluated, and not when
\* it is its turn: an assignment further right is seen.
ReadsInTurn(f) ==
    \A p \in AllParts(f) : \A i, j \in 1..Len(p.kids) :
        i < j => ~ (Uses(p.kids[i]) /\ Assigns(p.kids[j]))

\* The variables of two ternary expressions are mistaken for each other, and
\* one in an argument is made twice.
OneTernary == Cardinality(st.tmps) <= 1

\* Whatever a ternary expression would have to wait for is not there: it is
\* evaluated first.
RECURSIVE GoesFirst(_)
GoesFirst(t) ==
    CASE IsTernary(t) -> GoesFirst(t.kids[1]) /\ GoesFirst(t.kids[2]) /\ GoesFirst(t.kids[3])
      [] t.op = "tern" /\ ~ IsTernary(t) ->
             ~ HasTernary(t.kids[2]) /\ ~ HasTernary(t.kids[3])
      [] t.op = "asgn" -> ~ HasTernary(t.kids[1]) /\ GoesFirst(t.kids[2])
      [] t.op \in {"call", "proc"} -> \A i \in 1..Len(t.kids) : ~ HasTernary(t.kids[i])
      [] OTHER -> /\ Len(t.kids) > 0 => GoesFirst(t.kids[1])
                  /\ \A i \in 2..Len(t.kids) : ~ HasTernary(t.kids[i])

\* The place of an assignment and the object of a method are not taken apart
\* by the linearizer: calls in them may be made twice or late.
PlainPlaces(f) ==
    \A p \in AllParts(f) :
        /\ p.op = "asgn" => ~ Has(p.kids[1], {"call", "method", "asgn"})
        /\ p.op = "method" => ~ Has(p.kids[1], {"and", "or", "asgn", "field"})

Tame(f) == /\ ReadsInTurn(f)
           /\ \A t \in Exprs(f) : GoesFirst(t)
           /\ PlainPlaces(f)

----------------------------------------------------------------------------
(* A compiled function makes the calls and assignments of its text, in     *)
(* their order and no others: Sema, HIRLinearizer and CodeGen together     *)
(* keep the order of evaluation of every expression that is Tame.          *)
OrderIsKept == phase = "done" /\ OneTernary /\ Tame(source) => trace = ThisSource

(* Of no expression is a call or an assignment left out, also where some   *)
(* are made too early or twice: hoisted ternaries (analyzeTernaryExpr),    *)
(* fields of what a call returns (generateLValue), compound assignments.   *)
NothingIsLost ==
    phase = "done" /\ OneTernary /\ ReadsInTurn(source) => Events(ThisSource) \subseteq Events(trace)

(* The code generator does not meet a null pointer but for two reasons.  A *)
(* local variable is defined after an && or || of its block, so that       *)
(* linearizeBinaryExpr has put it in a block at the end of the list; or    *)
(* && or || is within a place, where linearizeBinaryExpr returns the       *)
(* VarDef and generateExpr has nothing for it.                             *)
LogicInPlace(f) ==
    \E p \in AllParts(f) : p.op \in {"asgn", "method"} /\ Has(p.kids[1], {"and", "or"})
LateLocal(f) ==
    Has(f.init, {"and", "or"}) /\ (Uses(f.use) \/ HasTernary(f.test))
CrashesAreKnown ==
    phase = "crashed" => LogicInPlace(source) \/ LateLocal(source)

(* The operand right of && or || is not evaluated when the left one        *)
(* decides (linearizeBinaryExpr).                                          *)
ShortCircuits ==
    phase = "done" /\ source.test.op = "and" /\ source.test.kids[1].op = "call"
        /\ ~ Extended(outcome, MaxId)[source.test.kids[1].id]
        => Events(trace) \cap {<<"call", c>> : c \in Calls(source.test.kids[2])} = {}
=============================================================================
