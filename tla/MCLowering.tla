----------------------------- MODULE MCLowering -----------------------------
(* Instances of Lowering for TLC: files about control flow, files about    *)
(* names and templates.                                                    *)
EXTENDS LoweringFlow, Functions

Use(n) == [op |-> "use", name |-> n]
Call(f) == [op |-> "call", callee |-> f]
Const(b) == [op |-> b]
Expr(e) == [op |-> "expr", e |-> e]
Var(n, e) == [op |-> "var", name |-> n, e |-> e]
Return1(valued) == [op |-> "ret", e |-> IF valued THEN Const("true") ELSE None]
If(e, then, else) == [op |-> "if", e |-> e, then |-> then, else |-> else]
For(init, cond, iter, body) ==
    [op |-> "for", init |-> init, cond |-> cond, iter |-> iter, body |-> body]
Func(template, ret, args, body) ==
    [op |-> "func", template |-> template, ret |-> ret, args |-> args, body |-> body]

\* Control flow: one function, whose calls of itself are conditions that are
\* not known, three levels deep if it returns a value and two if it does not.
Work == Expr(Const("true"))
Counter == Var("i", Const("true"))
Unknown == Call(1)
Break == [op |-> "break"]
Iterations == {None, Work, Break, If(Unknown, <<[op |-> "continue"]>>, <<>>)}
Leaves(r) == {<<>>} \cup {<<s>> : s \in {Work, Return1(r), [op |-> "break"],
                                          [op |-> "continue"]}}
Ifs(r) == {If(e, t, u) : e \in {Const("true"), Const("false"), Unknown},
                         t \in Leaves(r), u \in Leaves(r)}
Fors(r) == {For(None, c, i, b) : c \in {None, Const("false"), Unknown},
                                 i \in Iterations, b \in Leaves(r)}
Inner(r) == Ifs(r) \cup Fors(r)
Outer(r) ==
    {For(i, c, None, <<s>> \o t) : i \in {None, Counter}, c \in {None, Unknown},
                                   s \in Inner(r), t \in {<<>>, <<Work>>}}
    \cup {If(e, <<s>>, u) : e \in {Const("true"), Unknown}, s \in Inner(r),
                            u \in {<<>>, <<Return1(r)>>}}
Closing(r) == {<<>>, <<Work, Return1(r)>>}
FlowFunctions ==
    {Func(FALSE, TRUE, {}, <<s>> \o t) : s \in Outer(TRUE), t \in Closing(TRUE)}
    \cup {Func(FALSE, FALSE, {}, <<s>> \o t) : s \in Inner(FALSE), t \in Closing(FALSE)}
FlowPrograms == {<<f>> : f \in FlowFunctions}

\* Names: x may be a variable of the module, an argument, a local variable
\* before, in or after a nested statement; a template is called from there.
X == "x"
Uses == Expr(Use(X))
Locals == {Var(X, Const("true")), Var(X, Use(X)), Var(X, Call(1)), Uses, Expr(Call(1))}
NestedInBodies ==
    {If(Const("true"), <<s>>, <<>>) : s \in Locals}
    \cup {If(Use(X), <<s, Uses>>, <<Uses>>) : s \in Locals}
    \cup {For(i, c, Uses, <<s>>) : i \in {None, Var(X, Const("true"))},
                                   c \in {Use(X), Call(1)},
                                   s \in Locals \cup {Break}}
    \cup {For(i, None, Var(X, Const("true")), <<Uses>>) : i \in {None, Var(X, Const("true"))}}
    \cup {Func(FALSE, FALSE, {}, <<>>)}
Templates ==
    {Func(TRUE, TRUE, a, <<s, Return1(TRUE)>>) :
        a \in {{}, {X}},
        s \in {Uses, Var(X, Const("true")), Expr(Call(1)), Break,
               For(None, Use(X), None, <<Uses>>), If(Use(X), <<Uses>>, <<>>)}}
Globals == {Var(X, Const("true")), Var("y", Call(1)), Return1(FALSE)}
ScopeFunctions ==
    {Func(FALSE, FALSE, a, <<s1, s2, Var("z", Use(X))>>) :
        a \in {{}, {X}}, s1 \in Locals, s2 \in NestedInBodies}
Last == Func(FALSE, FALSE, {}, <<Uses>>)
ScopePrograms ==
    {<<t, g, f, Last>> : t \in Templates, g \in Globals, f \in ScopeFunctions}

\* A statement of the module behind a function whose loop has no condition.
LeftOpenFunctions == {Func(FALSE, FALSE, {}, <<For(None, Use(X), None, <<s>>)>>) : s \in Locals}
Strays == {Return1(FALSE), Return1(TRUE), Break, Counter}
LeftOpen == {<<t, f, s>> : t \in Templates, f \in LeftOpenFunctions, s \in Strays}

\* The nested statements, and the sets that the equations of Lowering give.
PartsOf(s) == CASE s.op = "if" -> Range(s.then) \cup Range(s.else)
                [] s.op = "for" -> Range(s.body) \cup {s.init, s.iter}
                [] s.op = "func" -> Range(s.body)
                [] OTHER -> {}
DeadParts(s) == CASE s.op = "if" /\ s.e.op = "true" -> Range(s.else)
                  [] s.op = "if" /\ s.e.op = "false" -> Range(s.then)
                  [] OTHER -> {}

RECURSIVE Nested(_), IsLoose(_), IsBlockless(_), IsSimple(_)
Nested(s) == {s} \cup UNION {Nested(t) : t \in PartsOf(s)}
IsLoose(s) == \/ s.op \in {"break", "continue"}
              \/ s.op = "if" /\ \E t \in PartsOf(s) : IsLoose(t)
IsBlockless(s) == /\ s.op \notin {"var", "for"}
                  /\ s.op = "if" => IsConstant(s.e) /\ \A t \in PartsOf(s) : IsBlockless(t)
IsSimple(s) == /\ \A t \in DeadParts(s) : IsBlockless(t)
               /\ s.op \in {"if", "for"} => \A t \in PartsOf(s) : IsSimple(t)

\* Whether the end of a list is reached, and a break or continue on the way.
RECURSIVE IsCompleting(_), IsLeaving(_, _)
AllComplete(stmts) == \A k \in 1..Len(stmts) : IsCompleting(stmts[k])
SomeLeave(stmts, what) ==
    \E k \in 1..Len(stmts) : IsLeaving(stmts[k], what) /\ AllComplete(SubSeq(stmts, 1, k - 1))
IsLeaving(s, what) ==
    \/ s.op = what
    \/ s.op = "if" /\ s.e.op # "false" /\ SomeLeave(s.then, what)
    \/ s.op = "if" /\ s.e.op # "true" /\ SomeLeave(s.else, what)
IsCompleting(s) ==
    \/ s.op \in {"var", "expr", "func"}
    \/ s.op = "if" /\ s.e.op # "false" /\ AllComplete(s.then)
    \/ s.op = "if" /\ s.e.op # "true" /\ AllComplete(s.else)
    \/ s.op = "for" /\ s.cond.op \notin {"none", "true"}
    \/ /\ s.op = "for" /\ s.cond.op # "false"
       /\ \/ SomeLeave(s.body, "break")
          \/ /\ AllComplete(s.body) \/ SomeLeave(s.body, "continue")
             /\ IsLeaving(s.iter, "break")

\* The statements level by level; that no level is missing is assumed.
Declarations == ScopeFunctions \cup LeftOpenFunctions \cup Templates \cup Globals \cup Strays
                \cup {Last}
InnerStatements ==
    UNION {Nested(s) : s \in Inner(TRUE) \cup Inner(FALSE) \cup Declarations} \ {None}
Everything == FlowFunctions \cup (Outer(TRUE) \cup InnerStatements)
WithLoose == {s \in Everything : IsLoose(s)}
WithBlockless == {s \in Everything : IsBlockless(s)}
WithSimple == {s \in Everything : IsSimple(s)}
WithCompleting == {s \in Everything : IsCompleting(s)}
WithBreaking == {s \in Everything : IsLeaving(s, "break")}
WithContinuing == {s \in Everything : IsLeaving(s, "continue")}

\* What the constants are replaced by: TLC evaluates these at every use and
\* the definitions that they name once.
AllPrograms == FlowPrograms \cup (ScopePrograms \cup LeftOpen)
AllStatements == Everything
LooseStatements == WithLoose
BlocklessStatements == WithBlockless
SimpleStatements == WithSimple
CompletingStatements == WithCompleting
BreakingStatements == WithBreaking
ContinuingStatements == WithContinuing
=============================================================================
