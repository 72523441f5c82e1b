---------------------------- MODULE MCEvaluation ----------------------------
(* Functions for Evaluation: one of the three expressions is of depth two. *)
(* Each call and each assignment has a number of its own.                  *)
EXTENDS EvaluationOrder

X == Load(0)
Const(v) == [op |-> "const", value |-> v, kids |-> <<>>]
Call(id, args) == [op |-> "call", id |-> id, kids |-> args]
Proc(id, args) == [op |-> "proc", id |-> id, kids |-> args]
Method(id, kids) == [op |-> "method", id |-> id, kids |-> kids]
Asgn(id, place, value, compound) ==
    [op |-> "asgn", id |-> id, compound |-> compound, kids |-> <<place, value>>]
Tern(c, a, b) == Node("tern", <<c, a, b>>)

C(id) == Call(id, <<>>)
Leaves(b) == {X, C(b)}

\* Of depth one, with numbers from b to b + 3.
Small(b) ==
    Leaves(b)
    \cup {Node(op, <<l, C(b + 1)>>) : op \in {"and", "or", "bin"}, l \in Leaves(b)}
    \cup {Node("un", <<C(b)>>), Node("deref", <<C(b)>>), Node("field", <<C(b)>>)}
    \cup {Call(b + 2, <<C(b), C(b + 1)>>)}
    \cup {Method(b + 2, <<l, C(b + 1)>>) : l \in Leaves(b)}
    \cup {Asgn(b + 2, X, C(b), compound) : compound \in BOOLEAN}
    \cup {Asgn(b + 2, Node(op, <<C(b)>>), C(b + 1), TRUE) : op \in {"field", "deref"}}
    \cup {Tern(C(b), C(b + 1), C(b + 2))}
    \cup {Tern(Const(v), C(b + 1), C(b + 2)) : v \in BOOLEAN}

\* A field or what a pointer points to is not had of a truth value.
Objects(s) == {t \in s : t.op \notin {"and", "or", "un"}}

\* Of depth two, with numbers from 1 to 9.
Large ==
    LET s == Small(1)
        c == C(5)
    IN  s \cup {Node(op, <<a, c>>) : op \in {"and", "or", "bin"}, a \in s}
          \cup {Node(op, <<c, a>>) : op \in {"and", "or", "bin"}, a \in s}
          \cup {Node(op, <<X, a>>) : op \in {"and", "bin"}, a \in s}
          \cup {Node("un", <<a>>) : a \in s}
          \cup {Node(op, <<a>>) : op \in {"field", "deref"}, a \in Objects(s)}
          \cup {Call(6, <<a>>) : a \in s} \cup {Method(6, <<a>>) : a \in s}
          \cup {Tern(a, c, C(6)) : a \in s} \cup {Tern(c, a, C(6)) : a \in s}
          \cup {Tern(Const(TRUE), c, a) : a \in s}
          \cup {Asgn(6, X, a, compound) : a \in s, compound \in BOOLEAN}
          \cup {Asgn(6, Node(op, <<a>>), c, FALSE) :
                   op \in {"field", "deref"}, a \in Objects(s)}
          \cup {Asgn(6, Node("field", <<Call(4, <<a>>)>>), c, FALSE) : a \in s}
          \cup {Method(6, <<Call(4, <<a>>)>>) : a \in s}

Function(init, test, use) == [init |-> init, test |-> test, use |-> use]
Inits == {Function(a, C(10), u) : a \in {t \in Large : ~ Uses(t) /\ ~ Assigns(t)},
                                  u \in {C(11), Proc(11, <<X>>)}}
Tests == {Function(C(10), a, Proc(11, <<X>>)) : a \in Large}
Branches == {Function(C(10), C(11), a) : a \in Large}
Mixed == {Function(a, b, Proc(11, <<X>>)) :
             a \in {Node("and", <<C(7), C(8)>>), Tern(C(7), C(8), C(9))}, b \in Small(1)}

\* Every ternary expression is one the code generator may mistake another
\* for, and doubles the ways to go on at each later definition.
MaxTernaries == 2
Bounded(fs) == {f \in fs : Cardinality(Lowered(f).tmps) <= MaxTernaries}

Functions == Bounded(Tests \cup Inits \cup Branches \cup Mixed)

\* The function that the finding is about.
Hoisted == {Function(C(10), Node("and", <<C(1), Tern(C(2), C(3), C(4))>>), C(11))}
=============================================================================
