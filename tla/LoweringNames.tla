---------------------------- MODULE LoweringNames ----------------------------
(***************************************************************************)
(* What the names of a program mean by its text: the nearest definition    *)
(* before them in the statements around them, then an argument, then a     *)
(* variable of the module.  The text is read here without scopes and       *)
(* stacks, from the paths of its statements alone (see Lowering).          *)
(***************************************************************************)
EXTENDS Lowering

----------------------------------------------------------------------------
(* The tree: the statement at a path, its siblings and its parent.         *)

Parent(p) == SubSeq(p, 1, Len(p) - 2)
Part(p) == p[Len(p) - 1]
Index(p) == p[Len(p)]
Sibling(p, k) == [p EXCEPT ![Len(p)] = k]

StmtsIn(s, part) ==
    CASE s.op = "if" /\ part = 1 -> s.then
      [] s.op = "if" /\ part = 2 -> s.else
      [] s.op = "for" /\ part = 1 -> <<s.init>>
      [] s.op = "for" /\ part = 3 -> <<s.iter>>
      [] s.op = "for" /\ part = 4 -> s.body
      [] OTHER -> <<>>

\* A path of 2 k numbers goes k statements deep.
Depth(p) == Len(p) \div 2
Upto(p, k) == SubSeq(p, 1, 2 * k)

StmtAt(text, p) ==
    LET stmt[k \in 1..Depth(p)] ==
            IF k = 1 THEN text[p[1]].body[p[2]]
            ELSE StmtsIn(stmt[k - 1], p[2 * k - 1])[p[2 * k]]
    IN  IF Len(p) = 1 THEN text[p[1]] ELSE stmt[Depth(p)]

Siblings(text, p) ==
    IF Len(p) = 1 THEN text
    ELSE IF Len(p) = 2 THEN text[p[1]].body
    ELSE StmtsIn(StmtAt(text, Parent(p)), Part(p))

----------------------------------------------------------------------------
(* Names, by the nesting of the text.                                      *)

Defines(s, n) == s.op = "var" /\ s.name = n
NoDefinition == <<>>
Least(S) == CHOOSE k \in S : \A j \in S : k <= j
Greatest(S) == CHOOSE k \in S : \A j \in S : j <= k

Before(text, p, n) == {k \in 1..(Index(p) - 1) : Defines(Siblings(text, p)[k], n)}

\* The indexator and the iteration stand in the head of a loop, and so before
\* its body; the iteration is run after it.
InHead(text, p, n) ==
    LET loop == StmtAt(text, Parent(p))
    IN  {part \in {1, 3} : /\ Len(p) > 2 /\ loop.op = "for" /\ part < Part(p)
                           /\ Defines(StmtsIn(loop, part)[1], n)}

\* What defines n for p, no further out than the statement that p is part of.
DefinedAt(text, p, n) ==
    IF Before(text, p, n) # {} THEN Sibling(p, Least(Before(text, p, n)))
    ELSE IF InHead(text, p, n) # {} THEN Parent(p) \o <<Least(InHead(text, p, n)), 1>>
    ELSE NoDefinition

Global(text, n) ==
    LET globals == {g \in 1..Len(text) : Defines(text[g], n)}
    IN  IF globals = {} THEN NoDefinition ELSE <<Least(globals)>>

Lexical(text, p, n) ==
    LET levels == {k \in 1..Depth(p) : DefinedAt(text, Upto(p, k), n) # NoDefinition}
    IN  IF levels # {} THEN DefinedAt(text, Upto(p, Greatest(levels)), n)
        ELSE IF Len(p) > 1 /\ n \in text[p[1]].args THEN <<p[1], 0>>
        ELSE Global(text, n)

\* The body of a template is the exception that the code makes: it is
\* analysed inside the scopes of the first caller, and what it does not define
\* itself is looked up there first.
Means(text, p, n, q) ==
    \/ q = Lexical(text, p, n)
    \/ /\ Len(p) > 1 /\ text[p[1]].template
       /\ q[1] # p[1] /\ Len(q) > 1
       /\ Len(Lexical(text, p, n)) <= 1

\* A name means the definition that the text says, or for what a template
\* does not define, a variable of its caller (getVariable, analyzeVarDef).
NamesAreLexical ==
    errors = {} => \A u \in resolved : Means(program, u.at, u.name, u.to)

=============================================================================
