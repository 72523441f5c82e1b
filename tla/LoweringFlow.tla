---------------------------- MODULE LoweringFlow ----------------------------
(***************************************************************************)
(* What Lowering promises: control flows through the blocks as through the *)
(* statements.  The text is read here without blocks and stacks, from the  *)
(* paths of its statements alone.                                          *)
(***************************************************************************)
EXTENDS LoweringNames, LoweringReturns

----------------------------------------------------------------------------
(* Places.                                                                 *)

\* The condition of a loop has a place of its own, in part 2.
Cond(loop) == loop \o <<2, 1>>
IsCond(p) == Len(p) > 2 /\ Part(p) = 2 /\ StmtAt(program, Parent(p)).op = "for"

RECURSIVE Loop(_)
Loop(p) == IF StmtAt(program, Parent(p)).op = "for" THEN Parent(p) ELSE Loop(Parent(p))

----------------------------------------------------------------------------
(* Control flow of the text.  <<f>> is the end of the body of f.           *)

Iteration(loop) == IF StmtAt(program, loop).iter = None THEN Cond(loop) ELSE loop \o <<3, 1>>
FirstOf(p, part, otherwise) ==
    IF StmtsIn(StmtAt(program, p), part) = <<>> THEN otherwise ELSE p \o <<part, 1>>

RECURSIVE After(_)
After(p) ==
    CASE Index(p) < Len(Siblings(program, p)) -> Sibling(p, Index(p) + 1)
      [] Len(p) = 2 -> <<p[1]>>
      [] StmtAt(program, Parent(p)).op = "for" ->
             IF Part(p) = 4 THEN Iteration(Parent(p)) ELSE Cond(Parent(p))
      [] OTHER -> After(Parent(p))

Choose2(e, yes, no) == CASE e.op \in {"none", "true"} -> <<yes>>
                         [] e.op = "false" -> <<no>>
                         [] OTHER -> <<yes, no>>

Following(p) ==
    IF IsCond(p) THEN
        LET loop == Parent(p)
        IN  Choose2(StmtAt(program, loop).cond, FirstOf(loop, 4, Iteration(loop)), After(loop))
    ELSE LET s == StmtAt(program, p)
         IN  CASE s.op \in {"var", "expr"} -> <<After(p)>>
               [] s.op = "ret" -> <<>>
               [] s.op = "break" -> <<After(Loop(p))>>
               [] s.op = "continue" -> <<Iteration(Loop(p))>>
               [] s.op = "if" -> Choose2(s.e, FirstOf(p, 1, After(p)),
                                              FirstOf(p, 2, After(p)))
               [] s.op = "for" -> <<IF s.init = None THEN Cond(p) ELSE p \o <<1, 1>> >>

\* What a run of the program does at its places: statements, decisions and
\* the end; the rest only says where to go on.
Observable(p) ==
    \/ Len(p) = 1
    \/ Len(Following(p)) # 1
    \/ ~IsCond(p) /\ StmtAt(program, p).op \in {"var", "expr"}

\* Running in a circle that does nothing.
Spin == <<0>>

RECURSIVE Skip(_, _)
Skip(p, fuel) == IF Observable(p) THEN p
                 ELSE IF fuel = 0 THEN Spin ELSE Skip(Following(p)[1], fuel - 1)

\* More places than a program of these sizes has.
Fuel == 30
Reach(p) == Skip(p, Fuel)
Through(ps) == [i \in 1..Len(ps) |-> Reach(ps[i])]

Stops(p) == Len(p) = 1
TextStart(f) == Reach(IF program[f].body = <<>> THEN <<f>> ELSE <<f, 1>>)
TextNext(p) == IF Stops(p) THEN <<>> ELSE Through(Following(p))

----------------------------------------------------------------------------
(* Control flow of the blocks, between the same places.                    *)

RECURSIVE Onwards(_, _, _)
Onwards(b, i, fuel) ==
    LET t == blocks[b].term
    IN  CASE i <= Len(blocks[b].insts) -> blocks[b].insts[i]
          [] t.op \in {"ret", "fork"} -> t.at
          [] t.op = "open" -> <<blocks[b].func>>
          [] fuel = 0 -> Spin
          [] OTHER -> Onwards(t.to[1], 1, fuel - 1)

From(b, i) == Onwards(b, i, Len(blocks))

\* Where a place was put among the blocks of f that were kept.
Instances(f, p) ==
    {<<b, i>> \in Kept(f) \X (1..Fuel) :
        \/ i <= Len(blocks[b].insts) /\ blocks[b].insts[i] = p
        \/ /\ i = Len(blocks[b].insts) + 1
           /\ blocks[b].term.op \in {"ret", "fork"} /\ blocks[b].term.at = p}

NextAt(b, i) ==
    IF i <= Len(blocks[b].insts) THEN <<From(b, i + 1)>>
    ELSE IF blocks[b].term.op = "ret" THEN <<>>
    ELSE <<From(blocks[b].term.to[1], 1), From(blocks[b].term.to[2], 1)>>

BlockNexts(f, p) == {NextAt(w[1], w[2]) : w \in Instances(f, p)}

RECURSIVE Places(_)
Places(S) ==
    LET more == S \cup UNION {{TextNext(p)[i] : i \in 1..Len(TextNext(p))} : p \in S}
    IN  IF more = S THEN S ELSE Places(more)

TextPlaces(f) == Places({TextStart(f)})

----------------------------------------------------------------------------
\* Control flows through the blocks that are kept as through the text: a
\* body starts at the same place, every place that the text can reach was put
\* into exactly one block, and what comes after it, on each side of a
\* decision, is what comes after it in the text.  Statements dropped after a
\* terminator, constant conditions, empty loops and break and continue out of
\* nested statements are where it could go wrong.  That a body can be run to
\* its end is the same here and where its return is missed.
FlowIsPreserved ==
    Checked /\ BodiesAreRight =>
        \A f \in Analysed :
            /\ From(Entry(f), 1) = TextStart(f)
            /\ <<f>> \in TextPlaces(f) <=> Completes(program[f].body)
            /\ \A p \in TextPlaces(f) :
                  ~Stops(p) => /\ Cardinality(Instances(f, p)) = 1
                               /\ BlockNexts(f, p) = {TextNext(p)}

=============================================================================
