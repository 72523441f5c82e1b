----------------------------- MODULE Evaluation -----------------------------
(***************************************************************************)
(* What is left of an expression when it runs: Sema builds a tree of nodes *)
(* from it (stage0/src/sema/exprs.cpp), the linearizer takes the tree      *)
(* apart into temporaries and blocks (stage0/src/linearizer), the code     *)
(* generator goes through the blocks once, in the order of their list      *)
(* (stage0/src/codegen/codegen.cpp).                                       *)
(*                                                                         *)
(* The function considered is                                              *)
(*     { let x = init; if test { use; } }                                  *)
(* with any three expressions.  Types are left out: every value is a truth *)
(* value, a call returns any, == stands for all binary operators and ! for *)
(* the unary ones and the casts.  What can be observed of a run are calls  *)
(* and assignments, by their number in the text.                           *)
(***************************************************************************)
EXTENDS Naturals, Sequences, SequencesExt

CONSTANT Sources          \* records of three expressions

VARIABLES source,         \* the function
          st,             \* the builder: its blocks and the block at hand
          phase,
          block, inst,    \* where the passes and the run are
          locals,         \* _curFunc->Locals: variables with an alloca
          found,          \* the ".tmp" that findLocal comes upon first
          env,            \* the values of the variables while it runs
          outcome,        \* what each call returned
          trace           \* the calls and assignments made

state == <<source, st, phase, block, inst, locals, found, env, outcome, trace>>

----------------------------------------------------------------------------
(* The builder, with blocks from 1 and variables from 0, which is x.       *)

Open == [op |-> "open"]
EmptyBlock == [insts |-> <<>>, term |-> Open]

AddInst(s, i) ==
    IF s.blocks[s.at].term = Open
    THEN [s EXCEPT !.blocks[s.at].insts = Append(@, i)] ELSE s
AddTerm(s, t) ==
    IF s.blocks[s.at].term = Open THEN [s EXCEPT !.blocks[s.at].term = t] ELSE s
At(s, b) == [s EXCEPT !.at = b]
NewBlocks(s, n) == [s EXCEPT !.blocks = @ \o [i \in 1..n |-> EmptyBlock]]

Define(v, node) == [op |-> "def", var |-> v, node |-> node]
Eval(node) == [op |-> "eval", node |-> node]
Jump(b) == [op |-> "jump", to |-> b]
Branch(node, then, else) == [op |-> "branch", node |-> node, then |-> then, else |-> else]

Node(op, kids) == [op |-> op, kids |-> kids]
Load(v) == [op |-> "load", var |-> v, kids |-> <<>>]
Slot(v) == [op |-> "slot", var |-> v, kids |-> <<>>]
Event(op, id, kids) == [op |-> op, id |-> id, kids |-> kids]

Fresh(s) == s.vars + 1
AddVariableOutside(s, node) == [s EXCEPT !.vars = Fresh(s)]    \* mutant
AddVariable(s, node) ==
    [AddInst(s, Define(Fresh(s), node)) EXCEPT !.vars = Fresh(s)]

Null == Node("null", <<>>)

----------------------------------------------------------------------------
(* Sema.  A result is a node and the builder after it was made.            *)

RECURSIVE Analyze(_, _), AnalyzeAll(_, _)

AnalyzeAll(ts, s) ==
    FoldLeft(LAMBDA done, t : LET r == Analyze(t, done.st)
                              IN  [nodes |-> Append(done.nodes, r.node), st |-> r.st],
             [nodes |-> <<>>, st |-> s], ts)

\* analyzeFuncCall: the arguments are analysed to choose the function, and
\* once more against the types of its parameters.
Arguments(ts, s) == AnalyzeAll(ts, AnalyzeAll(ts, s).st)

\* analyzeTernaryExpr with a condition that is not constant: the variable
\* and the three blocks are made at once, wherever the expression stands.
Ternary(t, s) ==
    LET cond == Analyze(t.kids[1], s)
        tmp == Fresh(cond.st)
        n == Len(cond.st.blocks)
        defined == [AddVariable(cond.st, Null) EXCEPT !.tmps = @ \cup {tmp}]
        forked == AddTerm(NewBlocks(defined, 3), Branch(cond.node, n + 1, n + 2))
        side(k, before) ==
            LET r == Analyze(t.kids[k], At(before, n + k - 1))
            IN  AddTerm(AddInst(r.st, Eval(Event("set", 0, <<Slot(tmp), r.node>>))),
                        Jump(n + 3))
    IN  [node |-> Load(tmp), st |-> At(side(3, side(2, forked)), n + 3)]

\* analyzeAsgnExpr.  A compound assignment uses the node of the left side
\* twice; for a field the base is analysed again (analyzeAsgnField).
Assignment(t, s) ==
    LET ptr == Analyze(t.kids[1], s)
        expr == Analyze(t.kids[2], ptr.st)
        value == IF t.compound THEN Node("bin", <<ptr.node, expr.node>>) ELSE expr.node
        after == IF t.kids[1].op = "field" THEN Analyze(t.kids[1].kids[1], expr.st).st
                 ELSE expr.st
    IN  [node |-> Event("store", t.id, <<ptr.node, value>>), st |-> after]

Analyze(t, s) ==
    CASE t.op \in {"const", "load"} -> [node |-> t, st |-> s]
      [] t.op \in {"call", "proc"} ->
             LET args == Arguments(t.kids, s)
             IN  [node |-> Event(t.op, t.id, args.nodes), st |-> args.st]
      [] t.op = "method" ->
             LET base == Analyze(t.kids[1], s)
                 args == Arguments(Tail(t.kids), base.st)
             IN  [node |-> Event("call", t.id, <<Node("ref", <<base.node>>)>> \o args.nodes),
                  st |-> args.st]
      [] t.op = "asgn" -> Assignment(t, s)
      [] t.op = "tern" /\ t.kids[1].op = "const" ->
             LET all == AnalyzeAll(t.kids, s)
             IN  [node |-> all.nodes[IF t.kids[1].value THEN 2 ELSE 3], st |-> all.st]
      [] t.op = "tern" /\ t.kids[1].op # "const" -> Ternary(t, s)
      [] OTHER -> LET all == AnalyzeAll(t.kids, s)
                  IN  [node |-> Node(t.op, all.nodes), st |-> all.st]

\* analyzeVarDef and analyzeIfElseStmt for the three expressions.
Lowered(f) ==
    LET s0 == [blocks |-> <<EmptyBlock>>, at |-> 1, vars |-> 0, tmps |-> {}]
        init == Analyze(f.init, s0)
        test == Analyze(f.test, AddInst(init.st, Define(0, init.node)))
        n == Len(test.st.blocks)
        forked == AddTerm(NewBlocks(test.st, 2), Branch(test.node, n + 1, n + 2))
        use == Analyze(f.use, At(forked, n + 1))
        joined == AddTerm(AddInst(use.st, Eval(use.node)), Jump(n + 2))
    IN  AddTerm(At(joined, n + 2), [op |-> "ret"])

----------------------------------------------------------------------------
(* The linearizer.  lv is _asLValue.                                       *)

EmitToTmpNever(node, s, lv) == [node |-> node, st |-> s]      \* mutant
EmitToTmp(node, s, lv) ==
    IF lv THEN [node |-> node, st |-> s]
    ELSE [node |-> Load(Fresh(s)), st |-> AddVariable(s, node)]

RECURSIVE Linearize(_, _, _)

LinearizeAll(nodes, s, lv) ==
    FoldLeft(LAMBDA done, n : LET r == Linearize(n, done.st, lv)
                              IN  [nodes |-> Append(done.nodes, r.node), st |-> r.st],
             [nodes |-> <<>>, st |-> s], nodes)

\* The way from the left operand to the block of the right one, n, or past it.
DecideAsAnd(op, node, n) == Branch(node, n, n + 1)             \* mutant
Decide(op, node, n) ==
    IF op = "and" THEN Branch(node, n, n + 1) ELSE Branch(node, n + 1, n)

\* linearizeBinaryExpr for && and ||: the right operand gets a block.
ShortCircuit(node, s, lv) ==
    LET lhs == Linearize(node.kids[1], s, lv)
        n == Len(lhs.st.blocks)
        tmp == Fresh(lhs.st)
        defined == AddVariable(NewBlocks(lhs.st, 2), lhs.node)
        forked == AddTerm(defined, Decide(node.op, lhs.node, n + 1))
        rhs == Linearize(node.kids[2], At(forked, n + 1), lv)
        stored == AddTerm(AddInst(rhs.st, Eval(Event("set", 0, <<Slot(tmp), rhs.node>>))),
                          Jump(n + 2))
    IN  [node |-> IF lv THEN Slot(tmp) ELSE Load(tmp), st |-> At(stored, n + 2)]

Linearize(node, s, lv) ==
    CASE node.op \in {"const", "load", "slot", "null"} -> [node |-> node, st |-> s]
      [] node.op \in {"and", "or"} -> ShortCircuit(node, s, lv)
      [] node.op = "proc" ->
             LET args == LinearizeAll(node.kids, s, lv)
             IN  [node |-> Node("stmt", <<>>),
                  st |-> AddInst(args.st, Eval([node EXCEPT !.kids = args.nodes]))]
      [] node.op \in {"store", "set"} ->
             LET ptr == Linearize(node.kids[1], s, TRUE)
                 expr == Linearize(node.kids[2], ptr.st, lv)
             IN  EmitToTmp([node EXCEPT !.kids = <<ptr.node, expr.node>>], expr.st, lv)
      [] node.op = "ref" ->
             LET r == Linearize(node.kids[1], s, TRUE)
             IN  EmitToTmp([node EXCEPT !.kids = <<r.node>>], r.st, lv)
      [] OTHER ->
             LET all == LinearizeAll(node.kids, s, lv)
             IN  EmitToTmp([node EXCEPT !.kids = all.nodes], all.st, lv)

LinearizeInst(s, i) ==
    LET r == Linearize(i.node, s, FALSE)
    IN  AddInst(r.st, [i EXCEPT !.node = r.node])

LinearizeTerm(s, t) ==
    IF t.op # "branch" THEN AddTerm(s, t)
    ELSE LET r == Linearize(t.node, s, FALSE)
         IN  AddTerm(r.st, [t EXCEPT !.node = r.node])

\* linearizeBasicBlock: the block is emptied and filled again, the end of it
\* possibly in another block.
Relinearized(s, b) ==
    LET old == s.blocks[b]
    IN  LinearizeTerm(FoldLeft(LinearizeInst,
                               [At(s, b) EXCEPT !.blocks[b] = EmptyBlock], old.insts),
                      old.term)

----------------------------------------------------------------------------
(* The code that is generated for a node, and what it does when it runs.   *)

RECURSIVE Variables(_), Calls(_)
Variables(n) == (IF n.op \in {"load", "slot"} THEN {n.var} ELSE {})
                \cup UNION {Variables(n.kids[i]) : i \in 1..Len(n.kids)}
Calls(n) == (IF n.op \in {"call", "proc"} THEN {n.id} ELSE {})
            \cup UNION {Calls(n.kids[i]) : i \in 1..Len(n.kids)}

\* A run so far: the last value, the variables, the trace; o is what the
\* calls return.  Place is generateLValue, Run is generateExpr.
RECURSIVE Run(_, _, _), Place(_, _, _), RunAll(_, _, _)
RunAll(nodes, r, o) == FoldLeft(LAMBDA done, n : Run(n, done, o), r, nodes)

Values(nodes, r, o) ==
    [i \in 1..Len(nodes) |-> RunAll(SubSeq(nodes, 1, i), r, o).value]

Happens(r, what, id, value) ==
    [r EXCEPT !.trace = Append(@, <<what, id>>), !.value = value]

Run(n, r, o) ==
    CASE n.op = "const" -> [r EXCEPT !.value = n.value]
      [] n.op \in {"null", "stmt"} -> [r EXCEPT !.value = FALSE]
      [] n.op = "load" -> [r EXCEPT !.value = r.env[n.var]]
      [] n.op \in {"call", "proc"} -> Happens(RunAll(n.kids, r, o), "call", n.id, o[n.id])
      [] n.op = "un" -> LET k == Run(n.kids[1], r, o) IN [k EXCEPT !.value = ~@]
      [] n.op = "bin" -> LET v == Values(n.kids, r, o)
                         IN  [RunAll(n.kids, r, o) EXCEPT !.value = v[1] = v[2]]
      [] n.op \in {"store", "set"} ->
             LET e == Run(n.kids[2], Place(n.kids[1], r, o), o)
                 kept == IF n.kids[1].op \in {"load", "slot"}
                         THEN [e EXCEPT !.env[n.kids[1].var] = e.value] ELSE e
             IN  IF n.op = "set" THEN kept ELSE Happens(kept, "store", n.id, e.value)
      [] n.op = "ref" -> [Place(n.kids[1], r, o) EXCEPT !.value = TRUE]
      [] OTHER -> Run(n.kids[1], r, o)

\* The address of a field evaluates the base as a value and as an address.
Place(n, r, o) ==
    CASE n.op \in {"load", "slot"} -> r
      [] n.op = "field" -> Place(n.kids[1], Run(n.kids[1], r, o), o)
      [] n.op = "deref" -> Run(n.kids[1], r, o)
      [] OTHER -> Run(n, r, o)

----------------------------------------------------------------------------
Init ==
    /\ source \in Sources
    /\ st = [blocks |-> <<>>, at |-> 0, vars |-> 0, tmps |-> {}]
    /\ phase = "analyze"
    /\ block = 1 /\ inst = 1
    /\ locals = {} /\ found = 0
    /\ env = <<>> /\ outcome = <<>> /\ trace = <<>>

AnalyzeBody ==
    /\ phase = "analyze"
    /\ st' = Lowered(source)
    /\ phase' = "linearize"
    /\ inst' = Len(st'.blocks)
    /\ UNCHANGED <<source, block, locals, found, env, outcome, trace>>

\* linearizeFunc goes through a copy of the list of blocks: inst keeps its
\* length, the blocks made on the way are not visited.
LinearizeBasicBlock ==
    /\ phase = "linearize"
    /\ st' = Relinearized(st, block)
    /\ IF block < inst
       THEN block' = block + 1 /\ UNCHANGED <<phase, inst>>
       ELSE block' = 1 /\ inst' = 1 /\ phase' = "generate"
    /\ UNCHANGED <<source, locals, found, env, outcome, trace>>

\* findLocal goes through Locals, an unordered map, for an equal VarDef.
\* Those of two ternary expressions are equal: the name is ".tmp" and has no
\* place in the text, the type is the same.
Local(v) == IF v \in st.tmps THEN found ELSE v

RECURSIVE Resolved(_)
Resolved(n) ==
    LET kids == [i \in 1..Len(n.kids) |-> Resolved(n.kids[i])]
    IN  IF n.op \in {"load", "slot"} THEN [n EXCEPT !.var = Local(@)]
        ELSE [n EXCEPT !.kids = kids]

\* generateExpr knows no VarDef, generateLValue does: where a value is wanted
\* the result of && or || that was linearized as an lvalue is a null pointer.
RECURSIVE HasValue(_), HasPlace(_)
HasPlace(n) == CASE n.op \in {"load", "slot"} -> TRUE
                 [] n.op \in {"field", "deref"} -> HasValue(n.kids[1])
                 [] OTHER -> HasValue(n)
HasValue(n) ==
    /\ n.op # "slot"
    /\ \A k \in 1..Len(n.kids) :
          IF k = 1 /\ n.op \in {"store", "set", "ref"} THEN HasPlace(n.kids[k])
          ELSE HasValue(n.kids[k])

\* So is a local variable that findLocal does not find.
FindsLocals(n) ==
    \A v \in Variables(n) : IF v \in st.tmps THEN found # 0 ELSE v \in locals

Generates(n) == HasValue(n) /\ FindsLocals(n)

\* LLVM dereferences the null pointer.
Fails(n) ==
    /\ ~ Generates(n)
    /\ phase' = "crashed"
    /\ UNCHANGED <<source, st, block, inst, locals, found, env, outcome, trace>>

\* A new entry may move the others of the map.
GenerateInst ==
    LET i == st.blocks[block].insts[inst]
    IN  /\ phase = "generate" /\ inst <= Len(st.blocks[block].insts)
        /\ \/ Fails(i.node)
           \/ /\ Generates(i.node)
              /\ st' = [st EXCEPT !.blocks[block].insts[inst].node = Resolved(@)]
              /\ locals' = IF i.op = "def" THEN locals \cup {i.var} ELSE locals
              /\ IF i.op = "def" /\ locals' \cap st.tmps # {}
                 THEN found' \in locals' \cap st.tmps
                 ELSE UNCHANGED found
              /\ inst' = inst + 1
              /\ UNCHANGED <<source, phase, block, env, outcome, trace>>

\* The last block ends the function.  What an alloca holds before the first
\* store is not defined.
GenerateTerm ==
    LET t == st.blocks[block].term
        cond == IF t.op = "branch" THEN t.node ELSE Null
    IN  /\ phase = "generate" /\ inst = Len(st.blocks[block].insts) + 1
        /\ \/ Fails(cond)
           \/ /\ Generates(cond)
              /\ st' = IF t.op = "branch"
                       THEN [st EXCEPT !.blocks[block].term.node = Resolved(@)] ELSE st
              /\ inst' = 1
              /\ IF block < Len(st.blocks)
                 THEN block' = block + 1 /\ UNCHANGED <<phase, env>>
                 ELSE /\ block' = 1 /\ phase' = "run"
                      /\ \E junk \in BOOLEAN : env' = [v \in 0..st.vars |-> junk]
              /\ UNCHANGED <<source, locals, found, outcome, trace>>

\* What a part of the program does, given what its calls return: anything,
\* and the same call again what it returned before.
Runs(node) ==
    {LET o == [c \in DOMAIN outcome \cup DOMAIN new |->
                  IF c \in DOMAIN outcome THEN outcome[c] ELSE new[c]]
     IN  [ends |-> Run(node, [value |-> FALSE, env |-> env, trace |-> trace], o),
          outcome |-> o] :
     new \in [Calls(node) \ DOMAIN outcome -> BOOLEAN]}

RunInst ==
    LET i == st.blocks[block].insts[inst]
    IN  /\ phase = "run" /\ inst <= Len(st.blocks[block].insts)
        /\ \E r \in Runs(i.node) :
              /\ outcome' = r.outcome
              /\ trace' = r.ends.trace
              /\ env' = IF i.op = "def" THEN [r.ends.env EXCEPT ![i.var] = r.ends.value]
                        ELSE r.ends.env
        /\ inst' = inst + 1
        /\ UNCHANGED <<source, st, phase, block, locals, found>>

RunTerm ==
    LET t == st.blocks[block].term
    IN  /\ phase = "run" /\ inst = Len(st.blocks[block].insts) + 1
        /\ \/ /\ t.op = "ret"
              /\ phase' = "done"
              /\ UNCHANGED <<block, inst, env, outcome, trace>>
           \/ /\ t.op = "jump"
              /\ block' = t.to /\ inst' = 1
              /\ UNCHANGED <<phase, env, outcome, trace>>
           \/ /\ t.op = "branch"
              /\ \E r \in Runs(t.node) :
                    /\ outcome' = r.outcome /\ trace' = r.ends.trace
                    /\ env' = r.ends.env
                    /\ block' = IF r.ends.value THEN t.then ELSE t.else
              /\ inst' = 1
              /\ UNCHANGED phase
        /\ UNCHANGED <<source, st, locals, found>>

Next ==
    \/ AnalyzeBody
    \/ LinearizeBasicBlock
    \/ GenerateInst \/ GenerateTerm
    \/ RunInst \/ RunTerm

Spec == Init /\ [][Next]_state
=============================================================================
