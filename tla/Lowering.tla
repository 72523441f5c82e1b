------------------------------ MODULE Lowering ------------------------------
(***************************************************************************)
(* How Sema turns the bodies of a module into basic blocks                 *)
(* (stage0/src/sema/stmts.cpp), and what is done to the blocks before code *)
(* is generated from them (stage0/src/hir_analyze).                        *)
(*                                                                         *)
(* The recursive functions analyze...() share the members of Sema: the     *)
(* stack of scopes _vars, the stack of loops _loops, the return types and  *)
(* the insertion block of the builder.  Their recursion is the agenda, the *)
(* list of what remains to be done: a statement found at its head is       *)
(* replaced by its parts.  A call of a template that has no instance yet   *)
(* puts the body of the instance in front of the statement that calls it,  *)
(* which is how generateGenericFunc analyses one body in the middle of     *)
(* another with the same members.                                          *)
(*                                                                         *)
(* A program is a sequence of declarations in the order of the file.  The  *)
(* place of a statement is its path from there: <<2, 3, 1, 4>> is the      *)
(* fourth statement in part 1 of the third statement of declaration 2.     *)
(* Types, modules and methods are left out.  Every template is given one   *)
(* instance.                                                               *)
(***************************************************************************)
EXTENDS Naturals, Sequences, FiniteSets

CONSTANTS Programs,      \* the files considered
          Statements,    \* their statements, the nested ones included
          Loose,         \* those with a break or continue that is in no loop of theirs
          Blockless,     \* those that can be analysed with no insertion block
          Simple         \* those whose dead branches are Blockless

VARIABLES program,       \* the file
          decl,          \* the loop of Analyze over the declarations
          agenda,        \* what the recursion has still to do
          vars,          \* _vars: scopes, each from names to definitions
          loops,         \* _loops: blocks of break and continue
          bodies,        \* _funcRetTypes: the functions being analysed
          at,            \* _insertBlock of the builder
          blocks,        \* every BasicBlock, in the order of creation
          made,          \* the templates that have an instance
          resolved,      \* what each use of a name was resolved to
          errors,        \* the diagnostics
          removed,       \* blocks that dead code elimination erased
          phase

state == <<program, decl, agenda, vars, loops, bodies, at, blocks, made,
           resolved, errors, removed, phase>>

\* nullptr as a block; a block that has no terminator yet.
Null == 0
Open == [op |-> "open"]

\* A statement or expression that is not there.
None == [op |-> "none"]

----------------------------------------------------------------------------
(* The syntax.  What the analysis gets is a tree, of which the parser says  *)
(* no more: statements of any kind stand in bodies, branches and loops, and *)
(* as the iteration of a loop, whose indexator is a definition.  The three  *)
(* sets are given by their equations, along the nesting of the branches.    *)

Ops == {"var", "expr", "ret", "if", "for", "break", "continue", "func"}

IsConstant(e) == e.op \in {"true", "false"}

Exprs == {s.e : s \in {t \in Statements : t.op \in {"var", "expr", "ret", "if"}}}
         \cup {s.cond : s \in {t \in Statements : t.op = "for"}}
         \cup {None}

ASSUME StatementsAssumption ==
    /\ \A p \in Programs : p \in Seq(Statements)
    /\ \A s \in Statements :
        /\ s.op \in Ops
        /\ s.op = "func" => /\ s.body \in Seq(Statements)
                            /\ s.template \in BOOLEAN /\ s.ret \in BOOLEAN
        /\ s.op = "if" => s.then \in Seq(Statements) /\ s.else \in Seq(Statements)
        /\ s.op = "for" => /\ s.body \in Seq(Statements)
                           /\ s.init = None \/ (s.init \in Statements /\ s.init.op = "var")
                           /\ s.iter = None \/ s.iter \in Statements

\* A call is resolved to a function of the file (see HasValue).
ASSUME CallsAssumption ==
    \A e \in Exprs : e.op = "call" =>
        \A p \in Programs : e.callee \in 1..Len(p) /\ p[e.callee].op = "func"

AnyOf(stmts, S) == \E k \in 1..Len(stmts) : stmts[k] \in S
AllOf(stmts, S) == \A k \in 1..Len(stmts) : stmts[k] \in S

ASSUME LooseAssumption ==
    \A s \in Statements : s \in Loose <=>
        \/ s.op \in {"break", "continue"}
        \/ s.op = "if" /\ (AnyOf(s.then, Loose) \/ AnyOf(s.else, Loose))

ASSUME BlocklessAssumption ==
    \A s \in Statements : s \in Blockless <=>
        /\ s.op \notin {"var", "for"}
        /\ s.op = "if" => /\ IsConstant(s.e)
                          /\ AllOf(s.then, Blockless) /\ AllOf(s.else, Blockless)

ASSUME SimpleAssumption ==
    \A s \in Statements : s \in Simple <=>
        /\ s.op = "if" => /\ AllOf(s.then, Simple) /\ AllOf(s.else, Simple)
                          /\ s.e.op = "true" => AllOf(s.else, Blockless)
                          /\ s.e.op = "false" => AllOf(s.then, Blockless)
        /\ s.op = "for" => AllOf(s.body, Simple) /\ (s.iter # None => s.iter \in Simple)

----------------------------------------------------------------------------
(* The builder.  AddInst drops whatever follows a terminator.              *)

NewBlock(f) == [func |-> f, insts |-> <<>>, term |-> Open]

Writable(bs, b) == b # Null /\ bs[b].term = Open

AddInst(bs, b, place) ==
    IF Writable(bs, b) THEN [bs EXCEPT ![b].insts = Append(@, place)] ELSE bs

\* A slip: a terminator replaces the one that is there.
AddTermAgain(bs, b, term) == IF b = Null THEN bs ELSE [bs EXCEPT ![b].term = term]

AddTerm(bs, b, term) ==
    IF Writable(bs, b) THEN [bs EXCEPT ![b].term = term] ELSE bs

Jump(to) == [op |-> "jump", to |-> <<to>>]
Fork(place, then, else) == [op |-> "fork", at |-> place, to |-> <<then, else>>]
Ret(place) == [op |-> "ret", at |-> place]

----------------------------------------------------------------------------
(* The agenda.                                                             *)

Parts(place, part, stmts) ==
    [k \in 1..Len(stmts) |->
        [do |-> "stmt", at |-> place \o <<part, k>>, stmt |-> stmts[k]]]

Optional(place, part, stmt) ==
    IF stmt = None THEN <<>> ELSE Parts(place, part, <<stmt>>)

Item(what) == <<[do |-> what]>>
MoveTo(b) == <<[do |-> "moveTo", block |-> b]>>
JumpTo(b) == <<[do |-> "jumpTo", block |-> b]>>

\* The body of function f: its statements are part 0 of the declaration.
\* The last four fields record how things stood, for the properties only.
BodyOf(f, restore) ==
    [k \in 1..Len(program[f].body) |->
        [do |-> "stmt", at |-> <<f, k>>, stmt |-> program[f].body[k]]]
    \o <<[do |-> "endBody", func |-> f, block |-> restore,
          depth |-> Len(vars), loops |-> loops]>>

Scoped(items) == Item("openScope") \o items \o Item("closeScope")

----------------------------------------------------------------------------
(* Names and expressions.  getVariable looks from the innermost scope      *)
(* outwards and then among the variables of the module, which are those of *)
(* the outermost scope.  "true" and "false" stand for any constants, a     *)
(* call of a function that is not a template is resolved whatever happens. *)

Holders(n) == {k \in 1..Len(vars) : n \in DOMAIN vars[k]}
Found(n) == Holders(n) # {}
\* A slip: the scopes are searched from the outermost inwards.
GetVariableOutermost(n) ==
    vars[CHOOSE k \in Holders(n) : \A j \in Holders(n) : k <= j][n]

GetVariable(n) ==
    vars[CHOOSE k \in Holders(n) : \A j \in Holders(n) : j <= k][n]

HasValue(e) == e.op = "use" => Found(e.name)

Pending(e) ==
    /\ e.op = "call"
    /\ program[e.callee].template
    /\ e.callee \notin made

\* What the evaluation of e at a place leaves: a resolved name or a report.
Evaluate(e, place) ==
    /\ resolved' = IF e.op = "use" /\ Found(e.name)
                   THEN resolved \cup {[at |-> place, name |-> e.name,
                                        to |-> GetVariable(e.name)]}
                   ELSE resolved
    /\ errors' = IF HasValue(e) THEN errors ELSE errors \cup {place}

\* The outermost scope is the one of the module.
InGlobalScope == Len(vars) = 1

----------------------------------------------------------------------------
Init ==
    /\ program \in Programs
    /\ decl = 1
    /\ agenda = <<>>
    /\ vars = << <<>> >>
    /\ loops = <<>>
    /\ bodies = <<>>
    /\ at = Null
    /\ blocks = <<>>
    /\ made = {}
    /\ resolved = {}
    /\ errors = {}
    /\ removed = {}
    /\ phase = "analyze"

\* What every step of the analysis leaves alone.
Stays == UNCHANGED <<program, decl, removed, phase>>

Report(place) == errors' = errors \cup {place}

\* Undefined behaviour: a null block dereferenced, or the top of no loops.
\* No outcome of it is a program, so that one state stands for all.
Crash ==
    /\ phase' = "crashed"
    /\ UNCHANGED <<program, decl, agenda, vars, loops, bodies, at, blocks, made,
                   resolved, errors, removed>>

\* analyzeFuncDef from the creation of the entry block up to its first
\* statement, the rest of the agenda to be resumed at block restore.
BeginBody(f, restore, rest) ==
    /\ blocks' = Append(blocks, NewBlock(f))
    /\ at' = Len(blocks) + 1
    /\ bodies' = Append(bodies, f)
    /\ vars' = Append(vars, [n \in program[f].args |-> <<f, 0>>])
    /\ agenda' = BodyOf(f, restore) \o rest

\* The last loop of Analyze: functions and global variables in the order of
\* the file.  A template is passed over; a stray statement is reported.
Declare ==
    LET d == program[decl]
    IN  /\ phase = "analyze" /\ agenda = <<>> /\ decl <= Len(program)
        /\ decl' = decl + 1
        /\ \/ /\ d.op = "func" /\ ~InGlobalScope
              /\ Report(<<decl>>)
              /\ UNCHANGED <<agenda, vars, bodies, at, blocks>>
           \/ /\ d.op = "func" /\ InGlobalScope /\ d.template
              /\ UNCHANGED <<agenda, vars, bodies, at, blocks, errors>>
           \/ /\ d.op = "func" /\ InGlobalScope /\ ~d.template
              /\ BeginBody(decl, at, <<>>)
              /\ UNCHANGED errors
           \/ /\ d.op # "func"
              /\ agenda' = <<[do |-> "stmt", at |-> <<decl>>, stmt |-> d]>>
              /\ UNCHANGED <<vars, bodies, at, blocks, errors>>
        /\ UNCHANGED <<program, loops, made, resolved, removed, phase>>

\* The item at the head of the agenda, and what is left behind it.
AtHead(what) == phase = "analyze" /\ agenda # <<>> /\ Head(agenda).do = what
Now == Head(agenda)
Rest == Tail(agenda)

\* The expression that the head of the agenda is about to evaluate.
Evaluated ==
    CASE Now.do = "finish" -> Now.stmt.e
      [] Now.do = "loopCond" -> Now.cond
      [] OTHER -> None

\* generateGenericFunc: the instance is declared, then analysed at once.
\* Only the insertion block is put back afterwards.
Instantiate ==
    /\ phase = "analyze" /\ agenda # <<>> /\ Pending(Evaluated)
    /\ made' = made \cup {Evaluated.callee}
    /\ BeginBody(Evaluated.callee, at, agenda)
    /\ UNCHANGED <<loops, resolved, errors>>
    /\ Stays

\* The end of analyzeFuncDef and of the generation of an instance.
EndBody ==
    /\ AtHead("endBody")
    /\ blocks' = IF program[Now.func].ret THEN blocks
                 ELSE AddTerm(blocks, at, Ret(<<Now.func>>))
    /\ vars' = SubSeq(vars, 1, Len(vars) - 1)
    /\ bodies' = SubSeq(bodies, 1, Len(bodies) - 1)
    /\ at' = IF program[Now.func].template THEN Now.block ELSE at
    /\ agenda' = Rest
    /\ UNCHANGED <<loops, made, resolved, errors>>
    /\ Stays

\* The checks that a statement makes before it evaluates anything: the
\* name of a variable is new in its scope, other statements are in a body.
\* Behind a scope that was left open everything seems to be in a body.
Refused(s) ==
    \/ s.op = "var" /\ s.name \in DOMAIN vars[Len(vars)]
    \/ s.op = "func"
    \/ s.op \notin {"var", "func"} /\ InGlobalScope
    \/ /\ s.op = "ret" /\ ~InGlobalScope /\ bodies # <<>>
       /\ s.e = None /\ program[bodies[Len(bodies)]].ret

Refuse ==
    /\ AtHead("stmt") /\ Refused(Now.stmt)
    /\ Report(Now.at)
    /\ agenda' = Rest
    /\ UNCHANGED <<vars, loops, bodies, at, blocks, made, resolved>>
    /\ Stays

\* analyzeRet in no function: the type to return is on top of no types.
ReturnOutside ==
    /\ AtHead("stmt") /\ ~Refused(Now.stmt)
    /\ Now.stmt.op = "ret" /\ bodies = <<>>
    /\ Crash

Start ==
    /\ AtHead("stmt") /\ ~Refused(Now.stmt)
    /\ Now.stmt.op \in {"var", "expr", "ret", "if"}
    /\ Now.stmt.op = "ret" => bodies # <<>>
    /\ agenda' = <<[Now EXCEPT !.do = "finish"]>> \o Rest
    /\ UNCHANGED <<vars, loops, bodies, at, blocks, made, resolved, errors>>
    /\ Stays

Finish(op) == AtHead("finish") /\ Now.stmt.op = op /\ ~Pending(Now.stmt.e)

\* analyzeVarDef from its initialiser on.  A variable of the module goes to
\* the list of globals, any other to the insertion block, which is not
\* checked against null.
DefineVar ==
    LET new == [n \in DOMAIN vars[Len(vars)] \cup {Now.stmt.name} |->
                   IF n = Now.stmt.name THEN Now.at ELSE vars[Len(vars)][n]]
    IN  /\ Finish("var")
        /\ \/ /\ HasValue(Now.stmt.e) /\ ~InGlobalScope /\ at = Null
              /\ Crash
           \/ /\ ~HasValue(Now.stmt.e) \/ InGlobalScope \/ at # Null
              /\ Evaluate(Now.stmt.e, Now.at)
              /\ IF HasValue(Now.stmt.e)
                 THEN /\ vars' = [vars EXCEPT ![Len(vars)] = new]
                      /\ blocks' = IF InGlobalScope THEN blocks
                                   ELSE AddInst(blocks, at, Now.at)
                 ELSE UNCHANGED <<vars, blocks>>
              /\ agenda' = Rest
              /\ UNCHANGED <<loops, bodies, at, made>>
              /\ Stays

\* analyzeExprStmt: the statement is added even if the expression failed.
AddExprStmt ==
    /\ Finish("expr")
    /\ Evaluate(Now.stmt.e, Now.at)
    /\ blocks' = AddInst(blocks, at, Now.at)
    /\ agenda' = Rest
    /\ UNCHANGED <<vars, loops, bodies, at, made>>
    /\ Stays

\* analyzeRet from its expression on.  Nothing can be cast to noth.
Return ==
    LET valued == program[bodies[Len(bodies)]].ret
        ok == HasValue(Now.stmt.e) /\ (Now.stmt.e # None <=> valued)
    IN  /\ Finish("ret")
        /\ \/ ok /\ Evaluate(Now.stmt.e, Now.at)
           \/ ~ok /\ Report(Now.at) /\ UNCHANGED resolved
        /\ blocks' = IF ok THEN AddTerm(blocks, at, Ret(Now.at)) ELSE blocks
        /\ agenda' = Rest
        /\ UNCHANGED <<vars, loops, bodies, at, made>>
        /\ Stays

----------------------------------------------------------------------------
(* analyzeIfElseStmt.                                                      *)

IfFails ==
    /\ Finish("if") /\ ~HasValue(Now.stmt.e)
    /\ Evaluate(Now.stmt.e, Now.at)
    /\ agenda' = Rest
    /\ UNCHANGED <<vars, loops, bodies, at, blocks, made>>
    /\ Stays

\* The branch taken goes where the if stands, then the other is analysed
\* with no insertion block.
ConstantIf ==
    LET then == Parts(Now.at, 1, Now.stmt.then)
        else == Parts(Now.at, 2, Now.stmt.else)
        isTrue == Now.stmt.e.op = "true"
    IN  /\ Finish("if") /\ IsConstant(Now.stmt.e)
        /\ agenda' = Scoped(IF isTrue THEN then ELSE else)
                     \o <<[do |-> "mute", other |-> IF isTrue THEN else ELSE then]>>
                     \o Rest
        /\ UNCHANGED <<vars, loops, bodies, at, blocks, made, resolved, errors>>
        /\ Stays

\* A slip: the insertion block is not put back after the other branch.
MuteForever ==
    /\ AtHead("mute")
    /\ agenda' = Scoped(Now.other) \o Rest
    /\ at' = Null
    /\ UNCHANGED <<vars, loops, bodies, blocks, made, resolved, errors>>
    /\ Stays

Mute ==
    /\ AtHead("mute")
    /\ agenda' = Scoped(Now.other) \o MoveTo(at) \o Rest
    /\ at' = Null
    /\ UNCHANGED <<vars, loops, bodies, blocks, made, resolved, errors>>
    /\ Stays

\* The blocks then, else and merge, else only if there is such a branch.
RunTimeIf ==
    LET n == Len(blocks)
        f == blocks[at].func
        hasElse == Now.stmt.else # <<>>
        merge == IF hasElse THEN n + 3 ELSE n + 2
        new == [i \in 1..(merge - n) |-> NewBlock(f)]
        other == IF hasElse
                 THEN MoveTo(n + 2) \o Scoped(Parts(Now.at, 2, Now.stmt.else))
                      \o JumpTo(merge)
                 ELSE <<>>
    IN  /\ Finish("if") /\ HasValue(Now.stmt.e) /\ ~IsConstant(Now.stmt.e)
        /\ \/ at = Null /\ Crash
           \/ /\ at # Null
              /\ Evaluate(Now.stmt.e, Now.at)
              /\ blocks' = AddTerm(blocks, at, Fork(Now.at, n + 1, n + 2)) \o new
              /\ at' = n + 1
              /\ agenda' = Scoped(Parts(Now.at, 1, Now.stmt.then)) \o JumpTo(merge)
                           \o other \o MoveTo(merge) \o Rest
              /\ UNCHANGED <<vars, loops, bodies, made>>
              /\ Stays

----------------------------------------------------------------------------
(* analyzeForLoop: blocks n + 1 .. n + 5 are indexator, cond, iteration,   *)
(* body and merge.                                                         *)

EnterLoop ==
    LET n == Len(blocks)
        f == blocks[at].func
        before == Optional(Now.at, 1, Now.stmt.init) \o JumpTo(n + 2) \o MoveTo(n + 2)
        cond == <<[do |-> "loopCond", at |-> Now.at \o <<2, 1>>,
                   cond |-> Now.stmt.cond, merge |-> n + 5]>>
        round == MoveTo(n + 3) \o Optional(Now.at, 3, Now.stmt.iter) \o JumpTo(n + 2)
                 \o MoveTo(n + 4) \o Parts(Now.at, 4, Now.stmt.body) \o JumpTo(n + 3)
                 \o MoveTo(n + 5)
    IN  /\ AtHead("stmt") /\ ~Refused(Now.stmt) /\ Now.stmt.op = "for"
        /\ \/ at = Null /\ Crash
           \/ /\ at # Null
              /\ blocks' = AddTerm(blocks, at, Jump(n + 1))
                           \o [i \in 1..5 |-> NewBlock(f)]
              /\ vars' = Append(vars, <<>>)
              /\ loops' = Append(loops, [break |-> n + 5, continue |-> n + 3])
              /\ at' = n + 1
              /\ agenda' = before \o (cond \o round \o Item("closeLoop")) \o Rest
              /\ UNCHANGED <<bodies, made, resolved, errors>>
              /\ Stays

\* The condition, evaluated in block cond; body is before merge.  A failure
\* returns from the function and leaves its scope and its loop behind.
LoopCondition ==
    LET e == Now.cond
        ends == {k \in 1..Len(Rest) : Rest[k].do = "closeLoop"}
        end == CHOOSE k \in ends : \A j \in ends : k <= j
        branch == CASE e.op \in {"none", "true"} -> Jump(Now.merge - 1)
                    [] e.op = "false" -> Jump(Now.merge)
                    [] OTHER -> Fork(Now.at, Now.merge - 1, Now.merge)
    IN  /\ AtHead("loopCond") /\ ~Pending(e)
        /\ Evaluate(e, Now.at)
        /\ \/ /\ HasValue(e)
              /\ blocks' = AddTerm(blocks, at, branch)
              /\ agenda' = Rest
           \/ /\ ~HasValue(e)
              /\ agenda' = SubSeq(Rest, end + 1, Len(Rest))
              /\ UNCHANGED blocks
        /\ UNCHANGED <<vars, loops, bodies, at, made>>
        /\ Stays

\* A slip: the loop is closed but stays on the stack.
CloseLoopStays ==
    /\ AtHead("closeLoop")
    /\ vars' = SubSeq(vars, 1, Len(vars) - 1)
    /\ agenda' = Rest
    /\ UNCHANGED <<loops, bodies, at, blocks, made, resolved, errors>>
    /\ Stays

CloseLoop ==
    /\ AtHead("closeLoop")
    /\ loops' = SubSeq(loops, 1, Len(loops) - 1)
    /\ vars' = SubSeq(vars, 1, Len(vars) - 1)
    /\ agenda' = Rest
    /\ UNCHANGED <<bodies, at, blocks, made, resolved, errors>>
    /\ Stays

\* analyzeBreakContinue: a jump to the loop on top, if there is one.
BreakContinue ==
    LET top == loops[Len(loops)]
    IN  /\ AtHead("stmt") /\ ~Refused(Now.stmt)
        /\ Now.stmt.op \in {"break", "continue"}
        /\ \/ loops = <<>> /\ Crash
           \/ /\ loops # <<>>
              /\ blocks' = AddTerm(blocks, at,
                              Jump(IF Now.stmt.op = "break" THEN top.break
                                                            ELSE top.continue))
              /\ agenda' = Rest
              /\ UNCHANGED <<vars, loops, bodies, at, made, resolved, errors>>
              /\ Stays

\* The parts of the functions above that stand between two statements.
OpenScope ==
    /\ AtHead("openScope")
    /\ vars' = Append(vars, <<>>)
    /\ agenda' = Rest
    /\ UNCHANGED <<loops, bodies, at, blocks, made, resolved, errors>>
    /\ Stays

CloseScope ==
    /\ AtHead("closeScope")
    /\ vars' = SubSeq(vars, 1, Len(vars) - 1)
    /\ agenda' = Rest
    /\ UNCHANGED <<loops, bodies, at, blocks, made, resolved, errors>>
    /\ Stays

MoveOrJump ==
    /\ \/ AtHead("moveTo") /\ at' = Now.block /\ UNCHANGED blocks
       \/ /\ AtHead("jumpTo")
          /\ blocks' = AddTerm(blocks, at, Jump(Now.block))
          /\ UNCHANGED at
    /\ agenda' = Rest
    /\ UNCHANGED <<vars, loops, bodies, made, resolved, errors>>
    /\ Stays

----------------------------------------------------------------------------
(* DeadCodeEliminator and ReturnChecker, function by function, in Compile. *)

Succs(b) == IF blocks[b].term.op \in {"jump", "fork"}
            THEN {blocks[b].term.to[i] : i \in 1..Len(blocks[b].term.to)}
            ELSE {}

\* Functions are taken in the order of their numbers: the order of creation
\* matters to neither pass.
BlocksOf(f) == {b \in 1..Len(blocks) : blocks[b].func = f}
Entry(f) == CHOOSE b \in BlocksOf(f) : \A c \in BlocksOf(f) : b <= c

\* A slip: no block is dead.
ReachableAll(f) == BlocksOf(f)

Reachable(f) ==
    LET within[n \in 0..Len(blocks)] ==
            IF n = 0 THEN {Entry(f)}
            ELSE LET nearer == within[n - 1]
                 IN  nearer \cup UNION {Succs(b) : b \in nearer}
    IN  within[Len(blocks)]

Kept(f) == BlocksOf(f) \ removed

\* The end of Analyze; the bodies are linearised and the passes begin.
StartPasses ==
    /\ phase = "analyze" /\ agenda = <<>> /\ decl > Len(program)
    /\ phase' = "passes"
    /\ decl' = 1
    /\ UNCHANGED <<program, agenda, vars, loops, bodies, at, blocks, made,
                   resolved, errors, removed>>

RunOnFunction ==
    LET dead == IF BlocksOf(decl) = {} THEN {}
                ELSE BlocksOf(decl) \ Reachable(decl)
        open == {b \in BlocksOf(decl) \ dead : blocks[b].term = Open}
    IN  /\ phase = "passes" /\ decl <= Len(program)
        /\ removed' = removed \cup dead
        /\ errors' = IF open # {} /\ program[decl].ret
                     THEN errors \cup {<<decl>>} ELSE errors
        /\ decl' = decl + 1
        /\ UNCHANGED <<program, agenda, vars, loops, bodies, at, blocks, made,
                       resolved, phase>>

\* diag.HasErrors() after the passes.
Verdict ==
    /\ phase = "passes" /\ decl > Len(program)
    /\ phase' = IF errors = {} THEN "accepted" ELSE "refused"
    /\ UNCHANGED <<program, decl, agenda, vars, loops, bodies, at, blocks, made,
                   resolved, errors, removed>>

Next ==
    \/ Declare \/ Instantiate \/ EndBody
    \/ Refuse \/ ReturnOutside \/ Start \/ DefineVar \/ AddExprStmt \/ Return
    \/ IfFails \/ ConstantIf \/ Mute \/ RunTimeIf
    \/ EnterLoop \/ LoopCondition \/ CloseLoop \/ BreakContinue
    \/ OpenScope \/ CloseScope \/ MoveOrJump
    \/ StartPasses \/ RunOnFunction \/ Verdict

Spec == Init /\ [][Next]_state

----------------------------------------------------------------------------
\* Between declarations the scopes, loops and functions are back where they
\* were, and so they are at the end of every body, that of an instance made in
\* the middle of another body included, as long as nothing was reported.
StacksAreBalanced ==
    phase = "analyze" /\ errors = {} =>
        /\ agenda = <<>> => Len(vars) = 1 /\ loops = <<>> /\ bodies = <<>>
        /\ agenda # <<>> /\ Now.do = "endBody" =>
              /\ Len(vars) = Now.depth + 1
              /\ loops = Now.loops
              /\ bodies[Len(bodies)] = Now.func

\* No break or continue of a body stands outside of its loops.
Bodies == {program[f].body : f \in {g \in 1..Len(program) : program[g].op = "func"}}
BreaksAreInLoops == \A stmts \in Bodies : ~AnyOf(stmts, Loose)
DeadBranchesAreSimple == \A stmts \in Bodies : AllOf(stmts, Simple)

\* Control never leaves a function by a jump, whatever bodies are analysed in
\* the middle of others: code is generated function by function, and dead
\* code is looked for function by function.
JumpsStayInside ==
    errors = {} /\ BreaksAreInLoops /\ DeadBranchesAreSimple =>
        \A b \in 1..Len(blocks) : \A c \in Succs(b) : blocks[c].func = blocks[b].func

\* No block that is kept goes to one that was erased.
KeptJumpsLand ==
    errors = {} /\ BreaksAreInLoops /\ DeadBranchesAreSimple =>
        \A b \in 1..Len(blocks) \ removed : Succs(b) \cap removed = {}

\* The graph of a function is all that there is to it: no jump leaves it, and
\* what is erased from it is not jumped to.
GraphsAreClosed == JumpsStayInside /\ KeptJumpsLand

\* What was written stays: a block is neither moved to another function nor
\* loses an instruction, and after its terminator nothing is added.
Grown(bs, cs) ==
    /\ DOMAIN bs \subseteq DOMAIN cs
    /\ \A b \in DOMAIN bs :
        /\ cs[b].func = bs[b].func
        /\ SubSeq(cs[b].insts, 1, Len(bs[b].insts)) = bs[b].insts
        /\ bs[b].term # Open => cs[b] = bs[b]
BlocksGrow == [][Grown(blocks, blocks')]_state

\* The analysis runs into undefined behaviour only for a break outside of a
\* loop, for a dead branch of a constant if that needs a block, or after an
\* error: the scope that a failed condition of a loop leaves behind lets a
\* statement of the module pass for a local one, with no block to go to and no
\* function to return from.
CrashesAreKnown ==
    phase = "crashed" => errors # {} \/ ~BreaksAreInLoops \/ ~DeadBranchesAreSimple
=============================================================================
