------------------------------ MODULE Analysis ------------------------------
(* The analysis of a file: four passes over its declarations.  Imports come  *)
(* first, then structs, traits and externs in the order of the text, then    *)
(* the heads of functions and methods, then bodies and variables.            *)
(*                                                                           *)
(* A call of a template - a function with a parameter whose type is a trait  *)
(* - declares an instance and analyses its body in the middle of the body of *)
(* the caller, with all that Sema has on its stacks.                         *)
EXTENDS Declarations

CONSTANT Texts      \* the files that are analysed: sequences of declarations

VARIABLES
    text,           \* the file
    pass,           \* 1..4, 5 when all are done
    pos,            \* the next declaration of this pass
    sema            \* the tables, the stacks, the errors, and what was built
vars == <<text, pass, pos, sema>>

(* frames: for the functions whose bodies are being analysed, the type they  *)
(* return and the type whose methods they are.                               *)
Top(s) == s.frames[Len(s.frames)]
ModuleVars(s) == IF s.mod = Main THEN s.scopes[1] ELSE Library[s.mod].vars

(* getVariable: the innermost scope first, whoever opened it.                *)
Env(s) == FoldLeft(LAMBDA seen, scope : scope @@ seen, ModuleVars(s), s.scopes)

Entry(type, isConst, val, def) ==
    [type |-> type, isConst |-> isConst, data |-> val.data, bits |-> val.bits,
     as |-> val.as, exact |-> val.exact, def |-> def]
NoBase == "none"
Unknown(type) == Result("Unknown", type, 0, 0, type, FALSE)

(* An expression and all that it is made of.                                 *)
RECURSIVE Parts(_)
Parts(e) ==
    LET below == CASE e.kind = "binary" -> <<e.lhs, e.rhs>>
                   [] e.kind = "unary" -> <<e.rhs>>
                   [] e.kind = "cast" -> <<e.expr>>
                   [] e.kind = "ternary" -> <<e.cond, e.yes, e.no>>
                   [] e.kind = "call" -> e.args
                   [] OTHER -> <<>>
    IN <<e>> \o FlattenSeq([i \in 1..Len(below) |-> Parts(below[i])])

(* An expression without calls.                                              *)
Simple(s, e, expected) == analyzeExpr(e, expected, Env(s), Implemented(s, s.mod), TRUE)

RECURSIVE analyzeStmt(_, _, _)

-----------------------------------------------------------------------------
(* Bodies.                                                                   *)

(* opened is pushed before the body and taken off behind it; base is None in *)
(* a function, which leaves what This is as it was.                          *)
analyzeBody(s, cand, f, head, def, base) ==
    LET args == head.args
        params == [i \in 1..Len(args) |->
                    args[i].name :> Entry(args[i].type, FALSE, Unknown(args[i].type), def \o <<0>>)]
        this == IF base = None \/ f.static THEN <<>>
                ELSE << "this" :> Entry(<<"*">> \o base, FALSE, Unknown(<<"*">> \o base), def \o <<0>>) >>
        scope == FoldLeft(LAMBDA a, b : a @@ b, << >>, this \o params)
        opened == [s EXCEPT !.cands[cand].bodies = Append(@, def),
                            !.scopes = Append(@, scope),
                            !.frames = Append(@, [ret |-> head.ret,
                                inside |-> IF base = None THEN Top(s).inside ELSE base])]
        read == FoldLeft(LAMBDA r, k : analyzeStmt(r, f.body[k], Append(def, k)),
                         opened, [k \in 1..Len(f.body) |-> k])
    IN [read EXCEPT !.scopes = Front(@), !.frames = Front(@)]

(* Mutant: the types are not looked at.                                      *)
SameNames(c, def, args) ==
    [i \in 1..Len(c.args) |-> c.args[i].name] = [i \in 1..Len(args) |-> args[i].name]

(* The same parameters: those of the definition itself, or of one that reads *)
(* the same.                                                                 *)
SameArguments(c, def, args) ==
    /\ [i \in 1..Len(c.args) |-> c.args[i].name] = [i \in 1..Len(args) |-> args[i].name]
    /\ SameTypes(c.args, args) \/ (c.def = def /\ c.args = args)

(* The head of a definition, with its types as far as they were resolved.    *)
Written(f) == [args |-> f.args, ret |-> f.ret]
HeadOf(s, f, def) == IF def \in DOMAIN s.sigs THEN s.sigs[def] ELSE Written(f)

(* The last candidate that matches is taken, and null is not tested.         *)
analyzeFuncDef(s, f, head, def) ==
    LET list == Candidates(s, None, s.mod, f.name)
        same == SelectSeq(list, LAMBDA i : SameArguments(s.cands[i], def, head.args))
    IN CASE ~f.hasBody \/ list = <<>> -> s
         [] f.hasBody /\ list # <<>> /\ same = <<>> -> ReportAll(s, {Crash}, def)
         [] OTHER -> IF s.cands[Last(same)].generic THEN s
                     ELSE analyzeBody(s, Last(same), f, head, def, None)

(* The first one.                                                            *)
analyzeImplMethodDef(s, base, f, head, def) ==
    LET list == Candidates(s, base, OwnTable(base, s.mod), f.name)
        same == SelectSeq(list, LAMBDA i : SameArguments(s.cands[i], def, head.args))
    IN CASE ~f.hasBody \/ list = <<>> -> s
         [] f.hasBody /\ list # <<>> /\ same = <<>> -> ReportAll(s, {Crash}, def)
         [] OTHER -> IF s.cands[Head(same)].generic THEN s
                     ELSE analyzeBody(s, Head(same), f, head, def, base)

(* Mutant: This stays what it was in the impl.                               *)
ThisIsNotRestored(s, d, def) ==
    LET target == resolveType(s, s.this, d.type)
    IN [ReportAll(s, target.errs, def) EXCEPT !.this = <<"aka">> \o target.type]

analyzeImplStmt(s, d, def) ==
    LET target == resolveType(s, s.this, d.type)
        opened == [ReportAll(s, target.errs, def) EXCEPT !.this = <<"aka">> \o target.type]
        Each(r, k) == analyzeImplMethodDef(r, target.type, d.methods[k],
                                           HeadOf(r, d.methods[k], def \o <<k>>), def \o <<k>>)
    IN [FoldLeft(Each, opened, [k \in 1..Len(d.methods) |-> k]) EXCEPT !.this = s.this]

-----------------------------------------------------------------------------
(* Calls.                                                                    *)

Params(s, list) == [c \in 1..Len(list) |-> ArgTypes(s.cands[list[c]])]

(* resolveBestOverload, of the candidates with these numbers: the number of  *)
(* one, NoMatch or Ambiguous.                                                *)
Best(s, list, argTypes) ==
    LET c == resolveBestOverload(Params(s, list), argTypes, Implemented(s, s.mod))
    IN IF c > 0 THEN list[c] ELSE c
ResolveErrors(best) == CASE best = NoMatch -> {"ENoMatchingFunction"}
                         [] best = Ambiguous -> {"ECallIsAmbiguous"}
                         [] OTHER -> {}

(* generateGenericFunc and generateGenericMethod: declared and analysed      *)
(* under the module of the template, with the scopes of the caller.          *)
InstanceBody(s, c, f) ==
    IF c.base = None THEN analyzeFuncDef(s, f, Written(f), c.def)
    ELSE analyzeImplMethodDef(s, c.base, f, Written(f), c.def)
Instance(s, cand, argTypes) ==
    LET c == s.cands[cand]
        args == [i \in 1..Len(c.args) |-> [name |-> c.args[i].name,
                    type |-> CanonicalType(IF IsTrait(c.args[i].type) THEN argTypes[i]
                                           ELSE c.args[i].type)]]
        f == [c.ast EXCEPT !.args = args, !.ret = c.ret, !.static = c.static]
    IN [InstanceBody(Declare([s EXCEPT !.mod = c.mod], c.base, f, c.def, "instance"), c, f)
            EXCEPT !.mod = s.mod]

Argument(a) == [ok |-> a.ok, type |-> a.type, errs |-> a.errs]

(* Mutant: the arguments are not read again.                                 *)
PassedUnread(s, c, cand, n) == [i \in 1..n |-> Argument(Simple(s, c.args[i], None))]

(* What an argument becomes when it is read a second time, now with the type *)
(* of its parameter.  The parameters are those of the arguments that had a   *)
(* value, the arguments are the first ones that were written.                *)
Passed(s, c, cand, n) ==
    [i \in 1..n |-> Argument(Simple(s, c.args[i], s.cands[cand].args[i].type))]

(* Mutant: the template is taken for its instance.                           *)
NotChosenAgain(s, cand, argTypes) == cand

(* After a template was chosen the call is resolved again, in the map that   *)
(* the instance has joined; null and the template itself are not expected.   *)
ChosenAgain(s, cand, argTypes) ==
    LET c == s.cands[cand]
    IN IF c.generic THEN Best(s, Candidates(s, c.base, c.table, c.name), argTypes) ELSE cand

(* The call of r.cands[again], as which cand was taken.                      *)
CallTo(s, r, c, callee, passed, expected, at) ==
    LET done == [r EXCEPT !.calls = @ \cup {[at |-> at, def |-> callee.def, written |-> Len(c.args),
                                params |-> ArgTypes(callee), passed |-> passed]}]
        val == implicitlyCast(Unknown(callee.ret), expected, Implemented(s, s.mod))
    IN [s |-> ReportAll(done, val.errs \cup UNION {a.errs : a \in Range(passed)}, at), val |-> val]

CallAgain(s, r, c, again, argTypes, expected, at) ==
    LET Nothing(errs) == [s |-> ReportAll(r, errs, at), val |-> Failed({})]
    IN CASE again <= 0 -> Nothing(ResolveErrors(again) \cup {Crash})
         [] again > 0 /\ r.cands[again].generic -> Nothing({Crash})
         [] OTHER -> CallTo(s, r, c, r.cands[again], Passed(r, c, again, Len(argTypes)), expected, at)

(* The end of analyzeFuncCall and analyzeMethodCall: cand was chosen for the *)
(* arguments that have a value.                                              *)
CallIn(s, r, c, cand, argTypes, expected, at) ==
    CallAgain(s, r, c, ChosenAgain(r, cand, argTypes), argTypes, expected, at)
Call(s, c, cand, argTypes, expected, at) ==
    CallIn(s, IF s.cands[cand].generic THEN Instance(s, cand, argTypes) ELSE s,
           c, cand, argTypes, expected, at)

(* The candidate that a call takes among those of a list, before any         *)
(* instance is made for it, and all that reading its arguments reported.     *)
(* picks keeps what was found, and what would be without the instances.      *)
Picked(s, list, best, plain, argTypes, at) ==
    LET Def(i) == IF i > 0 THEN s.cands[i].def ELSE <<i>>
        pick == [at |-> at, taken |-> Def(best), meant |-> Def(plain), args |-> argTypes,
                 instances |-> {ArgTypes(s.cands[i]) : i \in {j \in Range(list) : s.cands[j].instance}}]
    IN [s |-> [ReportAll(s, ResolveErrors(best), at) EXCEPT !.picks = @ \cup {pick}],
        best |-> best, types |-> argTypes]
Pick(s, list, argTypes, at) ==
    Picked(s, list, Best(s, list, argTypes),
           Best(s, SelectSeq(list, LAMBDA i : ~s.cands[i].instance), argTypes), argTypes, at)
PickFor(s, list, first, at) ==
    Pick(ReportAll(s, UNION {first[i].errs : i \in DOMAIN first}, at), list,
         LET ok == SelectSeq(first, LAMBDA a : a.ok) IN [i \in 1..Len(ok) |-> ok[i].type], at)
Arguments(s, c, list, at) == PickFor(s, list, [i \in 1..Len(c.args) |-> Simple(s, c.args[i], None)], at)

canAccessMethod(m, onType, private) ==
    CASE m.static /\ ~onType -> {"ECannotAccessStaticMemberFromInstance"}
      [] ~m.static /\ onType -> {"ECannotAccessNonStaticMemberFromType"}
      [] m.static = onType /\ ~m.pub /\ ~private -> {"ECannotAccessToPrivMember"}
      [] OTHER -> {}

(* What stands before the dot: nothing, a variable, a type or a module.  The *)
(* pointers of a type are left out.                                          *)
Before(s, c) ==
    LET env == Env(s)
        key == <<s.mod, c.base>>
        Function(mod) == [kind |-> "func", mod |-> mod]
        Method(base, isType) ==
            [kind |-> "method", isType |-> isType,
             target |-> SelectSeq(base, LAMBDA part : part \notin {"*", "aka"})]
    IN CASE c.base = NoBase -> Function(s.mod)
         [] c.base \in DOMAIN env -> Method(env[c.base].type, FALSE)
         [] c.base = "This" /\ s.this # None -> Method(s.this, TRUE)
         [] key \in DOMAIN s.structs -> Method(<<"struct">> \o key, TRUE)
         [] c.base \in s.imports -> Function(c.base)
         [] OTHER -> [kind |-> "none"]

(* analyzeFuncCall reports that a function is private and goes on, while     *)
(* analyzeMethodCall ends.                                                   *)
CallPicked(s, c, p, on, expected, at) ==
    LET m == s.cands[p.best]
        denied == CASE on.kind = "method" ->
                           canAccessMethod(m, on.isType, Top(s).inside = on.target
                                                         /\ (on.isType \/ c.base = "this"))
                    [] on.kind = "func" /\ s.mod # on.mod /\ ~m.pub -> {"ECannotAccessToPrivMember"}
                    [] OTHER -> {}
    IN CASE p.best <= 0 -> [s |-> p.s, val |-> Failed({})]
         [] p.best > 0 /\ on.kind = "method" /\ denied # {} ->
                [s |-> ReportAll(p.s, denied, at), val |-> Failed({})]
         [] OTHER -> Call(ReportAll(p.s, denied, at), c, p.best, p.types, expected, at)

CallAmong(s, c, on, list, expected, at) ==
    LET Nothing(code) == [s |-> Report(s, code, at), val |-> Failed({})]
    IN CASE on.kind = "none" -> Nothing("EUndefined")
         [] on.kind = "method" /\ IsIncomplete(s, on.target) -> Nothing("EIncompleteType")
         [] OTHER -> IF list = <<>>
                     THEN Nothing(IF on.kind = "func" THEN "ECannotFindFunction" ELSE "EUndefined")
                     ELSE CallPicked(s, c, Arguments(s, c, list, at), on, expected, at)

CallOn(s, c, on, expected, at) ==
    CallAmong(s, c, on, CASE on.kind = "func" -> Candidates(s, None, on.mod, c.name)
                          [] on.kind = "method" ->
                                 Candidates(s, on.target, Table(on.target, s.mod), c.name)
                          [] OTHER -> <<>>, expected, at)
analyzeCall(s, c, expected, at) == CallOn(s, c, Before(s, c), expected, at)

(* A literal looks at the type before it is resolved, all others after.      *)
Evaluated(s, val, at) == [s |-> ReportAll(s, val.errs, at), val |-> val]
Value(s, e, expected, at) ==
    LET type == resolveType(s, s.this, expected).type
    IN IF e.kind = "call" THEN analyzeCall(s, e, type, at)
       ELSE Evaluated(s, Simple(s, e, IF e.kind = "lit" THEN expected ELSE type), at)

-----------------------------------------------------------------------------
(* Statements.                                                               *)

(* r: the value of the expression in the statement, if there is one.        *)
Defined(s, v, def, declared, r) ==
    LET given == v.init # NoInit
        type == IF v.type # None THEN declared ELSE r.val.type
        refused == CASE given /\ v.isConst /\ r.val.kind # "Const" -> "ENotAConst"
                     [] type = Noth -> "EVarCannotHaveTypeNoth"
                     [] IsTrait(type) -> "ECannotUseTraitForVar"
                     [] OTHER -> "none"
        val == IF given THEN r.val ELSE Literal(type, 0, FALSE)
    IN CASE given /\ ~r.val.ok -> r.s
         [] ~given /\ v.type = None -> Report(s, "ECannotInferType", def)
         [] OTHER -> IF refused # "none" THEN Report(r.s, refused, def)
                     ELSE [r.s EXCEPT !.scopes[Len(s.scopes)] =
                                            (v.name :> Entry(type, v.isConst, val, def)) @@ @,
                                      !.built = @ \cup {[at |-> def, type |-> type,
                                                         val |-> IF given THEN val.type ELSE type]}]
analyzeVarDef(s, v, def, r) ==
    LET declared == resolveType(s, s.this, v.type)
    IN CASE v.name \in DOMAIN s.scopes[Len(s.scopes)] -> Report(s, "ERedefinition", def)
         [] v.name \notin DOMAIN s.scopes[Len(s.scopes)] /\ IsIncomplete(s, declared.type) ->
                Report(s, "EIncompleteType", def)
         [] OTHER -> Defined(s, v, def, declared.type,
                             IF v.init = NoInit THEN [s |-> ReportAll(s, declared.errs, def)] ELSE r)

analyzeRet(s, d, def, r) ==
    LET type == Top(s).ret
    IN CASE d.expr = NoInit /\ type = Noth -> s
         [] d.expr = NoInit /\ type # Noth -> Report(s, "ECannotCast", def)
         [] OTHER -> IF ~r.val.ok THEN r.s
                     ELSE [r.s EXCEPT !.built = @ \cup {[at |-> def, type |-> type,
                                                          val |-> r.val.type]}]

analyzeEvaluated(s, d, def, r) ==
    CASE d.kind = "var" -> analyzeVarDef(s, d, def, r)
      [] d.kind = "ret" -> analyzeRet(s, d, def, r)
      [] d.kind = "expr" -> r.s
ExprOf(d) == CASE d.kind = "var" -> d.init [] d.kind \in {"ret", "expr"} -> d.expr [] OTHER -> NoInit
Expected(s, d) == CASE d.kind = "var" -> d.type [] d.kind = "ret" -> Top(s).ret [] OTHER -> None
TypeErrors(s, d) == IF d.kind = "var" THEN resolveType(s, s.this, d.type).errs ELSE {}

Allowed(s, d) ==
    d.kind \notin IF Len(s.scopes) > 1 THEN {"func", "extern"} ELSE {"ret", "expr"}

analyzeAllowed(s, d, def) ==
    CASE d.kind \in {"var", "ret", "expr"} ->
             analyzeEvaluated(s, d, def, Value(ReportAll(s, TypeErrors(s, d), def), ExprOf(d),
                                               Expected(s, d), def))
      [] d.kind = "impl" -> analyzeImplStmt(s, d, def)
      [] d.kind = "func" -> analyzeFuncDef(s, d, HeadOf(s, d, def), def)
      [] d.kind = "extern" -> analyzeExternStmt(s, d, def)
      [] OTHER -> s
analyzeStmt(s, d, def) ==
    CASE s.crashed -> s
      [] ~s.crashed /\ ~Allowed(s, d) -> Report(s, "ENotAllowedInThisScope", def)
      [] OTHER -> analyzeAllowed(s, d, def)

-----------------------------------------------------------------------------
(* Sema::Analyze, one declaration at a time.                                 *)

Libraries == SetToSeq(DOMAIN Library)
Fresh ==
    LET All(field) == UNION {Library[m][field] : m \in DOMAIN Library}
        Merged(field) == FoldLeft(LAMBDA f, m : f @@ Library[m][field], << >>, Libraries)
    IN [cands |-> FlattenSeq([i \in 1..Len(Libraries) |-> Library[Libraries[i]].cands]),
        structs |-> Merged("structs"), traits |-> Merged("traits"), impls |-> All("impls"),
        imports |-> {}, scopes |-> << << >> >>, mod |-> Main, this |-> None,
        frames |-> << [ret |-> None, inside |-> None] >>, sigs |-> << >>,
        built |-> {}, calls |-> {}, picks |-> {}, errors |-> {}, crashed |-> FALSE]

Init ==
    /\ text \in Texts
    /\ pass = 1
    /\ pos = 1
    /\ sema = Fresh

(* The next declaration of the pass, read by Handler if it is one of kinds.  *)
Read(n, kinds, Handler(_, _, _)) ==
    /\ pass = n
    /\ pos <= Len(text)
    /\ ~sema.crashed
    /\ sema' = IF text[pos].kind \in kinds THEN Handler(sema, text[pos], <<pos>>) ELSE sema
    /\ pos' = pos + 1
    /\ UNCHANGED <<text, pass>>

analyzeType(s, d, def) ==
    CASE d.kind = "struct" -> analyzeStructDef(s, d, def)
      [] d.kind = "trait" -> analyzeTraitStmt(s, d, def)
      [] d.kind = "extern" -> analyzeExternStmt(s, d, def)
declareHead(s, d, def) ==
    IF d.kind = "func" THEN Declare(s, None, d, def, "none") ELSE declareImplMethods(s, d, def)

ReadImport == Read(1, {"import"}, analyzeImportStmt)
ReadType == Read(2, {"struct", "trait", "extern"}, analyzeType)
ReadHead == Read(3, {"func", "impl"}, declareHead)
ReadBody == Read(4, {"func", "impl", "var", "ret", "expr"}, analyzeStmt)

NextPass ==
    /\ pass \in 1..4
    /\ pos > Len(text)
    /\ ~sema.crashed
    /\ pass' = pass + 1
    /\ pos' = 1
    /\ UNCHANGED <<text, sema>>

Next == ReadImport \/ ReadType \/ ReadHead \/ ReadBody \/ NextPass
Spec == Init /\ [][Next]_vars

-----------------------------------------------------------------------------
(* What the properties speak of.                                             *)

Accepted == pass = 5 /\ ~sema.crashed /\ sema.errors = {}

(* The statements of the text with their places, those of bodies and impls   *)
(* included.                                                                 *)
RECURSIVE Statements(_, _)
Statements(d, at) ==
    LET inner == CASE d.kind = "func" -> d.body [] d.kind = "impl" -> d.methods [] OTHER -> <<>>
    IN << [at |-> at, stmt |-> d] >>
       \o FlattenSeq([k \in 1..Len(inner) |-> Statements(inner[k], Append(at, k))])
AllStatements == Range(FlattenSeq([i \in 1..Len(text) |-> Statements(text[i], <<i>>)]))
AllExprs == UNION {Range(Parts(ExprOf(x.stmt))) : x \in AllStatements}

(* Of the file itself, with a body of its own.                               *)
Own(c) == c.def[1] > 0 /\ ~c.generic /\ ~c.extern /\ c.table # "trait"
Twin(c, d) ==
    /\ c.base = d.base /\ c.table = d.table /\ c.name = d.name
    /\ SameTypes(c.args, d.args)
Twinned(i) == \E j \in DOMAIN sema.cands \ {i} : Twin(sema.cands[i], sema.cands[j])

(* An impl in a body is not declared, but its methods are analysed.          *)
NestedImpl == \E x \in AllStatements : x.stmt.kind = "impl" /\ Len(x.at) > 1

(* A literal without a type that does not fit where it stands is dropped     *)
(* without an error.                                                         *)
LiteralsFit ==
    \A e \in {x \in AllExprs : x.kind = "lit"} :
        e.type = None =>
            \A t \in {I32} \cup {x.stmt.type : x \in {y \in AllStatements : y.stmt.kind = "var"}}
                            \cup {x.stmt.ret : x \in {y \in AllStatements : y.stmt.kind = "func"}} :
                IsIntOrSize(t) => canFit(e.num, t)

(* A cast keeps its own type, and so do the bits of two constants.           *)
RECURSIVE TypeIgnored(_)
TypeIgnored(e) ==
    CASE e.kind = "binary" -> e.op \in BitwiseOps
      [] e.kind = "ternary" -> TypeIgnored(e.yes) \/ TypeIgnored(e.no)
      [] OTHER -> e.kind = "cast"

(* Constants that are folded as they would be computed: no word leaves the   *)
(* range of its type, also not on the way to the common type of two          *)
(* operands, and none is cast to bool or char.                               *)
WordsFit ==
    LET Known(e) == analyzeExpr(e, None, sema.scopes[1], {}, TRUE)
        Fits(v, type) == v.ok /\ v.exact /\ IsIntOrSize(type) => canFit(v.data, type)
    IN \A e \in AllExprs :
        /\ Fits(Known(e), Known(e).type)
        /\ e.kind = "cast" => e.type \notin {Bool, Char}
        /\ e.kind = "binary" =>
            LET common == getCommonType(Known(e.lhs).type, Known(e.rhs).type)
            IN Fits(Known(e.lhs), common) /\ Fits(Known(e.rhs), common)

(* Two folds that are not guarded: of bits of sizes, and by -1.              *)
UnguardedFold ==
    \E e \in {x \in AllExprs : x.kind = "binary"} :
        LET Known(x) == analyzeExpr(x, None, sema.scopes[1], {}, TRUE)
        IN \/ e.op \in BitwiseOps /\ (IsSize(Known(e.lhs).type) \/ IsSize(Known(e.rhs).type))
           \/ e.op \in {"/", "%"} /\ Known(e.rhs).data = -1

(* The variables, if nothing is a constant.                                  *)
Reference ==
    FoldLeft(LAMBDA env, d : LET v == analyzeExpr(d.init, d.type, env, {}, FALSE)
                             IN (d.name :> Entry(v.type, d.isConst, v, <<>>)) @@ env,
             << >>, text)

(* The names of the generated code.                                          *)
RECURSIVE MangleType(_)
MangleType(t) ==
    CASE IsPointer(t) -> <<"P">> \o MangleType(Tail(t))
      [] IsStruct(t) -> <<"S", Last(t)>>
      [] IsSize(t) -> <<"z">>
      [] Outermost(t) = "aka" -> MangleType(Tail(t))
      [] Outermost(t) \in {"trait", "named", "traitThis"} -> <<>>
      [] OTHER -> t
\* Mutant: the parameters are not in the name.
MangleNothing(types) == <<>>
MangleTypes(types) == FlattenSeq([i \in 1..Len(types) |-> MangleType(types[i])])
Mangled(c) ==
    CASE c.extern -> <<c.name>>
      [] ~c.extern /\ c.base = None -> <<"_VF", c.mod, c.name>> \o MangleTypes(ArgTypes(c))
      [] OTHER -> <<"_VM">> \o c.base \o <<c.name>>
                  \o (IF c.static THEN <<>> ELSE MangleType(<<"*">> \o c.base))
                  \o MangleTypes(ArgTypes(c))

(* A struct is named without its module.                                     *)
OfTwoModules(c, d) ==
    \E i \in DOMAIN c.args \cap DOMAIN d.args :
        c.args[i].type # d.args[i].type
        /\ MangleType(c.args[i].type) = MangleType(d.args[i].type)

-----------------------------------------------------------------------------
(* Properties.                                                               *)

(* Between two declarations only the scope of the module is open, in the     *)
(* module of the file, and no name stands for the type of an impl.           *)
TypeOK ==
    /\ text \in Texts
    /\ pass \in 1..5
    /\ pos \in 1..(Len(text) + 1)
    /\ Len(sema.scopes) = 1 /\ Len(sema.frames) = 1
    /\ sema.mod = Main /\ sema.this = None

(* getFunction, getMethod: in a file that is accepted no two functions or    *)
(* methods can be taken for each other, unless the types of the second were  *)
(* written as names - they are compared before they are resolved.            *)
DuplicatesAreFound ==
    Accepted =>
        \A i, j \in DOMAIN sema.cands :
            LET c == sema.cands[i]
                d == sema.cands[j]
            IN i < j /\ Own(c) /\ Own(d) /\ Twin(c, d) =>
                \E k \in DOMAIN d.ast.args : "named" \in Range(d.ast.args[k].type)

(* analyzeFuncDef and analyzeImplMethodDef look for the function of a body   *)
(* by its parameters: in a file that is accepted each function has exactly   *)
(* the body of its definition, an instance that of its template.             *)
BodiesAreTheirOwn ==
    Accepted /\ ~NestedImpl =>
        \A i \in DOMAIN sema.cands :
            LET c == sema.cands[i]
            IN (Own(c) \/ c.instance) /\ ~Twinned(i) => c.bodies = <<c.def>>

(* The null pointer, an exception or a trap ends the analysis of a file that *)
(* had no error so far only by an impl in a body or by two folds.            *)
CrashesAreKnown ==
    sema.crashed => sema.errors # {} \/ NestedImpl \/ UnguardedFold

(* A result without a value is passed over in silence: in a file that is     *)
(* accepted every variable and every return of a body that was analysed is   *)
(* in the code, and every call has all its arguments.                        *)
NothingIsLost ==
    Accepted /\ LiteralsFit =>
        /\ \A x \in AllStatements :
            x.stmt.kind = "var" \/ (x.stmt.kind = "ret" /\ x.stmt.expr # NoInit) =>
                \/ \E b \in sema.built : b.at = x.at
                \/ ~\E c \in Range(sema.cands) : Front(x.at) \in {<<>>} \cup Range(c.bodies)
        /\ \A c \in sema.calls : Len(c.passed) = c.written

(* In a file that is accepted a variable is given, a return returns and a    *)
(* parameter is passed a value of its own type.                              *)
ValuesHaveTheirType ==
    Accepted /\ (\A e \in AllExprs : ~TypeIgnored(e)) =>
        /\ \A b \in sema.built : SameType(b.type, b.val)
        /\ \A c \in sema.calls : \A i \in DOMAIN c.passed :
            c.passed[i].ok /\ SameType(c.passed[i].type, c.params[i])

(* resolveBestOverload: an instance that was made for an earlier call does   *)
(* not change what a call means, unless its arguments can be cast to those   *)
(* of the instance.                                                          *)
CallsMeanTheSame ==
    \A p \in sema.picks :
        \/ p.taken = p.meant
        \/ \E params \in p.instances :
            /\ params # p.args /\ Len(params) = Len(p.args)
            /\ \A i \in DOMAIN params : canImplicitCast(p.args[i], params[i], Implemented(sema, Main))

(* Mangler: no two functions of an accepted file with a body have one name   *)
(* in the generated code, twins apart, structs of two modules and a static   *)
(* method that is passed what a method gets as this.                         *)
NamesAreDistinct ==
    Accepted =>
        LET built == {i \in DOMAIN sema.cands : sema.cands[i].bodies # <<>>}
        IN \A i, j \in built :
            LET c == sema.cands[i]
                d == sema.cands[j]
            IN i < j /\ Mangled(c) = Mangled(d) =>
                Twin(c, d) \/ OfTwoModules(c, d) \/ c.static # d.static

(* foldBinary, foldUnary and the casts of constants: folding does not change *)
(* the value of a variable, as long as the words hold what the types hold.   *)
FoldingIsInvisible ==
    Accepted /\ (\A d \in Range(text) : d.kind = "var") /\ WordsFit =>
        \A n \in DOMAIN sema.scopes[1] :
            LET folded == sema.scopes[1][n]
                plain == Reference[n]
            IN folded.exact /\ plain.exact /\ folded.as = folded.type /\ plain.as = folded.type =>
                folded.bits = plain.bits /\ Encode(folded.data, folded.type) = plain.bits
=============================================================================
