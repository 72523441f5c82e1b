---------------------------- MODULE Declarations ----------------------------
(* What a file declares: imports, structs, traits, externs, the heads of     *)
(* functions and methods.  Every operator takes what Sema and the symbols of *)
(* the modules hold, s, and returns what they hold after it.                 *)
EXTENDS Constants

CONSTANT Library    \* modules that can be imported: cands, structs, traits, impls, vars

Main == "main"
NoInit == [kind |-> "none"]

ArgTypes(f) == [i \in 1..Len(f.args) |-> f.args[i].type]

(* What Sema knows.  cands holds the functions and methods of all tables in  *)
(* the order in which they were put there: base is the type of a method,     *)
(* table the module or kind of symbol whose map it is in, def its place in   *)
(* the text, bodies the definitions that were analysed into its node.        *)
Candidates(s, base, table, name) ==
    SelectSeq([i \in 1..Len(s.cands) |-> i],
              LAMBDA i : /\ s.cands[i].base = base
                         /\ s.cands[i].table = table
                         /\ s.cands[i].name = name)
Table(base, m) == CASE IsStruct(base) -> "struct" [] IsTrait(base) -> "trait" [] OTHER -> m
OwnTable(base, m) == IF IsStruct(base) THEN "struct" ELSE m     \* of what an impl declares

Implemented(s, m) == {<<i.type, i.trait>> : i \in {j \in s.impls : j.table \in {"struct", m}}}

(* Nothing is reported after a crash.                                        *)
ReportAll(s, codes, at) ==
    IF s.crashed THEN s
    ELSE [s EXCEPT !.errors = @ \cup {<<c, at>> : c \in codes \ {Crash}},
                   !.crashed = Crash \in codes]
Report(s, code, at) == ReportAll(s, {code}, at)

-----------------------------------------------------------------------------
(* Types by name.  A name that is not found leaves the type as it is.        *)

Lookup(s, this, path) ==
    LET mod == IF Len(path) = 2 THEN path[1] ELSE s.mod
        key == <<mod, path[Len(path)]>>
        Private(pub) == IF mod # s.mod /\ ~pub THEN {"ECannotAccessToPrivMember"} ELSE {}
    IN CASE path = <<"This">> /\ this # None -> [type |-> this, errs |-> {}]
         [] Len(path) = 2 /\ mod \notin s.imports ->
                [type |-> <<"named">> \o path, errs |-> {"ECannotFindMod"}]
         [] key \in DOMAIN s.structs ->
                [type |-> <<"struct">> \o key, errs |-> Private(s.structs[key].pub)]
         [] key \in DOMAIN s.traits ->
                [type |-> <<"trait">> \o key, errs |-> Private(s.traits[key].pub)]
         [] OTHER -> [type |-> <<"named">> \o path, errs |-> {"ECannotFindType"}]

RECURSIVE resolveType(_, _, _)
resolveType(s, this, t) ==
    CASE IsPointer(t) -> LET base == resolveType(s, this, Tail(t))
                         IN [base EXCEPT !.type = <<"*">> \o @]
      [] Outermost(t) = "named" -> Lookup(s, this, Tail(t))
      [] OTHER -> [type |-> t, errs |-> {}]

IsIncomplete(s, t) ==
    LET c == CanonicalType(t) IN IsStruct(c) /\ ~s.structs[Tail(c)].complete

(* The head of a function, as declareFunc, declareImplMethod and             *)
(* analyzeExternFuncDef read it.  args are left resolved as far as the       *)
(* reading got.                                                              *)
Signature(s, f) ==
    LET ret == resolveType(s, s.this, f.ret)
        args == [i \in 1..Len(f.args) |-> resolveType(s, s.this, f.args[i].type)]
        incomplete == {i \in 1..Len(args) : IsIncomplete(s, args[i].type)}
        read == IF IsIncomplete(s, ret.type) THEN 0
                ELSE IF incomplete = {} THEN Len(args)
                ELSE CHOOSE i \in incomplete : \A j \in incomplete : i <= j
        refused == CASE IsIncomplete(s, ret.type) \/ incomplete # {} -> {"EIncompleteType"}
                     [] IsTrait(ret.type) -> {"ECannotUseTraitForFunc"}
                     [] OTHER -> {}
    IN [ret |-> ret.type,
        args |-> [i \in 1..Len(args) |-> [name |-> f.args[i].name,
                        type |-> IF i <= read THEN args[i].type ELSE f.args[i].type]],
        generic |-> \E i \in 1..Len(args) : IsTrait(args[i].type),
        refused |-> refused # {},
        errs |-> ret.errs \cup refused \cup UNION {args[i].errs : i \in 1..read}]

SameTypes(params, args) ==
    /\ Len(params) = Len(args)
    /\ \A i \in 1..Len(args) : SameType(params[i].type, args[i].type)

(* Mutant: only a function whose parameters have the same names is a         *)
(* duplicate.                                                                *)
DuplicateByNames(s, base, table, f) ==
    \E c \in Range(Candidates(s, base, table, f.name)) : s.cands[c].args = f.args

(* getFunction and getMethod: is there a candidate with the same types?      *)
getFunction(s, base, table, f) ==
    \E c \in Range(Candidates(s, base, table, f.name)) : SameTypes(s.cands[c].args, f.args)

AddCandidate(s, base, table, f, def, sig, mark) ==
    [s EXCEPT !.cands = Append(@,
        [base |-> base, table |-> table, name |-> f.name, args |-> sig.args, ret |-> sig.ret,
         static |-> f.static, pub |-> f.pub, generic |-> sig.generic, extern |-> mark = "extern",
         instance |-> mark = "instance", mod |-> s.mod, def |-> def, ast |-> f, bodies |-> <<>>])]

-----------------------------------------------------------------------------
(* Heads.                                                                    *)

(* declareFunc (base = None) and declareImplMethod resolve the types of a    *)
(* definition in place: sigs keeps the heads that were read.  mark is        *)
(* "instance" for what a call makes of a template; that is a definition of   *)
(* its own, and the head of the template stays as it is.                     *)
Declare(s, base, f, def, mark) ==
    LET sig == Signature(s, f)
        t == IF mark = "instance" THEN s
             ELSE [s EXCEPT !.sigs = (def :> [args |-> sig.args, ret |-> sig.ret]) @@ @]
    IN CASE ~f.hasBody -> Report(s, "EFuncOutsideTraitMustHaveBody", def)
         [] f.hasBody /\ getFunction(s, base, Table(base, s.mod), f) ->
                Report(s, "ERedefinition", def)
         [] OTHER -> ReportAll(IF sig.refused THEN t
                               ELSE AddCandidate(t, base, OwnTable(base, s.mod), f, def, sig, mark),
                               sig.errs, def)

analyzeExternFuncDef(s, f, def) ==
    LET sig == Signature(s, f)
    IN IF f.hasBody THEN Report(s, "EExternFuncCannotHaveBody", def)
       ELSE ReportAll(IF sig.refused THEN s
                      ELSE AddCandidate(s, None, s.mod, f, def, sig, "extern"), sig.errs, def)

analyzeExternGlobalVar(s, v, def) ==
    LET t == resolveType(s, s.this, v.type)
        r == ReportAll(s, t.errs, def)
        entry == [type |-> t.type, isConst |-> v.isConst, data |-> 0, bits |-> 0,
                  as |-> t.type, exact |-> FALSE, def |-> def]
    IN CASE v.init # NoInit -> Report(s, "ECannotInitExternVar", def)
         [] v.init = NoInit /\ v.type = None -> Report(s, "EExternVarMustHaveType", def)
         [] OTHER -> IF IsIncomplete(s, t.type) THEN Report(r, "EIncompleteType", def)
                     ELSE [r EXCEPT !.scopes[1] = @ @@ (v.name :> entry)]

analyzeExternStructDef(s, d, def) ==
    IF d.hasBody THEN Report(s, "EExternStructCannotHaveBody", def)
    ELSE [s EXCEPT !.structs = @ @@ (<<Main, d.name>> :>
                [complete |-> FALSE, fields |-> <<>>, pub |-> FALSE])]

analyzeExternStmt(s, d, def) ==
    LET Each(r, k) ==
            LET x == d.body[k] IN
            CASE x.kind = "var" -> analyzeExternGlobalVar(r, x, def \o <<k>>)
              [] x.kind = "func" -> analyzeExternFuncDef(r, x, def \o <<k>>)
              [] x.kind = "struct" -> analyzeExternStructDef(r, x, def \o <<k>>)
              [] OTHER -> Report(r, "EStmtAreNotAllowedInExtern", def \o <<k>>)
    IN IF ~d.abi THEN Report(s, "EUnsupportedAbi", def)
       ELSE FoldLeft(Each, s, [k \in 1..Len(d.body) |-> k])

analyzeStructDef(s, d, def) ==
    LET key == <<Main, d.name>>
        Each(r, k) ==
            LET x == d.fields[k]
                t == resolveType(r, r.this, x.type)
                q == ReportAll(r, t.errs, def \o <<k>>)
            IN CASE \E y \in Range(r.structs[key].fields) : y.name = x.name ->
                        Report(r, "ERedefinition", def \o <<k>>)
                 [] t.type = <<"struct">> \o key -> Report(q, "ERecursiveType", def \o <<k>>)
                 [] IsTrait(t.type) -> Report(q, "ECannotUseTraitForVar", def \o <<k>>)
                 [] OTHER -> [q EXCEPT !.structs[key].fields =
                                Append(@, [name |-> x.name, type |-> t.type])]
        added == [s EXCEPT !.structs = @ @@ (key :>
                    [complete |-> TRUE, fields |-> <<>>, pub |-> FALSE])]
    IN CASE ~d.hasBody -> Report(s, "EStructsOutsideExternBlockMustHaveBody", def)
         [] d.hasBody /\ key \in DOMAIN s.structs -> Report(s, "ERedefinition", def)
         [] OTHER -> FoldLeft(Each, added, [k \in 1..Len(d.fields) |-> k])

(* The methods of a trait are put into its table when all have been read.    *)
analyzeTraitStmt(s, d, def) ==
    LET key == <<Main, d.name>>
        base == <<"trait">> \o key
        added == [s EXCEPT !.traits = @ @@ (key :> [pub |-> FALSE])]
        Each(r, k) ==
            LET f == d.methods[k]
                this == <<"traitThis">> \o key
                ret == resolveType(added, this, f.ret)
                args == [i \in 1..Len(f.args) |-> resolveType(added, this, f.args[i].type)]
                sig == [ret |-> ret.type,
                        args |-> [i \in 1..Len(args) |-> [name |-> f.args[i].name,
                                                          type |-> args[i].type]],
                        generic |-> \E i \in 1..Len(args) : IsTrait(args[i].type)]
            IN CASE getFunction(added, base, "trait", f) ->
                        Report(r, "ERedefinition", def \o <<k>>)
                 [] f.hasBody -> Report(r, "ETraitMethodsCannotHaveBody", def \o <<k>>)
                 [] OTHER -> AddCandidate(
                        ReportAll(r, ret.errs \cup UNION {args[i].errs : i \in DOMAIN args},
                                  def \o <<k>>),
                        base, "trait", f, def \o <<k>>, sig, "none")
    IN IF key \in DOMAIN s.traits THEN Report(s, "ERedefinition", def)
       ELSE FoldLeft(Each, added, [k \in 1..Len(d.methods) |-> k])

-----------------------------------------------------------------------------
(* The heads of an impl, and whether they are what the trait asks for.       *)

checkMethodSignature(s, want, have, target) ==
    LET w == s.cands[want]
        h == s.cands[have]
    IN /\ w.static = h.static
       /\ Len(w.args) = Len(h.args)
       /\ \A i \in 1..Len(w.args) : compareTypesWithThis(w.args[i].type, h.args[i].type, target)
       /\ compareTypesWithThis(w.ret, h.ret, target)

ImplementsTrait(s, target, trait, def) ==
    LET Have(name) == Range(Candidates(s, target, OwnTable(target, s.mod), name))
        wanted == {i \in 1..Len(s.cands) : s.cands[i].base = trait /\ s.cands[i].table = "trait"}
        absent == {i \in wanted : Have(s.cands[i].name) = {}}
        unlike == {i \in wanted \ absent : \A j \in Have(s.cands[i].name) :
                                        ~checkMethodSignature(s, i, j, target)}
    IN ReportAll(s, {"EStructDoesNotImplementedMethod" : i \in absent}
                        \cup {"EMethodSignatureMismatch" : i \in unlike}, def)

declareImplMethods(s, d, def) ==
    LET target == resolveType(s, s.this, d.type)
        trait == resolveType(s, s.this, d.trait)
        r == ReportAll(s, target.errs \cup trait.errs, def)
        named == d.trait # None
        opened == [r EXCEPT !.this = <<"aka">> \o target.type,
                            !.impls = IF named THEN @ \cup {[type |-> target.type,
                                            trait |-> trait.type,
                                            table |-> OwnTable(target.type, s.mod)]} ELSE @]
        Each(q, k) == Declare(q, target.type, d.methods[k], def \o <<k>>, "none")
        closed == [FoldLeft(Each, opened, [k \in 1..Len(d.methods) |-> k]) EXCEPT !.this = s.this]
    IN CASE named /\ ~IsTrait(trait.type) -> Report(r, "ECannotImplNonTraitForType", def)
         [] named /\ IsTrait(trait.type) -> ImplementsTrait(closed, target.type, trait.type, def)
         [] ~named -> closed

-----------------------------------------------------------------------------
(* The methods of primitive types are copied into the table of the importing *)
(* module, and so handed on by it; templates are not.                        *)
analyzeImportStmt(s, d, def) ==
    LET copied == SelectSeq(s.cands, LAMBDA c : /\ c.table = d.mod /\ c.base # None
                                                /\ ~c.generic)
    IN IF d.mod \notin DOMAIN Library THEN Report(s, "EModNotFound", def)
       ELSE [s EXCEPT !.imports = @ \cup {d.mod},
                      !.cands = @ \o [i \in 1..Len(copied) |-> [copied[i] EXCEPT !.table = s.mod]],
                      !.impls = @ \cup {[i EXCEPT !.table = s.mod] :
                                            i \in {j \in s.impls : j.table = d.mod}}]
=============================================================================
