------------------------------- MODULE Parser -------------------------------
(* Parser: the tokens of a file to its syntax tree, by recursive descent,    *)
(* with the recovery that follows an error.                                  *)
(*                                                                           *)
(* Every parsing function is an operator from a state of the parser to a     *)
(* state of the parser, with the name it has in the code.  A state holds     *)
(* the position of _curTok, the tokens at which errors were reported, and    *)
(* in "res" what the function returned: a node, Null for a null pointer or   *)
(* false, Ok for true.  A node is a tuple that begins with its kind.         *)
EXTENDS Lexer

CONSTANTS
    Files,      \* the trees that files are written for
    Texts(_)    \* the texts that a file may have, each with its tree if it is right

VARIABLES
    text,       \* the file
    meant,      \* the tree it was written for: {}, or {a sequence of statements}
    toks,       \* its tokens
    deps,       \* the imports that the driver found in it
    p,          \* the state of the parser
    nodes,      \* the statements parsed so far
    hasErrors   \* ParseResult.HasErrors

vars == <<text, meant, toks, deps, p, nodes, hasErrors>>

Null == <<>>
Ok == <<"ok">>

Kind(i) == IF i \in DOMAIN toks THEN toks[i].kind ELSE "eof"
Type(i) == IF i \in DOMAIN toks THEN toks[i].type ELSE <<>>
Val(i) == IF i \in DOMAIN toks THEN toks[i].val ELSE <<>>
Cur(q) == Kind(q.at)
LastTok(q) == Kind(q.at - 1)
isAtEnd(q) == Cur(q) = "eof"

advance(q) == [q EXCEPT !.at = @ + 1]
Keep(q, r) == [q EXCEPT !.res = r]

(* Go on with what was parsed, unless it is null.                           *)
Then(q, r) == IF q.res = Null THEN q ELSE r

(* A null pointer is dereferenced: nothing is parsed any more.              *)
Crash(q) == [q EXCEPT !.crashed = TRUE, !.res = Null, !.at = Len(toks) + 1]

-----------------------------------------------------------------------------
(* Recovery.                                                                *)

StmtStarts ==
    {"let", "const", "func", "return", "if", "else", "for", "break", "continue",
     "struct", "pub", "impl", "trait", "mod", "import", "static"}

(* Mutant: a statement's first word does not end the recovery.              *)
OnlyPunctuationSynchronizes(q) == LastTok(q) \in {";", "}", ")"}

isSynchronizationToken(q) == Cur(q) \in StmtStarts \/ LastTok(q) \in {";", "}", ")"}

RECURSIVE SynchronizeOn(_)
SynchronizeOn(q) ==
    IF isAtEnd(q) \/ isSynchronizationToken(q) THEN q ELSE SynchronizeOn(advance(q))
synchronize(q) == IF isSynchronizationToken(q) THEN q ELSE SynchronizeOn(advance(q))

(* An error at token i, which may have been taken already.                  *)
Fail(q, i) == Keep(synchronize([q EXCEPT !.errs = @ \cup {<<i, q.at > i>>}]), Null)

(* Mutant: the recovery is left out.                                        *)
MissingTokIsMadeUp(q, kind) == IF Cur(q) = kind THEN Keep(advance(q), Ok) ELSE Keep(q, Ok)

expectTok(q, kind) == IF Cur(q) = kind THEN Keep(advance(q), Ok) ELSE Fail(q, q.at)

(* The token is taken before it is looked at.                               *)
expectName(q) ==
    IF Cur(q) = "id" THEN Keep(advance(q), <<"name", Val(q.at)>>) ELSE Fail(advance(q), q.at)

checkTrailingSemi(q, expect) ==
    LET e == expectTok(q, ";")
    IN  Then(q, IF expect THEN Then(e, Keep(e, q.res)) ELSE q)

-----------------------------------------------------------------------------
(* Types.  A pointer to what is no type is a pointer.                       *)

PrimitiveTypes == {"bool", "i32"}

RECURSIVE TypePath(_, _)
TypePath(q, path) ==
    LET n == expectName(advance(q))
    IN  IF Cur(q) = "." THEN Then(n, TypePath(n, Append(path, n.res[2])))
        ELSE Keep(q, <<"named", path>>)

RECURSIVE consumeType(_)
consumeType(q) ==
    LET tok == Cur(q)
        r   == advance(q)
    IN  CASE tok \in PrimitiveTypes -> Keep(r, <<tok>>)
          [] tok = "id" -> TypePath(r, <<Val(q.at)>>)
          [] tok = "*" -> LET t == consumeType(r) IN Keep(t, <<"ptr", t.res>>)
          [] OTHER -> Fail(r, q.at)

-----------------------------------------------------------------------------
(* The parts of a phrase, one after the other: what they gave, or null with *)
(* the first that is null.                                                   *)

RECURSIVE parseExpr(_, _, _), parseArguments(_), parseStmt(_, _), parseBlock(_)
RECURSIVE Sized(_), StmtOrBlock(_), Fields(_, _), MethodsInto(_, _), Part(_, _), PartsFrom(_, _, _)

Lowest == 0
Unary == 12
None == <<"none">>
Optional(q, kind, r, none) == IF Cur(q) = kind THEN r ELSE Keep(q, none)
Maybe(r) == Keep(r, <<"maybe", r.res>>)

FieldsIn(q) == Then(q, Fields(q, <<>>))
Step(q) == Then(q, Maybe(parseStmt(q, FALSE)))

(* An optional part begins with a token; a part in brackets may be null.    *)
Part(q, part) ==
    LET r == advance(q)
    IN  CASE part = "name" -> expectName(q)
          [] part = "type" -> consumeType(q)
          [] part = "expr" -> parseExpr(q, Lowest, TRUE)
          [] part = "sized" -> Sized(q)
          [] part = "stmt;" -> parseStmt(q, TRUE)
          [] part = "block" -> parseBlock(q)
          [] part = "arguments" -> parseArguments(q)
          [] part = "fields" -> IF Cur(q) = ";" THEN Keep(r, None) ELSE FieldsIn(expectTok(q, "{"))
          [] part = "methods" -> MethodsInto(q, <<>>)
          [] part = ": type" -> Optional(q, ":", consumeType(r), None)
          [] part = "return type" -> Optional(q, ":", consumeType(r), <<"noth">>)
          [] part = "body" -> IF Cur(q) = ";" THEN Keep(r, None) ELSE parseBlock(q)
          [] part = "= expr" -> Optional(q, "=", Part(r, "expr"), None)
          [] part = "else block" -> Optional(q, "else", StmtOrBlock(r), None)
          [] part = "none" -> Maybe(Keep(q, None))
          [] part = "[condition]" -> Maybe(parseExpr(q, Lowest, FALSE))
          [] part = "step" -> IF Cur(q) = "{" THEN Part(q, "none") ELSE Step(expectTok(q, ","))
          [] part = "[stmt]" -> Maybe(parseStmt(q, FALSE))
          [] OTHER -> expectTok(q, part)

WithPart(r, rest, got) == Then(r, PartsFrom(r, rest, Append(got, r.res)))
PartsFrom(q, parts, got) ==
    IF parts = <<>> THEN Keep(q, got)
    ELSE WithPart(Part(q, Head(parts)), Tail(parts), got)
Parts(q, parts) == PartsFrom(q, parts, <<>>)

-----------------------------------------------------------------------------
(* Expressions.                                                             *)

AsgnOps == {"=", "+=", "-=", "*=", "/=", "%=", "&=", "|=", "^="}

(* Mutant: two rows of the table swapped.                                   *)
BitAndBindsTighter(kind) ==
    CASE kind \in AsgnOps -> 1
      [] kind = "?" -> 2
      [] kind = "||" -> 3
      [] kind = "&&" -> 4
      [] kind = "|" -> 5
      [] kind = "^" -> 6
      [] kind \in {"==", "!="} -> 7
      [] kind = "&" -> 8
      [] kind \in {">", ">=", "<", "<="} -> 9
      [] kind \in {"+", "-"} -> 10
      [] kind \in {"*", "/", "%"} -> 11
      [] kind = "." -> 13
      [] OTHER -> Lowest

GetTokPrecedence(kind) ==
    CASE kind \in AsgnOps -> 1
      [] kind = "?" -> 2
      [] kind = "||" -> 3
      [] kind = "&&" -> 4
      [] kind = "|" -> 5
      [] kind = "^" -> 6
      [] kind = "&" -> 7
      [] kind \in {"==", "!="} -> 8
      [] kind \in {">", ">=", "<", "<="} -> 9
      [] kind \in {"+", "-"} -> 10
      [] kind \in {"*", "/", "%"} -> 11
      [] kind = "." -> 13
      [] OTHER -> Lowest

RECURSIVE ExprRest(_, _, _), Chain(_, _, _), parsePrimaryExpr(_, _)
RECURSIVE ArgumentsForCall(_, _, _), FieldsForInstance(_, _, _)

WithRest(lhs, minPrec, allowStruct) == Then(lhs, ExprRest(lhs, minPrec, allowStruct))
parseExpr(q, minPrec, allowStruct) ==
    WithRest(parsePrimaryExpr(q, allowStruct), minPrec, allowStruct)

parseArgumentsForCall(q) == ArgumentsForCall(q, <<>>, TRUE)
ArgumentsForCall(q, args, first) ==
    LET start == IF first THEN Keep(q, Ok) ELSE expectTok(q, ",")
        e == parseExpr(start, Lowest, TRUE)
    IN  CASE isAtEnd(q) -> Keep(q, <<"args", args>>)
          [] Cur(q) = ")" -> Keep(advance(q), <<"args", args>>)
          [] Cur(q) \notin {"eof", ")"} /\ start.res = Null -> Keep(start, <<"args", args>>)
          [] OTHER -> ArgumentsForCall(e, IF e.res = Null THEN args ELSE Append(args, e.res),
                                       FALSE)

parseFieldForInstance(q) ==
    LET s == Parts(q, <<"name", ":", "expr">>)
    IN  Then(s, Keep(s, <<s.res[1][2], s.res[3]>>))

parseFieldsForInstance(q) == FieldsForInstance(q, <<>>, TRUE)
FieldsForInstance(q, fields, first) ==
    LET start == IF first THEN Keep(q, Ok) ELSE expectTok(q, ",")
        f == Then(start, parseFieldForInstance(start))
    IN  CASE isAtEnd(q) -> Keep(q, <<"fields", fields>>)
          [] Cur(q) = "}" -> Keep(advance(q), <<"fields", fields>>)
          [] Cur(q) \notin {"eof", "}"} /\ f.res = Null -> Keep(f, <<"fields", fields>>)
          [] OTHER -> FieldsForInstance(f, Append(fields, f.res), FALSE)

(* Mutant: the type is used before it is looked at.                         *)
TypeIsNotChecked(q, base) ==
    LET t == consumeType(q)
        e == expectTok(t, ")")
    IN  IF base = Null \/ t.res = Null THEN Crash(e) ELSE Keep(e, <<"Cast", t.res, base>>)

parseCastOperator(q, base) ==
    LET s == Parts(q, <<"type", ")">>)
    IN  Then(s, IF base = Null THEN Crash(s) ELSE Keep(s, <<"Cast", s.res[1], base>>))

parseTernary(q, cond) ==
    LET s == Parts(q, <<"expr", ":", "expr">>)
    IN  Then(s, Keep(s, <<"Ternary", cond, s.res[1], s.res[3]>>))

(* The members and casts behind q.res, which a cast that failed leaves null *)
(* without ending the chain.  path collects every name on the way.           *)
OnBase(r, base, node, path, allowStruct) ==
    IF base = Null THEN Crash(r) ELSE Chain(Keep(r, node), path, allowStruct)
AsMember(n, base, path, allowStruct) ==
    LET fields == parseFieldsForInstance(advance(n))
        args == parseArgumentsForCall(advance(n))
    IN  CASE allowStruct /\ Cur(n) = "{" -> Keep(fields, <<"Instance", path, fields.res[2]>>)
          [] Cur(n) = "(" ->
                 OnBase(args, base, <<"Method", base, n.res[2], args.res[2]>>, path, allowStruct)
          [] OTHER -> OnBase(n, base, <<"Field", base, n.res[2]>>, path, allowStruct)
MemberOf(n, base, path, allowStruct) ==
    Then(n, AsMember(n, base, Append(path, n.res[2]), allowStruct))
Chain(q, path, allowStruct) ==
    CASE Cur(q) # "." -> q
      [] Cur(q) = "." /\ Cur(advance(q)) = "(" ->
             Chain(parseCastOperator(advance(advance(q)), q.res), path, allowStruct)
      [] OTHER -> MemberOf(expectName(advance(q)), q.res, path, allowStruct)

parseChain(q, allowStruct) ==
    Chain(q, IF q.res[1] = "Var" THEN <<q.res[2]>> ELSE <<>>, allowStruct)

(* The operators behind the operand q.res.                                  *)
Infix(q, prec, allowStruct) ==
    LET op  == Cur(q)
        asgn == op \in AsgnOps
        rhs == parseExpr(advance(q), IF asgn THEN prec - 1 ELSE prec, allowStruct)
    IN  CASE op = "?" -> parseTernary(advance(q), q.res)
          [] op = "." -> parseChain(q, allowStruct)
          [] OTHER -> Then(rhs, Keep(rhs, <<IF asgn THEN "Asgn" ELSE "Bin", op, q.res, rhs.res>>))
ExprRest(q, minPrec, allowStruct) ==
    LET prec == GetTokPrecedence(Cur(q))
    IN  IF minPrec >= prec THEN q
        ELSE WithRest(Infix(q, prec, allowStruct), minPrec, allowStruct)

Sized(o) ==
    LET t == consumeType(o) IN IF Cur(o) = "*" THEN Keep(t, <<"Type", t.res>>) ELSE Part(o, "expr")
parseSizeof(q) ==
    LET s == Parts(q, <<"(", "sized", ")">>) IN Then(s, Keep(s, <<"Sizeof", s.res[2]>>))

(* The operand of -, ! and ~ may be null; that of * and & is checked.       *)
parsePrimaryExpr(q, allowStruct) ==
    LET tok == Cur(q)
        r   == advance(q)
        operand == parseExpr(r, Unary, allowStruct)
    IN  CASE tok \in PrimitiveTypes ->
                 LET t == consumeType(q) IN Keep(t, <<"Type", t.res>>)
          [] tok \in {"lit", "strlit"} -> Keep(r, <<"Lit", Val(q.at), Type(q.at)>>)
          [] tok = "(" ->
                 LET s == Parts(r, <<"expr", ")">>) IN Then(s, Keep(s, s.res[1]))
          [] tok \in {"-", "!", "~"} -> Keep(operand, <<"Unary", tok, operand.res>>)
          [] tok \in {"*", "&"} -> Then(operand, Keep(operand, <<"Unary", tok, operand.res>>))
          [] tok = "id" /\ allowStruct /\ Cur(r) = "{" ->
                 LET f == parseFieldsForInstance(advance(r))
                 IN  Keep(f, <<"Instance", <<Val(q.at)>>, f.res[2]>>)
          [] tok = "id" /\ Cur(r) = "(" ->
                 LET a == parseArgumentsForCall(advance(r))
                 IN  Keep(a, <<"Call", Val(q.at), a.res[2]>>)
          [] tok = "id" /\ Cur(r) # "(" /\ ~(allowStruct /\ Cur(r) = "{") ->
                 Keep(r, <<"Var", Val(q.at)>>)
          [] tok = "nil" -> Keep(r, <<"Nil">>)
          [] tok = "sizeof" -> parseSizeof(r)
          [] OTHER -> Fail(r, q.at)

-----------------------------------------------------------------------------
(* Statements.                                                              *)

RECURSIVE parseStmtsIntoBlock(_, _), Arguments(_, _, _)

parseStmtsIntoBlock(q, body) ==
    LET s == parseStmt(q, TRUE)
    IN  CASE isAtEnd(q) -> Keep(q, <<"block", body>>)
          [] Cur(q) = "}" -> Keep(advance(q), <<"block", body>>)
          [] OTHER -> parseStmtsIntoBlock(s, IF s.res = Null THEN body ELSE Append(body, s.res))

parseBlock(q) ==
    LET o == expectTok(q, "{") IN Then(o, parseStmtsIntoBlock(o, <<>>))

(* One statement in braces or without.                                      *)
StmtOrBlock(q) ==
    LET s == parseStmt(q, TRUE)
    IN  IF Cur(q) = "{" THEN parseStmtsIntoBlock(advance(q), <<>>)
        ELSE Keep(s, <<"block", IF s.res = Null THEN <<>> ELSE <<s.res>> >>)

parseVarDef(q, access) ==
    LET s == Parts(advance(q), <<"name", ": type", "= expr">>)
    IN  Then(s, Keep(s, <<"VarDef", Cur(q), access, s.res[1][2], s.res[2], s.res[3]>>))

parseArgument(q) ==
    LET s == Parts(q, <<"name", ":", "type">>) IN Then(s, Keep(s, <<s.res[1][2], s.res[3]>>))

parseArguments(q) == Arguments(q, <<>>, TRUE)
Arguments(q, args, first) ==
    LET start == IF first THEN Keep(q, Ok) ELSE expectTok(q, ",")
        a == Then(start, parseArgument(start))
    IN  CASE isAtEnd(q) -> Keep(q, <<"args", args>>)
          [] Cur(q) = ")" -> Keep(advance(q), <<"args", args>>)
          [] Cur(q) \notin {"eof", ")"} /\ a.res = Null -> Keep(a, <<"args", args>>)
          [] OTHER -> Arguments(a, Append(args, a.res), FALSE)

(* Takes whatever token is first: the caller has seen that it is "func".    *)
parseFuncDef(q, access) ==
    LET s == Parts(advance(q), <<"name", "(", "arguments", "return type", "body">>)
    IN  Then(s, Keep(s, <<"Func", access, s.res[1][2], s.res[3][2], s.res[4], s.res[5]>>))

parseRet(q) ==
    LET r == advance(q)
        e == IF Cur(r) = ";" THEN Keep(r, None) ELSE Part(r, "expr")
    IN  Then(e, Keep(e, <<"Return", e.res>>))

(* The condition may be null; the statement is made all the same.           *)
parseIfElse(q) ==
    LET s == Parts(advance(q), <<"[condition]", "block", "else block">>)
    IN  Then(s, Keep(s, <<"If", s.res[1][2], s.res[2], s.res[3]>>))

(* So may the three parts of a loop.                                        *)
parseForLoop(q) ==
    LET o == advance(q)
        s == CASE Cur(o) = "{" -> Parts(o, <<"none", "none", "none", "none", "block">>)
               [] Cur(o) = "let" -> Parts(o, <<"[stmt]", ",", "[condition]", "step", "block">>)
               [] OTHER -> Parts(o, <<"none", "none", "[condition]", "step", "block">>)
    IN  Then(s, Keep(s, <<"For", s.res[1][2], s.res[3][2], s.res[4][2], s.res[5]>>))

parseField(q) ==
    LET access == Cur(q) = "pub"
        q1 == IF access THEN advance(q) ELSE q
        static == Cur(q1) = "static"
        q2 == IF static THEN advance(q1) ELSE q1
        const == Cur(q2) = "const"
        q3 == IF const THEN advance(q2) ELSE q2
        s == Parts(q3, <<"name", ":", "type", ";">>)
    IN  Then(s, Keep(s, <<access, static, const, s.res[1][2], s.res[3]>>))

Fields(q, fields) ==
    LET f == parseField(q)
    IN  CASE isAtEnd(q) -> Keep(q, <<"fields", fields>>)
          [] Cur(q) = "}" -> Keep(advance(q), <<"fields", fields>>)
          [] Cur(q) \notin {"eof", "}"} /\ f.res = Null -> Keep(f, <<"fields", fields>>)
          [] OTHER -> Fields(f, Append(fields, f.res))

parseStructDef(q, access) ==
    LET s == Parts(advance(q), <<"name", "fields">>)
    IN  Then(s, Keep(s, <<"Struct", access, s.res[1][2], s.res[2]>>))

(* The methods of an impl block or a trait.                                 *)
MethodsInto(q, methods) ==
    LET access == Cur(q) = "pub"
        q1 == IF access THEN advance(q) ELSE q
        static == Cur(q1) = "static"
        q2 == IF static THEN advance(q1) ELSE q1
        f == parseFuncDef(q2, access)
    IN  CASE isAtEnd(q) -> Keep(q, <<"methods", methods>>)
          [] Cur(q) = "}" -> Keep(advance(q), <<"methods", methods>>)
          [] OTHER -> MethodsInto(f, IF f.res = Null THEN methods
                                     ELSE Append(methods, <<static, f.res>>))

(* The first type is that of the impl, or the trait if "for" follows it; one *)
(* that is null ends the statement before "for" is looked at.                *)
ImplFor(type, trait) ==
    LET s == Parts(type, <<"{", "methods">>)
    IN  Then(type, Then(s, Keep(s, <<"Impl", type.res, trait, s.res[2][2]>>)))
parseImplStmt(q) ==
    LET first == consumeType(advance(q))
    IN  Then(first, IF Cur(first) = "for"
                    THEN ImplFor(consumeType(advance(first)), first.res)
                    ELSE ImplFor(first, None))

parseTraitStmt(q, access) ==
    LET s == Parts(advance(q), <<"name", "{", "methods">>)
    IN  Then(s, Keep(s, <<"Trait", access, s.res[1][2], s.res[3][2]>>))

parseExternStmt(q) ==
    LET named == Cur(advance(q)) = "strlit"
        body == StmtOrBlock(IF named THEN advance(advance(q)) ELSE advance(q))
    IN  Keep(body, <<"Extern", IF named THEN Val(q.at + 1) ELSE <<>>, body.res>>)

RECURSIVE ImportPath(_, _)
ImportPath(q, path) ==
    LET n == expectName(advance(q))
    IN  IF Cur(q) = "." THEN Then(n, ImportPath(n, Append(path, n.res[2])))
        ELSE Keep(q, <<"Import", path>>)
parseImportStmt(q) ==
    LET n == expectName(advance(q)) IN Then(n, ImportPath(n, <<n.res[2]>>))

parseStmt(q0, semi) ==
    LET access == Cur(q0) = "pub"
        q   == IF access THEN advance(q0) ELSE q0
        tok == Cur(q)
    IN  CASE isAtEnd(q0) -> Keep(q0, Null)
          [] tok \in {"let", "const"} -> checkTrailingSemi(parseVarDef(q, access), semi)
          [] tok = "func" -> parseFuncDef(q, access)
          [] tok = "return" -> checkTrailingSemi(parseRet(q), semi)
          [] tok = "if" -> parseIfElse(q)
          [] tok = "for" -> parseForLoop(q)
          [] tok \in {"break", "continue"} ->
                 checkTrailingSemi(Keep(advance(q), <<tok>>), semi)
          [] tok = "struct" -> parseStructDef(q, access)
          [] tok = "impl" -> parseImplStmt(q)
          [] tok = "trait" -> parseTraitStmt(q, access)
          [] tok = "extern" -> parseExternStmt(q)
          [] tok = "import" -> checkTrailingSemi(parseImportStmt(q), semi)
          [] OTHER ->
                 LET e == Part(q, "expr")
                 IN  checkTrailingSemi(Then(e, Keep(e, <<"Expr", e.res>>)), semi)

-----------------------------------------------------------------------------
(* A file: the driver looks for its imports, and later it is parsed, one    *)
(* statement of the file after the other.                                    *)

Start == [at |-> 1, errs |-> {}, res |-> Null, crashed |-> FALSE]

Init ==
    /\ \E f \in Files : \E t \in Texts(f) : text = t.text /\ meant = t.meant
    /\ toks = Tokens(text)
    /\ deps = {}
    /\ p = Start
    /\ nodes = <<>>
    /\ hasErrors = FALSE

ResolveDeps ==
    /\ deps = {}
    /\ deps' = {Deps(text)}
    /\ UNCHANGED <<text, meant, toks, p, nodes, hasErrors>>

BackUp ==
    /\ deps # {}
    /\ ~isAtEnd(p)
    /\ \E s \in {Part(p, "stmt;")} :
           /\ p' = [Keep(s, Null) EXCEPT !.at = IF s.res = Null THEN p.at ELSE @]
           /\ nodes' = IF s.res = Null THEN nodes ELSE Append(nodes, s.res)
           /\ hasErrors' = (hasErrors \/ s.res = Null)
    /\ UNCHANGED <<text, meant, toks, deps>>

ParseNext ==
    /\ deps # {}
    /\ ~isAtEnd(p)
    /\ \E s \in {Part(p, "stmt;")} :
           /\ p' = Keep(s, Null)
           /\ nodes' = IF s.res = Null THEN nodes ELSE Append(nodes, s.res)
           /\ hasErrors' = (hasErrors \/ s.res = Null)
    /\ UNCHANGED <<text, meant, toks, deps>>

Next == ResolveDeps \/ ParseNext

Spec == Init /\ [][Next]_vars

=============================================================================
