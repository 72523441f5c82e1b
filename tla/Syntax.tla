------------------------------- MODULE Syntax -------------------------------
(* What the text of a tree is, and the properties of Parser: a file that    *)
(* was written for a tree yields the tree; what is accepted is what the     *)
(* tree says; errors stay where they are.                                    *)
EXTENDS Parser

RECURSIVE ConcatFrom(_, _)
ConcatFrom(ss, i) == IF i > Len(ss) THEN <<>> ELSE ss[i] \o ConcatFrom(ss, i + 1)
Concat(ss) == LET whole == ss \o <<>> IN ConcatFrom(whole, 1)
Separated(ss, sep) ==
    LET whole == ss \o <<>>
    IN  ConcatFrom([i \in DOMAIN whole |-> IF i = 1 THEN whole[i] ELSE sep \o whole[i]] \o <<>>, 1)

(* Compound operators by their characters.                                  *)
Spelling ==
    [op \in {"+=", "-=", "*=", "/=", "%=", "&=", "|=", "^=", "==", "!=", ">=", "<=", "&&",
             "||"} |->
        CASE op = "+=" -> <<"+", "=">> [] op = "-=" -> <<"-", "=">>
          [] op = "*=" -> <<"*", "=">> [] op = "/=" -> <<"/", "=">>
          [] op = "%=" -> <<"%", "=">> [] op = "&=" -> <<"&", "=">>
          [] op = "|=" -> <<"|", "=">> [] op = "^=" -> <<"^", "=">>
          [] op = "==" -> <<"=", "=">> [] op = "!=" -> <<"!", "=">>
          [] op = ">=" -> <<">", "=">> [] op = "<=" -> <<"<", "=">>
          [] op = "&&" -> <<"&", "&">> [] op = "||" -> <<"|", "|">>]

(* A written tree is a sequence of tokens, each a sequence of characters; of *)
(* a part that an error left null nothing is written.                        *)
Tok(s) == IF s \in DOMAIN Spelling THEN <<Spelling[s]>> ELSE << <<s>> >>
WriteName(n) == IF n = <<>> \/ \E k \in Keywords : n = <<k>> THEN << <<"@">> \o n>> ELSE <<n>>
WritePath(path) == Separated([i \in DOMAIN path |-> WriteName(path[i])], Tok("."))

RECURSIVE WriteType(_)
WriteType(t) ==
    IF t = Null THEN <<>>
    ELSE CASE t[1] = "named" -> WritePath(t[2])
           [] t[1] = "ptr" -> Tok("*") \o WriteType(t[2])
           [] OTHER -> Tok(t[1])

Quote(v, quote) ==
    <<quote>>
    \o Concat([i \in DOMAIN v |->
          IF \E c \in DOMAIN Escapes : Escapes[c] = v[i]
          THEN <<"backslash", CHOOSE c \in DOMAIN Escapes : Escapes[c] = v[i]>>
          ELSE <<v[i]>>])
    \o <<quote>>
WriteLit(v, type) ==
    CASE type = <<"string">> -> Quote(v, "quote")
      [] type = <<"char">> -> Quote(v, "apostrophe")
      [] type \in {<<>>, <<"int">>} -> v
      [] OTHER -> v \o type

(* How tightly an expression binds; the binary operators in rising order.   *)
Tightness == <<{"||"}, {"&&"}, {"|"}, {"^"}, {"&"}, {"==", "!="}, {"<", "<=", ">", ">="},
               {"+", "-"}, {"*", "/", "%"}>>
Level(e) ==
    CASE e[1] = "Asgn" -> 1
      [] e[1] = "Ternary" -> 2
      [] e[1] = "Bin" -> 2 + (CHOOSE i \in DOMAIN Tightness : e[2] \in Tightness[i])
      [] e[1] = "Unary" -> 12
      [] OTHER -> 13

(* The text of e where level "min" is wanted; where a condition goes on     *)
(* ("bare"), a literal of a structure stands in parentheses.                 *)
RECURSIVE Write(_, _, _)
Write(e, min, bare) ==
    LET Inside(list) == Separated([i \in DOMAIN list |-> Write(list[i], Lowest, FALSE)], Tok(","))
        Field(f) == WriteName(f[1]) \o Tok(":") \o Write(f[2], Lowest, FALSE)
        Plain ==
          CASE e[1] = "Var" -> WriteName(e[2])
            [] e[1] = "Lit" -> <<WriteLit(e[2], e[3])>>
            [] e[1] = "Nil" -> Tok("nil")
            [] e[1] = "Type" -> WriteType(e[2])
            [] e[1] = "Call" -> WriteName(e[2]) \o Tok("(") \o Inside(e[3]) \o Tok(")")
            [] e[1] = "Instance" ->
                   WritePath(e[2]) \o Tok("{")
                   \o Separated([i \in DOMAIN e[3] |-> Field(e[3][i])], Tok(",")) \o Tok("}")
            [] e[1] = "Sizeof" ->
                   << <<"@", "size_of">> >> \o Tok("(") \o Write(e[2], Lowest, FALSE) \o Tok(")")
            [] e[1] = "Field" -> Write(e[2], 13, bare) \o Tok(".") \o WriteName(e[3])
            [] e[1] = "Method" ->
                   Write(e[2], 13, bare) \o Tok(".") \o WriteName(e[3]) \o Tok("(")
                   \o Inside(e[4]) \o Tok(")")
            [] e[1] = "Cast" ->
                   Write(e[3], 13, bare) \o Tok(".") \o Tok("(") \o WriteType(e[2]) \o Tok(")")
            [] e[1] = "Unary" -> Tok(e[2]) \o Write(e[3], 12, bare)
            [] e[1] = "Bin" ->
                   Write(e[3], Level(e), bare) \o Tok(e[2]) \o Write(e[4], Level(e) + 1, bare)
            [] e[1] = "Ternary" ->
                   Write(e[2], 3, bare) \o Tok("?") \o Write(e[3], Lowest, bare) \o Tok(":")
                   \o Write(e[4], 1, bare)
            [] e[1] = "Asgn" -> Write(e[3], 3, bare) \o Tok(e[2]) \o Write(e[4], 1, bare)
    IN  IF e = Null THEN <<>>
        ELSE IF Level(e) < min \/ (bare /\ e[1] = "Instance")
        THEN Tok("(") \o Write(e, Lowest, FALSE) \o Tok(")")
        ELSE Plain

WriteIf(word, b) == IF b THEN Tok(word) ELSE <<>>

RECURSIVE WriteStmt(_, _)
WriteStmt(s, semi) ==
    LET end == WriteIf(";", semi)
        Block(b) == Tok("{") \o Concat([i \in DOMAIN b[2] |-> WriteStmt(b[2][i], TRUE)]) \o Tok("}")
        Method(m) == WriteIf("pub", m[2][2]) \o WriteIf("static", m[1])
                     \o WriteStmt(<<"Func", FALSE>> \o SubSeq(m[2], 3, 6), TRUE)
        Methods(ms) == Tok("{") \o Concat([i \in DOMAIN ms |-> Method(ms[i])]) \o Tok("}")
        Arg(a) == WriteName(a[1]) \o Tok(":") \o WriteType(a[2])
        Member(f) == WriteIf("pub", f[1]) \o WriteIf("static", f[2]) \o WriteIf("const", f[3])
                     \o WriteName(f[4]) \o Tok(":") \o WriteType(f[5]) \o Tok(";")
    IN  IF s = Null THEN <<>> ELSE
        CASE s[1] = "VarDef" ->
                 WriteIf("pub", s[3]) \o Tok(s[2]) \o WriteName(s[4])
                 \o (IF s[5] = None THEN <<>> ELSE Tok(":") \o WriteType(s[5]))
                 \o (IF s[6] = None THEN <<>> ELSE Tok("=") \o Write(s[6], Lowest, FALSE)) \o end
          [] s[1] = "Func" ->
                 WriteIf("pub", s[2]) \o Tok("func") \o WriteName(s[3]) \o Tok("(")
                 \o Separated([i \in DOMAIN s[4] |-> Arg(s[4][i])], Tok(",")) \o Tok(")")
                 \o (IF s[5] = <<"noth">> THEN <<>> ELSE Tok(":") \o WriteType(s[5]))
                 \o (IF s[6] = None THEN Tok(";") ELSE Block(s[6]))
          [] s[1] = "Return" ->
                 Tok("return") \o (IF s[2] = None THEN <<>> ELSE Write(s[2], Lowest, FALSE)) \o end
          [] s[1] = "If" ->
                 Tok("if") \o Write(s[2], Lowest, TRUE) \o Block(s[3])
                 \o (CASE s[4] = None -> <<>>
                       [] s[4] # None /\ Len(s[4][2]) = 1 /\ s[4][2][1][1] = "If" ->
                              Tok("else") \o WriteStmt(s[4][2][1], TRUE)
                       [] OTHER -> Tok("else") \o Block(s[4]))
          [] s[1] = "For" ->
                 Tok("for")
                 \o (IF s[2] = None THEN <<>> ELSE WriteStmt(s[2], FALSE) \o Tok(","))
                 \o (IF s[3] = None THEN <<>> ELSE Write(s[3], Lowest, TRUE))
                 \o (IF s[4] = None THEN <<>> ELSE Tok(",") \o WriteStmt(s[4], FALSE))
                 \o Block(s[5])
          [] s[1] \in {"break", "continue"} -> Tok(s[1]) \o end
          [] s[1] = "Struct" ->
                 WriteIf("pub", s[2]) \o Tok("struct") \o WriteName(s[3])
                 \o (IF s[4] = None THEN Tok(";")
                     ELSE Tok("{") \o Concat([i \in DOMAIN s[4][2] |-> Member(s[4][2][i])])
                          \o Tok("}"))
          [] s[1] = "Impl" ->
                 Tok("impl") \o (IF s[3] = None THEN <<>> ELSE WriteType(s[3]) \o Tok("for"))
                 \o WriteType(s[2]) \o Methods(s[4])
          [] s[1] = "Trait" ->
                 WriteIf("pub", s[2]) \o Tok("trait") \o WriteName(s[3]) \o Methods(s[4])
          [] s[1] = "Extern" ->
                 Tok("extern") \o (IF s[2] = <<>> THEN <<>> ELSE <<WriteLit(s[2], <<"string">>)>>) \o Block(s[3])
          [] s[1] = "Import" -> Tok("import") \o WritePath(s[2]) \o end
          [] s[1] = "Expr" -> Write(s[2], Lowest, FALSE) \o end

WriteFile(stmts) == Concat([i \in DOMAIN stmts |-> WriteStmt(stmts[i], TRUE)])

(* The text of tokens, with a blank between two.                            *)
Spaced(tokens) == Separated(tokens, <<" ">>)

-----------------------------------------------------------------------------

Parsed == deps # {} /\ isAtEnd(p)
Accepted == Parsed /\ ~p.crashed /\ p.errs = {} /\ ~\E i \in DOMAIN toks : toks[i].bad

(* The tokens of a kind from the i-th to the j-th.                          *)
Between(i, j, kind) == {k \in i..j : Kind(k) = kind}

(* &= and |= are read as two operators.                                     *)
SplitOperator == \E i \in DOMAIN toks : Kind(i) \in {"&", "|"} /\ Kind(i + 1) = "="

(* A ternary expression in a condition, where the brace behind a name opens *)
(* the literal of a structure.                                               *)
TernaryInCondition ==
    \E i, j \in DOMAIN toks :
        /\ i < j /\ Kind(i) \in {"if", "for"} /\ Kind(j) = "?"
        /\ Cardinality(Between(i, j, "{")) = Cardinality(Between(i, j, "}"))
        /\ Cardinality(Between(i, j, "(")) = Cardinality(Between(i, j, ")"))

(* What is written for a tree is read as that tree: precedence, numerals,   *)
(* names, comments and blanks, except for the two forms above.               *)
WellFormedIsParsed ==
    Parsed /\ meant # {} =>
        \/ Accepted /\ meant = {nodes}
        \/ SplitOperator \/ TernaryInCondition

(* What is accepted without being what the tree says: "pub" before what has *)
(* no access; any token in the place of "func" in the body of impl or trait; *)
(* the end of the file in the place of closing braces.                       *)
PubOnNothing ==
    \E i \in DOMAIN toks :
        /\ Kind(i) = "pub"
        /\ Kind(i + 1) \notin {"let", "const", "func", "struct", "trait", "static"}
        /\ Kind(i + 1) = "id" => ~\E j \in 1..i : Kind(j) = "struct"
Count(ts, kind) == Cardinality({i \in DOMAIN ts : ts[i].kind = kind})
EndsOpen == Count(toks, "{") > Count(toks, "}")
MethodWithoutFunc ==
    \E j, i \in DOMAIN toks :
        /\ j < i /\ Kind(j) \in {"impl", "trait"}
        /\ Kind(i - 1) \in {"{", "}", ";", "pub", "static"} /\ Kind(i) # "func"
        /\ Kind(i + 1) = "id" /\ Kind(i + 2) = "("

(* What is accepted without an error says what the tree says: no token is   *)
(* lost or made up, except for the three forms above.                        *)
Bare(ts) == SelectSeq(ts, LAMBDA t : t.kind \notin {"(", ")", "{", "}"})
AcceptedIsWritten ==
    LET read  == Bare(toks)
        wrote == Bare(Tokens(Spaced(WriteFile(nodes))))
    IN  Accepted /\ ~PubOnNothing /\ ~MethodWithoutFunc =>
            /\ Len(read) = Len(wrote)
            /\ \A i \in DOMAIN read :
                   read[i].kind = wrote[i].kind /\ read[i].val = wrote[i].val
            /\ Count(toks, "{") = Count(toks, "}") \/ EndsOpen

(* The only null pointer that is used: a member of a cast that was wrong.   *)
CrashesAreKnown ==
    p.crashed =>
        \E i, j \in DOMAIN toks :
            /\ i < j /\ Kind(i) = "." /\ Kind(i + 1) = "("
            /\ Kind(j) \in {")", ";", "}"} /\ Kind(j + 1) = "."
            /\ \E e \in p.errs : i + 1 < e[1] /\ e[1] <= j + 1

(* A definition that ends before an error or begins after it is in the tree. *)
IsLet(i) ==
    /\ i + 4 \in DOMAIN toks
    /\ Kind(i) = "let" /\ Kind(i + 1) = "id" /\ Kind(i + 2) = "=" /\ Kind(i + 3) = "lit"
    /\ Kind(i + 4) = ";"
LetsAreKept ==
    LET wrote == Tokens(Spaced(WriteFile(nodes)))
    IN  Parsed /\ ~p.crashed =>
            \A i \in DOMAIN toks :
                IsLet(i) /\ ~(\E e \in p.errs : e[1] \in i..(i + 4) /\ (e[1] = i => e[2])) =>
                    \E j \in DOMAIN wrote :
                        /\ j + 4 \in DOMAIN wrote
                        /\ \A k \in 0..4 : /\ wrote[j + k].kind = Kind(i + k)
                                           /\ wrote[j + k].val = Val(i + k)
(* The imports of a file are those the driver found, in their order, when   *)
(* the word stands nowhere else.  When it does -- in a comment, in a string, *)
(* as a name -- they are still found, unless the name the scanner expects     *)
(* behind the word is missing or is the word itself.                         *)
Imports == SelectSeq(nodes, LAMBDA s : s[1] = "Import")
Words == {i \in DOMAIN text : text[i] = "import"}
NoName(i) == LET n == DepToken(text, i + 1) IN n.kind # "id" \/ n.val = <<"import">>
CommentAt(i) == Peek(text, i) = "/" /\ Peek(text, i + 1) \in {"/", "*"}
CommentInPath ==
    \E i \in DOMAIN text :
        \/ CommentAt(i) /\ NextToken(text, i).kind = "."
        \/ text[i] = "." /\ CommentAt(SkipBlanks(text, i + 1))
ImportsAreFound ==
    Accepted /\ ~CommentInPath =>
        LET found == CHOOSE d \in deps : TRUE
        IN  /\ Cardinality(Words) = Len(Imports) =>
                   found = [i \in DOMAIN Imports |-> Imports[i][2]]
            /\ (\A i \in Words : ~NoName(i)) =>
                   \A i \in DOMAIN Imports : \E j \in DOMAIN found : found[j] = Imports[i][2]

(* Whatever is wrong with a statement, the next one begins behind its start: *)
(* the loop over the file ends.                                              *)
StatementsAdvance == [][deps = deps' => p'.at > p.at]_vars
=============================================================================
