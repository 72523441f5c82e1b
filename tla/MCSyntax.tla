------------------------------ MODULE MCSyntax ------------------------------
(* Files for Parser: trees of every kind, written; the same with a mistake.  *)
EXTENDS Syntax

A == <<"a">>
B == <<"b">>
Va == <<"Var", A>>
Vb == <<"Var", B>>
One == <<"Lit", <<"1">>, <<"int">>>>

(* Expressions over the operands in S.                                      *)
Exprs(S, T) ==
    {<<"Bin", op, l, r>> : op \in {"+", "*", "==", "&&", "&"}, l \in S, r \in T}
    \cup {<<"Asgn", op, l, r>> : op \in {"=", "&="}, l \in S, r \in T}
    \cup {<<"Unary", op, l>> : op \in {"-", "~", "*", "&"}, l \in S}
    \cup {<<"Ternary", l, l2, r>> : l \in S, l2 \in T, r \in T}
    \cup {<<"Call", B, <<l, r>>>> : l \in S, r \in T}
    \cup {<<"Call", B, <<>>>>}
    \cup {<<"Field", l, B>> : l \in S}
    \cup {<<"Method", l, B, <<r>>>> : l \in S, r \in T}
    \cup {<<"Cast", <<"ptr", <<"i32">>>>, l>> : l \in S}
    \cup {<<"Instance", <<A>>, <<<<B, l>>>>>> : l \in S}
    \cup {<<"Instance", <<A, B>>, <<>>>>, <<"Sizeof", <<"Type", <<"i32">>>>>>, <<"Nil">>}

Leaves == {Va, One}
Depth1 == Exprs(Leaves, {Va})
Depth2 == Exprs(Depth1, {Va}) \cup Exprs({Va}, Depth1)

Written(tree) == [text |-> Spaced(WriteFile(tree)), meant |-> {tree}]

Do(e) == <<"Expr", e>>
Block(ss) == <<"block", ss>>
NoBlock == Block(<<>>)
Func(n, args, ret, body) == <<"Func", FALSE, n, args, ret, body>>
I32 == <<"i32">>
Let(n, e) == <<"VarDef", "let", FALSE, n, None, e>>
Proc(ss) == Func(A, <<>>, <<"noth">>, Block(ss))

ExprFiles == {<<Do(e)>> : e \in Depth1 \cup Depth2}
             \cup {<<<<"If", e, NoBlock, None>>>> : e \in Depth1 \cup Depth2}

(* One statement of every kind and form.                                    *)
Stmts ==
    {<<"VarDef", k, FALSE, A, t, e>> : k \in {"let", "const"}, t \in {None, I32}, e \in {None, One}}
    \cup {<<"VarDef", "let", TRUE, A, <<"ptr", <<"named", <<A, B>>>>>>, None>>}
    \cup {Func(A, args, ret, body) :
              args \in {<<>>, <<<<A, I32>>>>, <<<<A, I32>>, <<B, <<"bool">>>>>>},
              ret \in {<<"noth">>, I32},
              body \in {None, Block(<<<<"Return", Va>>>>)}}
    \cup {<<"If", Va, NoBlock, else>> :
              else \in {None, Block(<<<<"Return", None>>>>), Block(<<<<"If", Vb, NoBlock, None>>>>)}}
    \cup {<<"For", None, None, None, Block(<<<<"break">>>>)>>,
          <<"For", None, Va, None, Block(<<<<"continue">>>>)>>,
          <<"For", Let(A, One), Va, Do(<<"Asgn", "+=", Va, One>>), NoBlock>>}
    \cup {<<"Struct", TRUE, A, None>>, <<"Struct", FALSE, A, <<"fields", <<>>>>>>,
          <<"Struct", FALSE, A, <<"fields", <<<<TRUE, FALSE, FALSE, A, I32>>,
                                            <<FALSE, TRUE, TRUE, B, I32>>>>>>>>}
    \cup {<<"Impl", <<"named", <<A>>>>, trait, <<<<FALSE, Proc(<<>>)>>, <<TRUE, Proc(<<>>)>>>>>> :
              trait \in {None, <<"named", <<B>>>>}}
    \cup {<<"Trait", FALSE, B, <<<<FALSE, Func(A, <<>>, I32, None)>>>>>>}
    \cup {<<"Extern", from, Block(<<Func(A, <<>>, I32, None)>>)>> :
              from \in {<<>>, <<"c">>}}
    \cup {<<"Import", path>> : path \in {<<A>>, <<A, B>>}}
    \cup {Do(<<"Call", A, <<>>>>), Do(<<"Field", <<"Cast", I32, Va>>, B>>),
          Do(<<"Cast", I32, <<"Instance", <<A>>, <<<<B, One>>>>>>>>)}

StmtFiles == {<<s>> : s \in Stmts} \cup {<<Proc(<<s>>)>> : s \in Stmts}

(* A mistake in the first statement of two.                                 *)
Slips == {"a", ";", ",", ".", "(", ")", "{", "}", "=", "*", ":", "func", "let", "i32", "extern"}
Without(ts, i) == SubSeq(ts, 1, i - 1) \o SubSeq(ts, i + 1, Len(ts))
With(ts, i, c) == SubSeq(ts, 1, i - 1) \o Tok(c) \o SubSeq(ts, i, Len(ts))
Mistakes(ts) ==
    {Without(ts, i) : i \in DOMAIN ts} \cup {SubSeq(ts, 1, i) : i \in DOMAIN ts}
    \cup {With(ts, i, c) : i \in DOMAIN ts, c \in Slips}
    \cup {With(Without(ts, i), i, c) : i \in DOMAIN ts, c \in Slips}
Next2 == WriteStmt(Let(B, One), TRUE)
(* Numerals of every form and suffix, with their values.                     *)
Decimals == {<<<<"1">>, <<"1">>>>, <<<<"1", "_", "0">>, <<"1", "0">>>>, <<<<"0", "8">>, <<"0", "8">>>>}
Radix ==
    {<<<<"0", "x", "f", "3", "2">>, <<"0", "x", "f", "3", "2">>>>,
     <<<<"0", "b", "1", "_", "1">>, <<"0", "b", "1", "1">>>>, <<<<"0", "o", "7">>, <<"0", "o", "7">>>>}
Floats ==
    {<<<<"1", ".", "5">>, <<"1", ".", "5">>>>, <<<<".", "5">>, <<"0", ".", "5">>>>,
     <<<<"1", "0", ".", "0", "_", "5">>, <<"1", "0", ".", "0", "5">>>>}
IntSuffixes == {<<"u", "8">>, <<"i", "3", "2">>, <<"i", "1", "6">>, <<"u", "z">>}
FloatSuffixes == {<<"f", "3", "2">>, <<"f", "6", "4">>}
Numeral(n, suffix, type) == [raw |-> n[1] \o suffix, lit |-> <<"Lit", n[2], type>>]
Numerals ==
    {Numeral(n, <<>>, <<"int">>) : n \in Decimals \cup Radix}
    \cup {Numeral(n, <<>>, <<"f", "6", "4">>) : n \in Floats}
    \cup {Numeral(n, s, s) : n \in Decimals \cup Radix, s \in IntSuffixes}
    \cup {Numeral(n, s, s) : n \in Decimals \cup Floats, s \in FloatSuffixes}
NumFile(lit) == <<Do(<<"Bin", "-", lit, One>>)>>
NumFiles == {NumFile(n.lit) : n \in Numerals}
NumTexts(f) ==
    {[text |-> Spaced(<<n.raw>> \o Tok("-") \o <<<<"1">>>> \o Tok(";")), meant |-> {f}] :
        n \in {n \in Numerals : NumFile(n.lit) = f}}

(* Imports, and the word elsewhere; comments at every place.                *)
Import(path) == <<"Import", path>>
DepFiles ==
    {<<Import(A2)>> : A2 \in {<<A>>, <<A, B>>}}
    \cup {<<Import(<<A, B>>), Let(A, One), Import(<<B>>)>>, <<Proc(<<>>), Import(<<A>>)>>,
          <<Let(A, <<"Lit", <<"import", " ", "a", "quote">>, <<"string">>>>), Import(<<B>>)>>,
          <<Let(A, <<"Lit", <<"apostrophe">>, <<"char">>>>)>>,
          <<Do(<<"Var", <<"import">>>>), Import(<<B>>)>>, <<Proc(<<Import(<<A>>)>>)>>}
Comments ==
    {<<"/", "/">> \o c \o <<"nl">> : c \in {<<>>, <<"import", " ", "a">>, <<"import">>}}
    \cup {<<"/", "*">> \o c \o <<"*", "/">> : c \in {<<>>, <<"import", " ", "a">>, <<"import">>, <<"*">>}}
Commented(ts) ==
    {Spaced(SubSeq(ts, 1, i)) \o c \o Spaced(SubSeq(ts, i + 1, Len(ts))) :
        i \in 0..Len(ts), c \in Comments}
    \cup {Spaced(ts) \o <<"/", "/">>, Spaced(ts) \o <<"/", "*">>}

(* No blanks around what can stand alone.                                    *)
Alone == {"(", ")", "{", "}", ";", ",", ":"}
Tight(ts) ==
    Concat([i \in DOMAIN ts |->
        IF i = 1 \/ ts[i][1] \in Alone \/ ts[i - 1][1] \in Alone THEN ts[i] ELSE <<" ">> \o ts[i]])

MCFiles == ExprFiles \cup StmtFiles \cup NumFiles \cup DepFiles
MCTexts(f) ==
    LET ts == WriteFile(f)
    IN  {Written(f), [text |-> Tight(ts), meant |-> {f}]}
        \cup (IF f \in StmtFiles
              THEN {[text |-> Spaced(m \o Next2), meant |-> {}] : m \in Mistakes(ts)} ELSE {})
        \cup (IF f \in NumFiles THEN NumTexts(f) ELSE {})
        \cup (IF f \in DepFiles
              THEN {[text |-> t, meant |-> {f}] : t \in Commented(ts)} ELSE {})
=============================================================================
