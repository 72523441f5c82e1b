--------------------------- MODULE MCDeclarations ---------------------------
(* Files about one subject each: every sequence of the declarations of the   *)
(* subject, and all constants of small expressions.                          *)
EXTENDS Analysis

Widths == "u8" :> 3 @@ "i8" :> 3 @@ "u16" :> 4 @@ "i16" :> 4
          @@ "u32" :> 5 @@ "i32" :> 5 @@ "u64" :> 6 @@ "i64" :> 6

Num(type, n) == [kind |-> "lit", type |-> type, num |-> n]
Number(n) == Num(None, n)
V(name) == [kind |-> "var", name |-> name]
Bin(op, l, r) == [kind |-> "binary", op |-> op, lhs |-> l, rhs |-> r]
Un(op, r) == [kind |-> "unary", op |-> op, rhs |-> r]
As(e, type) == [kind |-> "cast", expr |-> e, type |-> type]
If(c, y, n) == [kind |-> "ternary", cond |-> c, yes |-> y, no |-> n]
Dot(base, name, args) == [kind |-> "call", base |-> base, name |-> name, args |-> args]
CallOf(name, args) == Dot(NoBase, name, args)

Let(name, type, init) == [kind |-> "var", name |-> name, type |-> type, isConst |-> FALSE, init |-> init]
Const(name, type, init) == [Let(name, type, init) EXCEPT !.isConst = TRUE]
Expr(e) == [kind |-> "expr", expr |-> e]
Ret(e) == [kind |-> "ret", expr |-> e]

Arg(name, type) == [name |-> name, type |-> type]
Func(name, args, ret, body) ==
    [kind |-> "func", name |-> name, args |-> args, ret |-> ret, static |-> FALSE, pub |-> TRUE,
     hasBody |-> TRUE, body |-> body]
Head0(name, args, ret) == [Func(name, args, ret, <<>>) EXCEPT !.hasBody = FALSE]
Static(f) == [f EXCEPT !.static = TRUE]
Private(f) == [f EXCEPT !.pub = FALSE]
Impl(type, trait, methods) == [kind |-> "impl", type |-> type, trait |-> trait, methods |-> methods]
Trait(name, methods) == [kind |-> "trait", name |-> name, methods |-> methods]
Struct(name, fields) == [kind |-> "struct", name |-> name, hasBody |-> TRUE, fields |-> fields]
Extern(body) == [kind |-> "extern", abi |-> TRUE, body |-> body]
Import(m) == [kind |-> "import", mod |-> m]

S == <<"named", "S">>
T == <<"named", "T">>
This == <<"named", "This">>
I8 == <<"i8">>
U8 == <<"u8">>
U32 == <<"u32">>
U64 == <<"u64">>
I64 == <<"i64">>
X == <<Arg("x", I32)>>

-----------------------------------------------------------------------------
(* lib has a struct, a variable, a template that uses it, a private function *)
(* and a method of i32; hub imports lib, and so has its methods of i32, too. *)
LibFunc(name, base, table, m, f, generic, k) ==
    [base |-> base, table |-> table, name |-> name, args |-> f.args, ret |-> f.ret,
     static |-> f.static, pub |-> f.pub, generic |-> generic, extern |-> FALSE,
     instance |-> FALSE, mod |-> m, def |-> <<0, k>>, ast |-> f, bodies |-> <<>>]
LibTrait == <<"trait", "lib", "T">>
LibVars == "v" :> [type |-> I32, isConst |-> FALSE, data |-> 0, bits |-> 0, as |-> I32,
                   exact |-> FALSE, def |-> <<0, 9>>]
LibG == Func("g", <<Arg("t", LibTrait)>>, I32, <<Ret(V("v"))>>)
LibP == Private(Func("p", X, I32, <<>>))
LibM == Func("m", <<>>, I32, <<>>)

MCLibrary ==
    "lib" :> [cands |-> << LibFunc("g", None, "lib", "lib", LibG, TRUE, 1),
                           LibFunc("p", None, "lib", "lib", LibP, FALSE, 2),
                           LibFunc("m", I32, "lib", "lib", LibM, FALSE, 3) >>,
              structs |-> <<"lib", "S">> :> [complete |-> TRUE, fields |-> <<>>, pub |-> TRUE]
                          @@ <<"lib", "Q">> :> [complete |-> TRUE, fields |-> <<>>, pub |-> FALSE],
              traits |-> <<"lib", "T">> :> [pub |-> TRUE],
              impls |-> {[type |-> I32, trait |-> LibTrait, table |-> "lib"]},
              vars |-> LibVars]
    @@ "hub" :> [cands |-> << LibFunc("m", I32, "hub", "lib", LibM, FALSE, 3) >>,
                 structs |-> << >>, traits |-> << >>,
                 impls |-> {[type |-> I32, trait |-> LibTrait, table |-> "hub"]}, vars |-> << >>]

UpTo(set, n) == UNION {[1..k -> set] : k \in 1..n}

FunctionDecls == {
    Struct("S", <<>>),
    Let("x", None, Number(1)),
    Func("f", X, I32, <<Ret(V("x"))>>),
    Func("f", <<Arg("y", I32)>>, Noth, <<>>),
    Func("f", <<Arg("x", I64)>>, Noth, <<Func("k", <<>>, Noth, <<>>)>>),
    Func("f", <<Arg("x", S)>>, Noth, <<>>),
    Func("f", <<>>, U8, <<Ret(Number(5))>>),
    Let("z", U8, Number(9)),
    Func("e", <<>>, Noth, <<Expr(CallOf("f", <<Number(40)>>))>>),
    Func("main", <<>>, Noth, <<Let("x", None, Num(I8, 1)), Expr(CallOf("f", <<V("x")>>)), Ret(NoInit),
                               Expr(CallOf("f", <<As(V("x"), U8)>>)), Let("x", None, V("y"))>>) }

TraitDecls == {
    Trait("T", <<Head0("m", <<Arg("o", This)>>, I32)>>),
    Struct("S", <<Arg("n", I32)>>),
    Impl(S, None, <<Private(Func("m", <<Arg("o", This)>>, I32, <<Expr(Dot("this", "m", <<V("o")>>))>>))>>),
    Impl(S, T, <<Func("m", <<Arg("o", S)>>, I32, <<Ret(Number(1))>>)>>),
    Impl(I32, T, <<Func("m", <<Arg("o", I32)>>, I32, <<Ret(V("o"))>>)>>),
    Func("g", <<Arg("t", T)>>, I32, <<Ret(V("x"))>>),
    Func("main", <<>>, Noth, <<Let("x", None, Number(1)), Let("y", I32, CallOf("g", <<V("x")>>)),
                               Expr(CallOf("g", <<Num(I8, 1)>>))>>),
    Let("x", I32, Number(3)),
    Func("h", <<Arg("s", S)>>, Noth, <<Expr(CallOf("g", <<Num(I8, 1)>>)),
                            Expr(Dot("s", "m", <<V("s")>>))>>),
    Func("n", <<>>, Noth, <<Impl(S, None, <<Func("m", <<Arg("o", S)>>, I32, <<>>)>>)>>) }

ImportDecls == {
    Import("lib"), Import("hub"), Import("none"),
    Let("v", None, Number(2)),
    Func("main", <<>>, Noth, <<Let("i", None, Number(1)), Expr(Dot("i", "m", <<>>))>>),
    Func("k", <<>>, Noth, <<Expr(Dot("lib", "g", <<Number(1)>>))>>),
    Func("r", <<>>, Noth, <<Expr(Dot("lib", "p", <<Number(1)>>))>>),
    Func("k", <<Arg("x", <<"named", "lib", "S">>)>>, Noth, <<>>),
    Func("q", <<Arg("x", <<"named", "lib", "Q">>)>>, Noth, <<>>),
    Struct("S", <<>>),
    Func("k", <<Arg("x", S)>>, Noth, <<>>),
    Impl(I32, None, <<Func("m", <<>>, I32, <<>>)>>) }

ExternDecls == {
    Extern(<<Head0("f", X, I32), Let("e", I32, NoInit)>>),
    Extern(<<[Struct("E", <<>>) EXCEPT !.hasBody = FALSE], Head0("f", <<Arg("x", <<"*", "named", "E">>)>>, I32)>>),
    Struct("A", <<Arg("p", <<"*", "named", "A">>)>>),
    Struct("B", <<Arg("a", <<"named", "A">>), Arg("e", <<"named", "E">>)>>),
    Let("b", <<"named", "E">>, NoInit),
    Func("f", X, I32, <<Ret(V("e"))>>),
    Func("main", <<Arg("p", <<"*", "named", "A">>)>>, I32,
         <<Let("q", None, Bin("+", V("p"), Number(1))), Let("p", I32, Bin("-", V("q"), V("e"))),
           Ret(CallOf("f", <<V("e")>>))>>),
    Impl(<<"named", "A">>, None, <<Func("m", <<>>, Noth, <<>>),
                                   Static(Func("m", <<Arg("a", <<"*", "named", "A">>)>>, Noth, <<>>))>>) }

(* A call that only the instance of an earlier one could be taken for.       *)
WiderCall == <<
    Impl(I32, T, <<Func("m", <<Arg("o", I32)>>, I32, <<Ret(V("o"))>>)>>),
    Func("g", <<Arg("t", T)>>, I32, <<Ret(Number(1))>>),
    Func("main", <<>>, Noth, <<Expr(CallOf("g", <<Num(I32, 1)>>)), Expr(CallOf("g", <<Num(I64, 1)>>))>>) >>

(* Each refused for a reason of its own, after Known.                        *)
RefusedDecls == {
    Impl(S, T, <<>>), Impl(S, S, <<>>),
    Impl(S, T, <<Func("m", <<Arg("o", I32)>>, I32, <<>>)>>),
    Impl(S, T, <<Static(Func("m", <<Arg("o", S)>>, I32, <<>>))>>),
    Impl(S, None, <<Head0("m", <<>>, I32)>>),
    Trait("U", <<Func("m", <<>>, I32, <<>>)>>), Trait("T", <<>>),
    Struct("R", <<Arg("r", <<"named", "R">>), Arg("t", T)>>), Struct("R", <<Arg("r", I32), Arg("r", I32)>>),
    [Struct("R", <<>>) EXCEPT !.hasBody = FALSE],
    Head0("h", <<>>, I32), Func("h", <<>>, T, <<>>),
    Let("v", T, NoInit), Let("v", None, NoInit), Let("v", None, CallOf("n", <<>>)),
    Const("c", None, CallOf("w", <<>>)), Const("c", None, Number(100)),
    Func("n", <<>>, Noth, <<Let("s", S, NoInit), Expr(Dot("s", "q", <<>>)), Expr(Dot("S", "p", <<>>))>>),
    Func("w", <<>>, I32, <<Ret(NoInit), Expr(Dot("S", "q", <<>>)), Expr(Dot("This", "q", <<>>))>>),
    Impl(S, None, <<Func("p", <<>>, I32, <<Expr(Dot("This", "q", <<>>))>>),
                    Static(Private(Func("q", <<>>, I32, <<>>)))>>),
    [Extern(<<>>) EXCEPT !.abi = FALSE],
    Extern(<<Func("f", X, I32, <<>>), Struct("E", <<>>), Impl(S, None, <<>>), Let("e", I32, Number(1)),
             Let("e", None, NoInit)>>) }

Literals == {Number(3), Number(20), Num(I8, 3), Num(U8, 6), Num(U64, 50), Num(USize, 1), Num(I32, 0), Num(Bool, 1),
             Num(<<"f64">>, 1)}
Depth1 == Literals \cup {V("a")}
          \cup {Un(op, e) : op \in {"-", "!", "~"}, e \in Literals}
          \cup {As(e, t) : e \in {Number(3), Num(U8, 6), Num(I8, 3)}, t \in {Bool, I8, U8, I64, USize}}
          \cup {If(Num(Bool, 1), e, Number(2)) : e \in {Number(3), Num(U8, 6), V("a")}}
Operators == {"+", "-", "*", "/", "<", "==", "&", "&&"}
Constant(prefix, type, e) == Append(prefix, Const("c", type, e))

ConstantFiles ==
    {<<a, Const("b", u, Bin(op, l, r))>> :
        a \in {Const("a", None, Number(7)), Const("a", U8, Num(U8, 6))}, u \in {None, I32},
        op \in Operators, l \in Depth1,
        r \in {V("a"), Num(I8, 3), Num(U32, 5), Number(2), Num(USize, 1), Num(I32, 0), Num(<<"f64">>, 0)}}
    \cup {<<Const("a", I64, Num(I64, 32)), Const("b", None, Bin("/", V("a"), Un("-", Num(I64, 1))))>>}
    \cup {<<Const("a", None, e), Const("b", u, e)>> : u \in {U8, I64, <<"f64">>}, e \in Depth1}
Known == <<Trait("T", <<Head0("m", <<Arg("o", This)>>, I32)>>), Struct("S", <<Arg("n", I32)>>)>>
MCTexts ==
    UpTo(FunctionDecls, 3) \cup UpTo(ImportDecls, 3) \cup UpTo(ExternDecls, 3) \cup ConstantFiles
    \cup UpTo(TraitDecls, 2)
    \cup {Known \o WiderCall}
    \cup {Known \o t : t \in UpTo(TraitDecls, 3) \cup UpTo(RefusedDecls, 2)}
=============================================================================
